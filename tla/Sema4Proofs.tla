------------------------------ MODULE Sema4Proofs ------------------------------
(***************************************************************************)
(* What Sema4 guarantees for any number of threads, semaphores, cached     *)
(* sections and accesses: mutual exclusion, no fatal error, and sections   *)
(* that are nobody else's.                                                 *)
(*                                                                         *)
(* None of these is inductive.  They hold because of three facts taken     *)
(* together: who owns a semaphore is in its section (Ownership), different *)
(* semaphores have different sections (Pool), and what a thread is about   *)
(* to do to a semaphore it may do (Control); a thread that creates a       *)
(* section, above all, has InitSemaphore.                                  *)
(***************************************************************************)
EXTENDS Sema4, TLAPS

\* Numbers of sections are handed out once; a semaphore that can be entered
\* has one, and InitSemaphore and the heap have one from the start.
Pool ==
    /\ \A o \in Objects : semaphore[o] # 0 =>
          \/ semaphore[o] \in 1..critsect_next
          \/ semaphore[o] \in MAX_CRITICAL_SECTION + 1 ..
                              MAX_CRITICAL_SECTION + critsect_vectornext
    /\ \A o, q \in Objects :
          o # q /\ semaphore[o] = semaphore[q] => semaphore[o] = 0
    /\ \A o \in Objects : initialized[o] => semaphore[o] # 0
    /\ initialized[InitSemaphore] /\ initialized[NHeap]

\* count is the number of accesses of the owner, who is in the section.
Ownership ==
    /\ \A t, u \in Threads : t # u => inside[t] \cap inside[u] = {}
    /\ \A o \in Objects : owner[o] = NoThread => count[o] = 0
    /\ \A o \in Objects, t \in Threads : owner[o] = t =>
          count[o] = held[t][o] /\ initialized[o] /\ semaphore[o] \in inside[t]
    /\ \A o \in Objects, t \in Threads : held[t][o] > 0 => owner[o] = t

\* What a statement of t finds about the semaphore it is for.
Control(t) ==
    /\ pc[t] \in {"enter", "own", "leave"} => initialized[obj[t]]
    /\ pc[t] \in {"own", "leave"} =>
          owner[obj[t]] = NoThread /\ semaphore[obj[t]] \in inside[t]
    /\ pc[t] \in {"count", "disown"} => owner[obj[t]] = t
    /\ pc[t] = "disown" => held[t][obj[t]] = 0
    /\ pc[t] \in {"release", "decrement"} => held[t][obj[t]] > 0
    /\ pc[t] # "fatal"

\* The inner calls of t: for the creation of a section t has InitSemaphore,
\* and when it comes to release it the section is there.
Nesting(t) ==
    /\ outer[t] = InitSemaphore => obj[t] # InitSemaphore
    /\ outer[t] # InitSemaphore => obj[t] \in {InitSemaphore, NHeap}
    /\ pc[t] \in {"idle", "retest", "create", "grow", "publish"} =>
          outer[t] = InitSemaphore
    /\ pc[t] \in {"retest", "create", "grow", "publish"} =>
          held[t][InitSemaphore] > 0
    /\ pc[t] \in {"create", "grow", "publish"} => ~initialized[obj[t]]
    /\ pc[t] = "publish" => semaphore[obj[t]] # 0
    /\ outer[t] # InitSemaphore /\ obj[t] = NHeap =>
          held[t][InitSemaphore] > 0 /\ ~initialized[outer[t]]
    /\ outer[t] # InitSemaphore /\ obj[t] = InitSemaphore
       /\ pc[t] \in {"release", "decrement", "disown", "leave"} =>
          initialized[outer[t]]

SemaInv == /\ TypeOK /\ Pool /\ Ownership
           /\ \A t \in Threads : Control(t) /\ Nesting(t)

\* The semaphores of the library, InitSemaphore and NHeap are different objects.
LEMMA ObjectFacts ==
    /\ InitSemaphore \in Objects /\ NHeap \in Objects /\ NHeap # InitSemaphore
    /\ Sems \subseteq Objects /\ Objects \subseteq Nat
BY SemaAssumption DEF Objects, InitSemaphore

\* Calls and returns leave the type of the variables they change.
CallState == /\ pc \in [Threads -> Statements]
             /\ obj \in [Threads -> Objects]
             /\ outer \in [Threads -> Sems \cup {InitSemaphore}]

\* A step to the next statement of a call keeps the types of pc, obj and outer.
LEMMA GotoType ==
    ASSUME CallState, NEW t \in Threads, NEW st \in Statements, Goto(t, st),
           UNCHANGED <<obj, outer>>
    PROVE  CallState'
BY DEF CallState, Goto

\* So does the inner call of __AccessSemaphore that makes a section.
LEMMA CallType ==
    ASSUME CallState, NEW t \in Threads, NEW st \in Statements,
           NEW o \in Objects, Call(t, st, o)
    PROVE  CallState'
BY DEF CallState, Call, Goto, Objects

\* So does a return, to the library or to the outer call.
LEMMA ReturnType ==
    ASSUME CallState, NEW t \in Threads, NEW st \in Statements, Return(t, st)
    PROVE  CallState'
<1>1. CASE outer[t] = InitSemaphore
  <2>1. Goto(t, "idle") /\ UNCHANGED <<obj, outer>>
    BY <1>1 DEF Return
  <2>2. QED
    BY <2>1, GotoType DEF Statements
<1>2. CASE outer[t] # InitSemaphore
  <2>1. outer[t] \in Objects
    BY DEF CallState, Objects
  <2>2. QED
    BY <1>2, <2>1 DEF CallState, Return, Goto
<1>3. QED
  BY <1>1, <1>2

\* The test of the owner, read without a lock: a thread finds itself only when
\* it is the owner, as nobody else writes its name.
LEMMA TestOwnerKeeps ==
    ASSUME SemaInv, NEW t \in Threads, TestOwner(t)
    PROVE  SemaInv'
<1> USE ObjectFacts, SemaAssumption
<1>1. TypeOK'
  BY DEF SemaInv, TypeOK, TestOwner, Goto, fields, pool, Statements
<1>2. Pool'
  BY DEF SemaInv, Pool, TestOwner, fields, pool
<1>3. Ownership'
  BY DEF SemaInv, Ownership, TestOwner, fields
<1>4. ASSUME NEW u \in Threads PROVE Control(u)'
  <2>1. CASE u = t
    BY <2>1 DEF SemaInv, Control, TestOwner, Goto, fields
  <2>2. CASE u # t
    BY <2>2 DEF SemaInv, Control, TestOwner, Goto, fields
  <2>3. QED
    BY <2>1, <2>2
<1>5. ASSUME NEW u \in Threads PROVE Nesting(u)'
  <2>1. CASE u = t
    BY <2>1 DEF SemaInv, Nesting, TestOwner, Goto, fields
  <2>2. CASE u # t
    BY <2>2 DEF SemaInv, Nesting, TestOwner, Goto, fields
  <2>3. QED
    BY <2>1, <2>2
<1>6. QED
  BY <1>1, <1>2, <1>3, <1>4, <1>5 DEF SemaInv

\* The first test of initialized, without a lock: it is never taken back.
LEMMA TestInitializedKeeps ==
    ASSUME SemaInv, NEW t \in Threads, TestInitialized(t)
    PROVE  SemaInv'
<1> USE ObjectFacts, SemaAssumption
<1>1. TypeOK'
  <2>1. CallState'
    <3>1. CASE initialized[obj[t]]
      BY <3>1, GotoType DEF SemaInv, TypeOK, CallState, TestInitialized, Statements
    <3>2. CASE ~initialized[obj[t]]
      BY <3>2, CallType DEF SemaInv, TypeOK, CallState, TestInitialized, Statements
    <3>3. QED
      BY <3>1, <3>2
  <2>2. QED
    BY <2>1 DEF SemaInv, TypeOK, CallState, TestInitialized, fields, pool
<1>2. Pool'
  BY DEF SemaInv, Pool, TestInitialized, fields, pool
<1>3. Ownership'
  BY DEF SemaInv, Ownership, TestInitialized, fields
<1>4. ASSUME NEW u \in Threads PROVE Control(u)'
  <2>1. CASE u = t
    BY <2>1 DEF SemaInv, TypeOK, Control, TestInitialized, Goto, Call, fields
  <2>2. CASE u # t
    BY <2>2 DEF SemaInv, TypeOK, Control, TestInitialized, Goto, Call, fields
  <2>3. QED
    BY <2>1, <2>2
<1>5. ASSUME NEW u \in Threads PROVE Nesting(u)'
  <2>1. CASE u = t
    BY <2>1 DEF SemaInv, TypeOK, Pool, Nesting, TestInitialized, Goto, Call, fields
  <2>2. CASE u # t
    BY <2>2 DEF SemaInv, TypeOK, Nesting, TestInitialized, Goto, Call, fields
  <2>3. QED
    BY <2>1, <2>2
<1>6. QED
  BY <1>1, <1>2, <1>3, <1>4, <1>5 DEF SemaInv

\* The second test, with InitSemaphore: when it fails no other thread is making
\* the section.
LEMMA RetestKeeps ==
    ASSUME SemaInv, NEW t \in Threads, Retest(t)
    PROVE  SemaInv'
<1> USE ObjectFacts, SemaAssumption
<1>1. TypeOK'
  <2>1. CallState'
    <3>1. CASE Seen(obj[t])
      BY <3>1, CallType DEF SemaInv, TypeOK, CallState, Retest, Statements
    <3>2. CASE ~Seen(obj[t])
      BY <3>2, GotoType DEF SemaInv, TypeOK, CallState, Retest, Statements
    <3>3. QED
      BY <3>1, <3>2
  <2>2. QED
    BY <2>1 DEF SemaInv, TypeOK, CallState, Retest, fields, pool
<1>2. Pool'
  BY DEF SemaInv, Pool, Retest, fields, pool
<1>3. Ownership'
  BY DEF SemaInv, Ownership, Retest, fields
<1>4. ASSUME NEW u \in Threads PROVE Control(u)'
  <2>1. CASE u = t
    BY <2>1 DEF SemaInv, TypeOK, Control, Nesting, Retest, At, Goto, Call
  <2>2. CASE u # t
    BY <2>2 DEF SemaInv, TypeOK, Control, Retest, Goto, Call, fields
  <2>3. QED
    BY <2>1, <2>2
<1>5. ASSUME NEW u \in Threads PROVE Nesting(u)'
  <2>1. CASE u = t
    BY <2>1 DEF SemaInv, TypeOK, Nesting, Retest, At, Goto, Seen, Call, fields
  <2>2. CASE u # t
    BY <2>2 DEF SemaInv, TypeOK, Nesting, Retest, Goto, Call, fields
  <2>3. QED
    BY <2>1, <2>2
<1>6. QED
  BY <1>1, <1>2, <1>3, <1>4, <1>5 DEF SemaInv

\* A section from critsect_cache has a number that no other has.
LEMMA CreateCachedKeeps ==
    ASSUME SemaInv, NEW t \in Threads, CreateCached(t)
    PROVE  SemaInv'
<1> USE ObjectFacts, SemaAssumption
<1>1. TypeOK'
  BY DEF SemaInv, TypeOK, CreateCached, Goto, InCache, Advanced, Statements
<1>2. Pool'
  BY DEF SemaInv, TypeOK, Pool, CreateCached, InCache, Advanced
<1>3. Ownership'
  BY DEF SemaInv, Ownership, Nesting, CreateCached, At
<1>4. ASSUME NEW u \in Threads PROVE Control(u)'
  <2>1. CASE u = t
    BY <2>1 DEF SemaInv, TypeOK, Control, CreateCached, Goto
  <2>2. CASE u # t
    BY <2>2 DEF SemaInv, Control, Nesting, CreateCached, At, Goto
  <2>3. QED
    BY <2>1, <2>2
<1>5. ASSUME NEW u \in Threads PROVE Nesting(u)'
  <2>1. CASE u = t
    BY <2>1 DEF SemaInv, TypeOK, Nesting, CreateCached, At
  <2>2. CASE u # t
    BY <2>2 DEF SemaInv, TypeOK, Nesting, CreateCached, Goto
  <2>3. QED
    BY <2>1, <2>2
<1>6. QED
  BY <1>1, <1>2, <1>3, <1>4, <1>5 DEF SemaInv

\* The cache is used up: the access of NHeap begins inside that of
\* InitSemaphore.
LEMMA CreateFromHeapKeeps ==
    ASSUME SemaInv, NEW t \in Threads, CreateFromHeap(t)
    PROVE  SemaInv'
<1> USE ObjectFacts, SemaAssumption
<1>1. TypeOK'
  BY DEF SemaInv, TypeOK, CreateFromHeap, Goto, Call, fields, pool, Statements, Objects
<1>2. Pool'
  BY DEF SemaInv, Pool, CreateFromHeap, fields, pool
<1>3. Ownership'
  BY DEF SemaInv, Ownership, CreateFromHeap, fields
<1>4. ASSUME NEW u \in Threads PROVE Control(u)'
  <2>1. CASE u = t
    BY <2>1 DEF SemaInv, TypeOK, Control, CreateFromHeap, Goto, Call
  <2>2. CASE u # t
    BY <2>2 DEF SemaInv, Control, CreateFromHeap, Goto, Call, fields
  <2>3. QED
    BY <2>1, <2>2
<1>5. ASSUME NEW u \in Threads PROVE Nesting(u)'
  <2>1. CASE u = t
    BY <2>1 DEF SemaInv, TypeOK, Nesting, CreateFromHeap, At, Goto, Call, fields
  <2>2. CASE u # t
    BY <2>2 DEF SemaInv, Nesting, CreateFromHeap, Goto, Call, fields
  <2>3. QED
    BY <2>1, <2>2
<1>6. QED
  BY <1>1, <1>2, <1>3, <1>4, <1>5 DEF SemaInv

\* A section from the heap has the next number, above those of the cache.
LEMMA GrowKeeps ==
    ASSUME SemaInv, NEW t \in Threads, Grow(t)
    PROVE  SemaInv'
<1> USE ObjectFacts, SemaAssumption
<1>1. TypeOK'
  BY DEF SemaInv, TypeOK, Grow, Goto, Statements
<1>2. Pool'
  <2> DEFINE n == MAX_CRITICAL_SECTION + critsect_vectornext + 1
  <2>1. /\ obj[t] \in Objects /\ n \in Nat /\ n # 0
        /\ semaphore' = [semaphore EXCEPT ![obj[t]] = n]
        /\ critsect_vectornext' = critsect_vectornext + 1
        /\ UNCHANGED <<critsect_next, initialized>>
    BY DEF SemaInv, TypeOK, Grow
  <2>2. \A o \in Objects : semaphore[o] # n
    BY DEF SemaInv, TypeOK, Pool
  <2>3. ~initialized[obj[t]]
    BY DEF SemaInv, Nesting, Grow, At
  <2> HIDE DEF n
  <2>4. \A o \in Objects : semaphore'[o] = IF o = obj[t] THEN n ELSE semaphore[o]
    BY <2>1 DEF SemaInv, TypeOK
  <2>5. \A o, q \in Objects :
            o # q /\ semaphore'[o] = semaphore'[q] => semaphore'[o] = 0
    BY <2>2, <2>4 DEF SemaInv, Pool
  <2>6. \A o \in Objects : semaphore'[o] # 0 =>
            \/ semaphore'[o] \in 1..critsect_next'
            \/ semaphore'[o] \in MAX_CRITICAL_SECTION + 1 ..
                                 MAX_CRITICAL_SECTION + critsect_vectornext'
    <3> SUFFICES ASSUME NEW o \in Objects, semaphore'[o] # 0
                 PROVE  \/ semaphore'[o] \in 1..critsect_next'
                        \/ semaphore'[o] \in MAX_CRITICAL_SECTION + 1 ..
                                 MAX_CRITICAL_SECTION + critsect_vectornext'
      OBVIOUS
    <3>1. CASE o = obj[t]
      BY <2>1, <2>4, <3>1 DEF SemaInv, TypeOK, n
    <3>2. CASE o # obj[t]
      BY <2>1, <2>4, <3>2 DEF SemaInv, TypeOK, Pool
    <3>3. QED
      BY <3>1, <3>2
  <2>7. \A o \in Objects : initialized'[o] => semaphore'[o] # 0
    BY <2>1, <2>3, <2>4 DEF SemaInv, Pool
  <2>8. QED
    BY <2>1, <2>5, <2>6, <2>7 DEF SemaInv, Pool
<1>3. Ownership'
  BY DEF SemaInv, Ownership, Nesting, Grow, At
<1>4. ASSUME NEW u \in Threads PROVE Control(u)'
  <2>1. CASE u = t
    BY <2>1 DEF SemaInv, TypeOK, Control, Grow, Goto
  <2>2. CASE u # t
    BY <2>2 DEF SemaInv, Control, Nesting, Grow, At, Goto
  <2>3. QED
    BY <2>1, <2>2
<1>5. ASSUME NEW u \in Threads PROVE Nesting(u)'
  <2>1. CASE u = t
    BY <2>1 DEF SemaInv, TypeOK, Nesting, Grow, At
  <2>2. CASE u # t
    BY <2>2 DEF SemaInv, TypeOK, Nesting, Grow, Goto
  <2>3. QED
    BY <2>1, <2>2
<1>6. QED
  BY <1>1, <1>2, <1>3, <1>4, <1>5 DEF SemaInv

\* initialized is set when the section is there.
LEMMA PublishKeeps ==
    ASSUME SemaInv, NEW t \in Threads, Publish(t)
    PROVE  SemaInv'
<1> USE ObjectFacts, SemaAssumption
<1>1. TypeOK'
  BY DEF SemaInv, TypeOK, Publish, Goto, Call, pool, Statements, Objects
<1>2. Pool'
  BY DEF SemaInv, Pool, Nesting, Publish, At, pool
<1>3. Ownership'
  BY DEF SemaInv, TypeOK, Ownership, Publish
<1>4. ASSUME NEW u \in Threads PROVE Control(u)'
  <2>1. CASE u = t
    BY <2>1 DEF SemaInv, TypeOK, Control, Nesting, Publish, At, Goto, Call
  <2>2. CASE u # t
    BY <2>2 DEF SemaInv, Control, Publish, Goto, Call
  <2>3. QED
    BY <2>1, <2>2
<1>5. ASSUME NEW u \in Threads PROVE Nesting(u)'
  <2>1. CASE u = t
    BY <2>1 DEF SemaInv, TypeOK, Nesting, Publish, At, Goto, Call
  <2>2. CASE u # t
    BY <2>2 DEF SemaInv, Ownership, Nesting, Publish, At, Goto, Call
  <2>3. QED
    BY <2>1, <2>2
<1>6. QED
  BY <1>1, <1>2, <1>3, <1>4, <1>5 DEF SemaInv

\* EnterCriticalSection: who gets in finds no owner.
LEMMA EnterKeeps ==
    ASSUME SemaInv, NEW t \in Threads, Enter(t)
    PROVE  SemaInv'
<1> USE ObjectFacts, SemaAssumption
<1>1. TypeOK'
  <2>1. semaphore[obj[t]] \in Nat
    BY DEF SemaInv, TypeOK
  <2>2. inside[t] \cup {semaphore[obj[t]]} \in SUBSET Nat
    BY <2>1 DEF SemaInv, TypeOK
  <2>3. inside' \in [Threads -> SUBSET Nat]
    BY <2>2 DEF SemaInv, TypeOK, Enter
  <2>4. QED
    BY <2>3 DEF SemaInv, TypeOK, Enter, Goto, fields, pool, Statements
<1>2. Pool'
  BY DEF SemaInv, Pool, Enter, fields, pool
<1>3. Ownership'
  BY DEF SemaInv, Ownership, Enter, fields
<1>4. ASSUME NEW u \in Threads PROVE Control(u)'
  <2>1. CASE u = t
    <3>1. \A w \in Threads : owner[obj[t]] # w
      BY DEF SemaInv, TypeOK, Ownership, Enter
    <3>2. owner[obj[t]] = NoThread /\ initialized[obj[t]]
      BY <3>1 DEF SemaInv, TypeOK, Control, Enter, At
    <3>3. semaphore[obj[t]] \in inside'[t]
      BY DEF SemaInv, TypeOK, Enter
    <3>4. QED
      BY <2>1, <3>2, <3>3 DEF SemaInv, Control, Enter, Goto, fields
  <2>2. CASE u # t
    BY <2>2 DEF SemaInv, Control, Enter, Goto, fields
  <2>3. QED
    BY <2>1, <2>2
<1>5. ASSUME NEW u \in Threads PROVE Nesting(u)'
  <2>1. CASE u = t
    BY <2>1 DEF SemaInv, Nesting, Enter, Goto, fields
  <2>2. CASE u # t
    BY <2>2 DEF SemaInv, Nesting, Enter, Goto, fields
  <2>3. QED
    BY <2>1, <2>2
<1>6. QED
  BY <1>1, <1>2, <1>3, <1>4, <1>5 DEF SemaInv

\* The owner is written by the thread that is in the section.
LEMMA OwnKeeps ==
    ASSUME SemaInv, NEW t \in Threads, Own(t)
    PROVE  SemaInv'
<1> USE ObjectFacts, SemaAssumption
<1>1. TypeOK'
  BY DEF SemaInv, TypeOK, Own, Goto, pool, Statements
<1>2. Pool'
  BY DEF SemaInv, Pool, Own, pool
<1>3. Ownership'
  BY DEF SemaInv, TypeOK, Ownership, Control, Own, At
<1>4. ASSUME NEW u \in Threads PROVE Control(u)'
  <2>1. CASE u = t
    BY <2>1 DEF SemaInv, TypeOK, Control, Own, Goto
  <2>2. CASE u # t
    BY <2>2 DEF SemaInv, Ownership, Control, Own, At, Goto
  <2>3. QED
    BY <2>1, <2>2
<1>5. ASSUME NEW u \in Threads PROVE Nesting(u)'
  <2>1. CASE u = t
    BY <2>1 DEF SemaInv, Nesting, Own, Goto
  <2>2. CASE u # t
    BY <2>2 DEF SemaInv, Nesting, Own, Goto
  <2>3. QED
    BY <2>1, <2>2
<1>6. QED
  BY <1>1, <1>2, <1>3, <1>4, <1>5 DEF SemaInv

\* The count is changed by the owner only.
LEMMA CountKeeps ==
    ASSUME SemaInv, NEW t \in Threads, Count(t)
    PROVE  SemaInv'
<1> USE ObjectFacts, SemaAssumption
<1>1. TypeOK'
  <2>1. /\ obj[t] \in Objects /\ count[obj[t]] \in Nat
        /\ held[t] \in [Objects -> Nat] /\ held[t][obj[t]] \in Nat
    <3>1. obj[t] \in Objects /\ held[t] \in [Objects -> Nat]
      BY DEF SemaInv, TypeOK
    <3>2. QED
      BY <3>1 DEF SemaInv, TypeOK
  <2>2. count[obj[t]] + 1 \in Nat /\ held[t][obj[t]] + 1 \in Nat
    BY <2>1
  <2>3. count' \in [Objects -> Nat]
    BY <2>2 DEF SemaInv, TypeOK, Count
  <2>4. held' \in [Threads -> [Objects -> Nat]]
    <3>1. [held[t] EXCEPT ![obj[t]] = @ + 1] \in [Objects -> Nat]
      BY <2>1, <2>2
    <3>2. held' = [held EXCEPT ![t] = [held[t] EXCEPT ![obj[t]] = @ + 1]]
      BY DEF Count
    <3>3. QED
      BY <3>1, <3>2 DEF SemaInv, TypeOK
  <2>5. CallState'
    <3>1. CASE obj[t] = NHeap /\ outer[t] # InitSemaphore
      BY <3>1, GotoType DEF SemaInv, TypeOK, CallState, Count, Statements
    <3>2. CASE ~(obj[t] = NHeap /\ outer[t] # InitSemaphore)
      BY <3>2, ReturnType DEF SemaInv, TypeOK, CallState, Count, Statements
    <3>3. QED
      BY <3>1, <3>2
  <2>6. QED
    BY <2>3, <2>4, <2>5 DEF SemaInv, TypeOK, CallState, Count, pool
<1>2. Pool'
  BY DEF SemaInv, Pool, Count, pool
<1>3. Ownership'
  BY DEF SemaInv, TypeOK, Ownership, Control, Count, At
<1>4. ASSUME NEW u \in Threads PROVE Control(u)'
  <2>1. CASE u = t
    BY <2>1 DEF SemaInv, TypeOK, Control, Count, Goto, Return
  <2>2. CASE u # t
    BY <2>2 DEF SemaInv, TypeOK, Control, Count, Goto, Return
  <2>3. QED
    BY <2>1, <2>2
<1>5. ASSUME NEW u \in Threads PROVE Nesting(u)'
  <2>1. CASE u = t
    BY <2>1 DEF SemaInv, TypeOK, Nesting, Count, Goto, Return
  <2>2. CASE u # t
    BY <2>2 DEF SemaInv, TypeOK, Nesting, Count, Goto, Return
  <2>3. QED
    BY <2>1, <2>2
<1>6. QED
  BY <1>1, <1>2, <1>3, <1>4, <1>5 DEF SemaInv

\* __ReleaseSemaphore of a semaphore that is held finds its caller the owner.
LEMMA TestReleaseKeeps ==
    ASSUME SemaInv, NEW t \in Threads, TestRelease(t)
    PROVE  SemaInv'
<1> USE ObjectFacts, SemaAssumption
<1>1. TypeOK'
  <2>1. CallState'
    <3>1. CASE count[obj[t]] > 0
      BY <3>1, GotoType DEF SemaInv, TypeOK, CallState, TestRelease, Statements
    <3>2. CASE ~(count[obj[t]] > 0)
      BY <3>2, ReturnType DEF SemaInv, TypeOK, CallState, TestRelease, Statements
    <3>3. QED
      BY <3>1, <3>2
  <2>2. QED
    BY <2>1 DEF SemaInv, TypeOK, CallState, TestRelease, fields, pool
<1>2. Pool'
  BY DEF SemaInv, Pool, TestRelease, fields, pool
<1>3. Ownership'
  BY DEF SemaInv, Ownership, TestRelease, fields
<1>4. ASSUME NEW u \in Threads PROVE Control(u)'
  <2>1. CASE u = t
    <3>1. held[t][obj[t]] > 0
      BY DEF SemaInv, Control, TestRelease, At
    <3>2. owner[obj[t]] = t /\ count[obj[t]] > 0
      BY <3>1 DEF SemaInv, TypeOK, Ownership
    <3>3. pc' = [pc EXCEPT ![t] = "decrement"] /\ UNCHANGED <<obj, held>>
      BY <3>2 DEF TestRelease, Goto
    <3>4. QED
      BY <2>1, <3>1, <3>3 DEF SemaInv, TypeOK, Control
  <2>2. CASE u # t
    BY <2>2 DEF SemaInv, TypeOK, Control, TestRelease, Goto, Return, fields
  <2>3. QED
    BY <2>1, <2>2
<1>5. ASSUME NEW u \in Threads PROVE Nesting(u)'
  <2>1. CASE u = t
    BY <2>1 DEF SemaInv, TypeOK, Nesting, TestRelease, At, Goto, Return, fields
  <2>2. CASE u # t
    BY <2>2 DEF SemaInv, TypeOK, Nesting, TestRelease, Goto, Return, fields
  <2>3. QED
    BY <2>1, <2>2
<1>6. QED
  BY <1>1, <1>2, <1>3, <1>4, <1>5 DEF SemaInv

\* The count goes down by one, to no less than 0.
LEMMA DecrementKeeps ==
    ASSUME SemaInv, NEW t \in Threads, Decrement(t)
    PROVE  SemaInv'
<1> USE ObjectFacts, SemaAssumption
<1>1. TypeOK'
  <2>1. /\ obj[t] \in Objects /\ count[obj[t]] \in Nat
        /\ held[t] \in [Objects -> Nat] /\ held[t][obj[t]] \in Nat
    <3>1. obj[t] \in Objects /\ held[t] \in [Objects -> Nat]
      BY DEF SemaInv, TypeOK
    <3>2. QED
      BY <3>1 DEF SemaInv, TypeOK
  <2>2. held[t][obj[t]] > 0 /\ count[obj[t]] = held[t][obj[t]]
    BY <2>1 DEF SemaInv, Ownership, Control, Decrement, At
  <2>3. held[t][obj[t]] - 1 \in Nat /\ count[obj[t]] - 1 \in Nat
    BY <2>1, <2>2
  <2>4. count' \in [Objects -> Nat]
    BY <2>3 DEF SemaInv, TypeOK, Decrement
  <2>5. held' \in [Threads -> [Objects -> Nat]]
    <3>1. [held[t] EXCEPT ![obj[t]] = @ - 1] \in [Objects -> Nat]
      BY <2>1, <2>3
    <3>2. held' = [held EXCEPT ![t] = [held[t] EXCEPT ![obj[t]] = @ - 1]]
      BY DEF Decrement
    <3>3. QED
      BY <3>1, <3>2 DEF SemaInv, TypeOK
  <2>6. CallState'
    <3>1. CASE count[obj[t]] = 1
      BY <3>1, GotoType DEF SemaInv, TypeOK, CallState, Decrement, Statements
    <3>2. CASE count[obj[t]] # 1
      BY <3>2, ReturnType DEF SemaInv, TypeOK, CallState, Decrement, Statements
    <3>3. QED
      BY <3>1, <3>2
  <2>7. QED
    BY <2>4, <2>5, <2>6 DEF SemaInv, TypeOK, CallState, Decrement, pool
<1>2. Pool'
  BY DEF SemaInv, Pool, Decrement, pool
<1>3. Ownership'
  BY DEF SemaInv, TypeOK, Ownership, Control, Decrement, At
<1>4. ASSUME NEW u \in Threads PROVE Control(u)'
  <2>1. CASE u = t
    <3>1. held[t][obj[t]] > 0 /\ owner[obj[t]] = t
      BY DEF SemaInv, TypeOK, Ownership, Control, Decrement, At
    <3>2. count[obj[t]] = held[t][obj[t]]
      BY <3>1 DEF SemaInv, TypeOK, Ownership
    <3>3. CASE count[obj[t]] = 1
      <4>1. pc'[t] = "disown" /\ obj'[t] = obj[t]
        BY <3>3 DEF SemaInv, TypeOK, Decrement, Goto
      <4>2. held'[t][obj[t]] = 0 /\ owner' = owner
        BY <3>2, <3>3 DEF SemaInv, TypeOK, Decrement
      <4>3. QED
        BY <2>1, <3>1, <4>1, <4>2 DEF Control
    <3>4. CASE count[obj[t]] # 1 /\ outer[t] = InitSemaphore
      <4>1. pc'[t] = "idle"
        BY <3>4 DEF SemaInv, TypeOK, Decrement, Return, Goto
      <4>2. QED
        BY <2>1, <4>1 DEF Control
    <3>5. CASE count[obj[t]] # 1 /\ outer[t] # InitSemaphore
      <4>1. pc'[t] = IF obj[t] = NHeap THEN "grow" ELSE "enter"
        BY <3>5 DEF SemaInv, TypeOK, Decrement, Return, Goto
      <4>2. obj'[t] = outer[t] /\ initialized' = initialized
        BY <3>5 DEF SemaInv, TypeOK, Decrement, Return
      <4>3. obj[t] # NHeap => initialized[outer[t]]
        BY <3>5 DEF SemaInv, Nesting, Decrement, At
      <4>4. QED
        BY <2>1, <4>1, <4>2, <4>3 DEF Control
    <3>6. QED
      BY <3>3, <3>4, <3>5
  <2>2. CASE u # t
    BY <2>2 DEF SemaInv, TypeOK, Control, Decrement, Goto, Return
  <2>3. QED
    BY <2>1, <2>2
<1>5. ASSUME NEW u \in Threads PROVE Nesting(u)'
  <2>1. CASE u = t
    BY <2>1 DEF SemaInv, TypeOK, Nesting, Decrement, At, Goto, Return
  <2>2. CASE u # t
    BY <2>2 DEF SemaInv, TypeOK, Nesting, Decrement, Goto, Return
  <2>3. QED
    BY <2>1, <2>2
<1>6. QED
  BY <1>1, <1>2, <1>3, <1>4, <1>5 DEF SemaInv

\* The owner is cleared before the section is left.
LEMMA DisownKeeps ==
    ASSUME SemaInv, NEW t \in Threads, Disown(t)
    PROVE  SemaInv'
<1> USE ObjectFacts, SemaAssumption
<1>1. TypeOK'
  BY DEF SemaInv, TypeOK, Disown, Goto, pool, Statements
<1>2. Pool'
  BY DEF SemaInv, Pool, Disown, pool
<1>3. Ownership'
  BY DEF SemaInv, TypeOK, Ownership, Control, Disown, At
<1>4. ASSUME NEW u \in Threads PROVE Control(u)'
  <2>1. CASE u = t
    <3>1. owner[obj[t]] = t
      BY DEF SemaInv, Control, Disown, At
    <3>2. initialized[obj[t]] /\ semaphore[obj[t]] \in inside[t]
      BY <3>1 DEF SemaInv, TypeOK, Ownership
    <3>3. owner'[obj[t]] = NoThread
      BY DEF SemaInv, TypeOK, Disown
    <3>4. QED
      BY <2>1, <3>2, <3>3 DEF SemaInv, TypeOK, Control, Disown, Goto
  <2>2. CASE u # t
    BY <2>2 DEF SemaInv, Control, Disown, At, Goto
  <2>3. QED
    BY <2>1, <2>2
<1>5. ASSUME NEW u \in Threads PROVE Nesting(u)'
  <2>1. CASE u = t
    BY <2>1 DEF SemaInv, Nesting, Disown, At, Goto
  <2>2. CASE u # t
    BY <2>2 DEF SemaInv, Nesting, Disown, Goto
  <2>3. QED
    BY <2>1, <2>2
<1>6. QED
  BY <1>1, <1>2, <1>3, <1>4, <1>5 DEF SemaInv

\* LeaveCriticalSection: the next thread finds no owner and a count of 0.
LEMMA LeaveKeeps ==
    ASSUME SemaInv, NEW t \in Threads, Leave(t)
    PROVE  SemaInv'
<1> USE ObjectFacts, SemaAssumption
<1>1. TypeOK'
  <2>1. inside' \in [Threads -> SUBSET Nat]
    BY DEF SemaInv, TypeOK, Leave, Left
  <2>2. CallState'
    BY ReturnType DEF SemaInv, TypeOK, CallState, Leave, Statements
  <2>3. QED
    BY <2>1, <2>2 DEF SemaInv, TypeOK, CallState, Leave, fields, pool
<1>2. Pool'
  BY DEF SemaInv, Pool, Leave, fields, pool
<1>3. Ownership'
  <2>1. /\ inside' = [inside EXCEPT ![t] = inside[t] \ {semaphore[obj[t]]}]
        /\ UNCHANGED <<owner, count, initialized, semaphore, held>>
    BY DEF Leave, Left, fields
  <2>2. owner[obj[t]] = NoThread /\ initialized[obj[t]]
    BY DEF SemaInv, Control, Leave, At
  <2>3. \A o \in Objects : owner[o] = t => semaphore[o] # semaphore[obj[t]]
    <3> SUFFICES ASSUME NEW o \in Objects, owner[o] = t
                 PROVE  semaphore[o] # semaphore[obj[t]]
      OBVIOUS
    <3>1. obj[t] \in Objects /\ o # obj[t]
      BY <2>2 DEF SemaInv, TypeOK
    <3>2. semaphore[o] # 0
      BY DEF SemaInv, Ownership, Pool
    <3>3. QED
      BY <3>1, <3>2 DEF SemaInv, Pool
  <2>4. \A o \in Objects, u \in Threads :
            owner[o] = u => semaphore[o] \in inside'[u]
    BY <2>1, <2>3 DEF SemaInv, TypeOK, Ownership
  <2>5. \A u \in Threads : inside'[u] \subseteq inside[u]
    BY <2>1 DEF SemaInv, TypeOK
  <2>6. QED
    BY <2>1, <2>4, <2>5 DEF SemaInv, Ownership
<1>4. ASSUME NEW u \in Threads PROVE Control(u)'
  <2>1. CASE u = t
    BY <2>1 DEF SemaInv, TypeOK, Control, Nesting, Leave, At, Goto, Return, fields
  <2>2. CASE u # t
    BY <2>2 DEF SemaInv, TypeOK, Control, Leave, Goto, Return, fields
  <2>3. QED
    BY <2>1, <2>2
<1>5. ASSUME NEW u \in Threads PROVE Nesting(u)'
  <2>1. CASE u = t
    BY <2>1 DEF SemaInv, TypeOK, Nesting, Leave, Goto, Return, fields
  <2>2. CASE u # t
    BY <2>2 DEF SemaInv, TypeOK, Nesting, Leave, Goto, Return, fields
  <2>3. QED
    BY <2>1, <2>2
<1>6. QED
  BY <1>1, <1>2, <1>3, <1>4, <1>5 DEF SemaInv

\* The library calls __AccessSemaphore for a semaphore later in the order.
LEMMA AccessKeeps ==
    ASSUME SemaInv, NEW t \in Threads, NEW s \in Sems, Access(t, s)
    PROVE  SemaInv'
<1> USE ObjectFacts, SemaAssumption
<1>1. TypeOK'
  BY DEF SemaInv, TypeOK, Access, Goto, fields, pool, Statements
<1>2. Pool'
  BY DEF SemaInv, Pool, Access, fields, pool
<1>3. Ownership'
  BY DEF SemaInv, Ownership, Access, fields
<1>4. ASSUME NEW u \in Threads PROVE Control(u)'
  <2>1. CASE u = t
    BY <2>1 DEF SemaInv, TypeOK, Control, Access, Goto
  <2>2. CASE u # t
    BY <2>2 DEF SemaInv, Control, Access, Goto, fields
  <2>3. QED
    BY <2>1, <2>2
<1>5. ASSUME NEW u \in Threads PROVE Nesting(u)'
  <2>1. CASE u = t
    BY <2>1 DEF SemaInv, Nesting, Access, At, Goto
  <2>2. CASE u # t
    BY <2>2 DEF SemaInv, Nesting, Access, Goto, fields
  <2>3. QED
    BY <2>1, <2>2
<1>6. QED
  BY <1>1, <1>2, <1>3, <1>4, <1>5 DEF SemaInv

\* The library calls __ReleaseSemaphore for a semaphore it has.
LEMMA ReleaseKeeps ==
    ASSUME SemaInv, NEW t \in Threads, NEW s \in Sems, Release(t, s)
    PROVE  SemaInv'
<1> USE ObjectFacts, SemaAssumption
<1>1. TypeOK'
  BY DEF SemaInv, TypeOK, Release, Goto, fields, pool, Statements
<1>2. Pool'
  BY DEF SemaInv, Pool, Release, fields, pool
<1>3. Ownership'
  BY DEF SemaInv, Ownership, Release, fields
<1>4. ASSUME NEW u \in Threads PROVE Control(u)'
  <2>1. CASE u = t
    BY <2>1 DEF SemaInv, TypeOK, Control, Release, Goto
  <2>2. CASE u # t
    BY <2>2 DEF SemaInv, Control, Release, Goto, fields
  <2>3. QED
    BY <2>1, <2>2
<1>5. ASSUME NEW u \in Threads PROVE Nesting(u)'
  <2>1. CASE u = t
    BY <2>1 DEF SemaInv, Nesting, Release, At, Goto
  <2>2. CASE u # t
    BY <2>2 DEF SemaInv, Nesting, Release, Goto, fields
  <2>3. QED
    BY <2>1, <2>2
<1>6. QED
  BY <1>1, <1>2, <1>3, <1>4, <1>5 DEF SemaInv

-------------------------------------------------------------------------------
\* The invariant holds when the first thread starts: InitSemaphore and NHeap
\* have their sections, nobody has a semaphore.
LEMMA SemaInit == Init => SemaInv
<1> SUFFICES ASSUME Init PROVE SemaInv
  OBVIOUS
<1> USE ObjectFacts, SemaAssumption
<1>1. TypeOK
  BY DEF Init, TypeOK, Statements, InitSemaphore
<1>2. Pool
  <2>1. \A o \in Objects : semaphore[o] = IF o = InitSemaphore THEN 1
                                         ELSE IF o = NHeap THEN 2 ELSE 0
    BY DEF Init
  <2>2. /\ critsect_next = 2 /\ critsect_vectornext = 0
        /\ \A o \in Objects : initialized[o] <=> o \in {InitSemaphore, NHeap}
    BY DEF Init
  <2>3. QED
    BY <2>1, <2>2 DEF Pool
<1>3. Ownership
  BY DEF Init, Ownership
<1>4. ASSUME NEW t \in Threads PROVE Control(t) /\ Nesting(t)
  BY DEF Init, Control, Nesting
<1>5. QED
  BY <1>1, <1>2, <1>3, <1>4 DEF SemaInv

\* Every statement keeps the invariant.
LEMMA SemaNext == SemaInv /\ [Next]_vars => SemaInv'
<1> SUFFICES ASSUME SemaInv, [Next]_vars PROVE SemaInv'
  OBVIOUS
<1>1. ASSUME NEW t \in Threads, Step(t) PROVE SemaInv'
  BY <1>1, TestOwnerKeeps, TestInitializedKeeps, RetestKeeps, CreateCachedKeeps,
     CreateFromHeapKeeps, GrowKeeps, PublishKeeps, EnterKeeps, OwnKeeps,
     CountKeeps, TestReleaseKeeps, DecrementKeeps, DisownKeeps, LeaveKeeps
     DEF Step
<1>2. ASSUME NEW t \in Threads, NEW s \in Sems, Access(t, s) \/ Release(t, s)
      PROVE  SemaInv'
  BY <1>2, AccessKeeps, ReleaseKeeps
<1>3. CASE UNCHANGED vars
  BY <1>3 DEF SemaInv, TypeOK, Pool, Ownership, Control, Nesting, vars, fields, pool
<1>4. QED
  BY <1>1, <1>2, <1>3 DEF Next

\* The invariant holds in every state of every program with threads.
THEOREM SemaInductive == Spec => []SemaInv
BY SemaInit, SemaNext, PTL DEF Spec

-------------------------------------------------------------------------------
\* The fields of the semaphores, the pool and the threads stay in their ranges:
\* count (an unsigned in semaphore_object) never goes below 0, and the pool
\* never hands out a section after the last of critsect_cache.
THEOREM TypeCorrect == Spec => []TypeOK
<1>1. SemaInv => TypeOK
  BY DEF SemaInv
<1>2. QED
  BY <1>1, SemaInductive, PTL

\* __ReleaseSemaphore never finds another owner than its caller, so that
\* "Semaphore unlocked by wrong owner" does not end the program.
THEOREM NeverWrongOwner == Spec => []NeverFatal
<1>1. SemaInv => NeverFatal
  BY DEF SemaInv, Control, NeverFatal
<1>2. QED
  BY <1>1, SemaInductive, PTL

\* No critical section is given to two semaphores.
THEOREM SectionsDistinct == Spec => []OwnSection
<1>1. SemaInv => OwnSection
  BY DEF SemaInv, Pool, OwnSection
<1>2. QED
  BY <1>1, SemaInductive, PTL

\* A semaphore that a thread may have seen initialized keeps its section: the
\* creator alone writes the field, and only before it sets initialized.
THEOREM SectionsStay == Spec => SectionKept
<1> DEFINE A == \A o \in Objects : initialized[o] => semaphore'[o] = semaphore[o]
<1>1. SemaInv /\ [Next]_vars => [A]_vars
  <2> SUFFICES ASSUME SemaInv, Next PROVE A
    BY DEF vars, fields
  <2>1. ASSUME NEW t \in Threads, CreateCached(t) \/ Grow(t) PROVE A
    BY <2>1 DEF SemaInv, TypeOK, Nesting, CreateCached, Grow, At
  <2>2. ASSUME NEW t \in Threads,
               Step(t) \/ \E s \in Sems : Access(t, s) \/ Release(t, s),
               ~CreateCached(t), ~Grow(t)
        PROVE  A
    BY <2>2
       DEF Step, TestOwner, TestInitialized, Retest, CreateFromHeap, Publish,
           Enter, Own, Count, TestRelease, Decrement, Disown, Leave, Access,
           Release, fields
  <2>3. QED
    BY <2>1, <2>2 DEF Next, Step
<1>2. QED
  BY <1>1, SemaInductive, PTL DEF Spec, SectionKept

\* A lock that is counted is nobody else's, and what is given back was taken.
LEMMA StepLocks ==
    ASSUME SemaInv, [Next]_vars
    PROVE  [Locks!Next]_held
<1> USE ObjectFacts
<1>1. ASSUME NEW t \in Threads, Count(t) PROVE Locks!Next
  <2>1. obj[t] \in Objects /\ owner[obj[t]] = t
    BY <1>1 DEF SemaInv, TypeOK, Control, Count, At
  <2>2. ASSUME NEW u \in Threads \ {t} PROVE held[u][obj[t]] = 0
    <3>1. held[u] \in [Objects -> Nat]
      BY DEF SemaInv, TypeOK
    <3>2. ~(held[u][obj[t]] > 0)
      BY <2>1 DEF SemaInv, Ownership
    <3>3. held[u][obj[t]] \in Nat
      BY <2>1, <3>1
    <3>4. QED
      BY <3>2, <3>3
  <2>3. Locks!Lock(t, obj[t])
    BY <1>1, <2>2 DEF Locks!Lock, Count
  <2>4. QED
    BY <2>1, <2>3 DEF Locks!Next
<1>2. ASSUME NEW t \in Threads, Decrement(t) PROVE Locks!Next
  <2>1. obj[t] \in Objects /\ held[t][obj[t]] > 0
    BY <1>2 DEF SemaInv, TypeOK, Control, Decrement, At
  <2>2. Locks!Unlock(t, obj[t])
    BY <1>2, <2>1 DEF Locks!Unlock, Decrement
  <2>3. QED
    BY <2>1, <2>2 DEF Locks!Next
<1>3. ASSUME NEW t \in Threads,
             Step(t) \/ \E s \in Sems : Access(t, s) \/ Release(t, s),
             ~Count(t), ~Decrement(t)
      PROVE  UNCHANGED held
  BY <1>3
     DEF Step, TestOwner, TestInitialized, Retest, CreateCached,
         CreateFromHeap, Grow, Publish, Enter, Own, TestRelease, Disown, Leave,
         Access, Release
<1>4. CASE UNCHANGED vars
  BY <1>4 DEF vars
<1>5. QED
  BY <1>1, <1>2, <1>3, <1>4 DEF Next, Step

\* The semaphores implement reentrant locks: a thread that returns from
\* __AccessSemaphore shares the semaphore with no other thread, whatever the
\* tests of owner and initialized that are made without a lock have seen.
THEOREM MutualExclusion == Spec => Exclusive
<1>1. Init => Locks!Init
  BY DEF Init, Locks!Init
<1>2. SemaInv /\ [Next]_vars => [Locks!Next]_held
  BY StepLocks
<1>3. QED
  BY <1>1, <1>2, SemaInductive, PTL DEF Spec, Exclusive, Locks!Spec
===============================================================================
