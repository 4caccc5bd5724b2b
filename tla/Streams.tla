-------------------------------- MODULE Streams --------------------------------
(***************************************************************************)
(* The streams of the C runtime in a program with threads: the FILE        *)
(* structures, the lists of open and of recently closed streams, and the   *)
(* calls that open, close, reopen, flush and write them                    *)
(* (clib/streamio, fcloseall in clib/startup/c/ioexit.c).                  *)
(*                                                                         *)
(* The semaphores are those of Sema4, seen as the locks of ReentrantLocks: *)
(* IOB for the lists, and one per handle for the stream that has it.  What *)
(* a call does under a semaphore that it takes and gives back is one step; *)
(* what it does without one is one step per statement.  A link of a list   *)
(* is identified with its stream.                                          *)
(***************************************************************************)
EXTENDS Integers, Sequences, SequencesExt

CONSTANTS
    Threads,
    Streams,   \* the FILE structures
    Static,    \* those of the array _RWD_iob, the others come from the heap
    None,      \* the null pointer
    Handles,   \* the handles the system gives out, numbers above 0
    Programs,  \* the programs: the streams each thread has when it starts,
               \* and the functions it calls
    MaxCalls   \* bound: the calls of one thread

Functions == {"fopen", "fclose", "freopen", "fputc", "flushall", "fcloseall"}

ASSUME StreamsAssumption ==
    /\ None \notin Streams /\ Static \subseteq Streams /\ IsFiniteSet(Streams)
    /\ Handles \subseteq Nat \ {0}
    /\ Programs \subseteq [given : [Threads -> SUBSET Streams],
                            may : [Threads -> SUBSET Functions]]
    /\ \A p \in Programs : \A t, u \in Threads :
          t # u => p.given[t] \cap p.given[u] = {}
    /\ MaxCalls \in Nat

\* One thread opens streams.  Another may reopen the streams it has, if they are
\* not in the array _RWD_iob, where the opener could take them for unused ones;
\* when nobody opens streams, one thread reopens them.
OpensAlone(p) ==
    \E o \in Threads : \A u \in Threads \ {o} :
        /\ "fopen" \notin p.may[u]
        /\ "freopen" \in p.may[u] => "fopen" \in p.may[o] /\ p.given[u] \cap Static = {}

OneOpener == \A p \in Programs : OpensAlone(p)

IOB == -2       \* IOBSemaphore
NoHandle == -1  \* what sopen returns when it fails
Objects == Handles \cup {0, NoHandle, IOB}

VARIABLES
    program,           \* the program that runs
    ostream, cstream,  \* the lists _RWD_ostream and _RWD_cstream
    flag,              \* _flag of a stream; RW is _READ | _WRITE, or either
    handle,            \* _handle of a stream
    opened,            \* the handles that are open
    held,              \* the semaphores each thread has, see ReentrantLocks
    pc,                \* the next statement of each thread
    op,                \* the call it is in
    fp, hdl, next,     \* the variables of that call
    mine,              \* history: the streams that are the thread's to use
    calls              \* history: what uses up MaxCalls

lists == <<ostream, cstream>>
files == <<flag, handle, opened>>
locals == <<op, fp, hdl, next>>
vars == <<program, lists, files, held, pc, locals, mine, calls>>

Locks == INSTANCE ReentrantLocks

Labels == {"idle", "alloc", "mark", "setflags", "sopen", "freefp", "lookup",
           "doclose", "flush", "close", "lockiob", "visit", "walk", "lockfile",
           "closefile", "unlockiob", "resetflags", "unlock"}

\* The lists, flags, handles and the variables of each call are of their kinds.
TypeOK ==
    /\ program \in Programs
    /\ ostream \in Seq(Streams) /\ cstream \in Seq(Streams)
    /\ flag \in [Streams -> SUBSET {"RW", "DIRTY", "DYNAMIC"}]
    /\ handle \in [Streams -> Handles \cup {0, NoHandle}]
    /\ opened \subseteq Handles \cup {0}
    /\ held \in [Threads -> [Objects -> 0..2]]
    /\ pc \in [Threads -> Labels]
    /\ op \in [Threads -> Functions \cup {"none"}]
    /\ fp \in [Threads -> Streams \cup {None}]
    /\ next \in [Threads -> Streams \cup {None}]
    /\ hdl \in [Threads -> Handles \cup {0, NoHandle}]
    /\ mine \in [Threads -> SUBSET Streams]
    /\ calls \in [Threads -> 0..MaxCalls]

\* Handle 0, of the standard input, is open; the streams given to the threads
\* were opened before there were threads.
Init ==
    /\ program \in Programs
    /\ mine = program.given
    /\ ostream \in SetToSeqs(UNION {mine[t] : t \in Threads}) /\ cstream = << >>
    /\ flag = [s \in Streams |-> IF ~Contains(ostream, s) THEN {}
                                 ELSE IF s \in Static THEN {"RW"}
                                 ELSE {"RW", "DYNAMIC"}]
    /\ \E hs \in Injection(ToSet(ostream), Handles) :
          /\ handle = [s \in Streams |-> IF Contains(ostream, s) THEN hs[s] ELSE 0]
          /\ opened = {0} \cup Range(hs)
    /\ held = [t \in Threads |-> [o \in Objects |-> 0]]
    /\ pc = [t \in Threads |-> "idle"]
    /\ op = [t \in Threads |-> "none"]
    /\ fp = [t \in Threads |-> None] /\ next = [t \in Threads |-> None]
    /\ hdl = [t \in Threads |-> NoHandle]
    /\ calls = [t \in Threads |-> 0]

At(t, label) == pc[t] = label
Goto(t, label) == pc' = [pc EXCEPT ![t] = label]

\* t may take o: what happens until it gives o back again is one step.
Free(t, o) == \A u \in Threads \ {t} : held[u][o] = 0

SetFlag(s, flags) == flag' = [flag EXCEPT ![s] = flags]

First(list) == IF list = << >> THEN None ELSE Head(list)

\* The place of a stream on a list, and the list without it.
Place(list, s) == CHOOSE n \in 1..Len(list) : list[n] = s
Unlinked(list, s) == RemoveAt(list, Place(list, s))

\* link->next, on whichever list the link is.
After(s) ==
    LET list == IF Contains(ostream, s) THEN ostream ELSE cstream
        i == Place(list, s)
    IN  IF i = Len(list) THEN None ELSE list[i + 1]

\* A call begins, on the stream s, at the statement label.
Begin(t, call, s, label) ==
    /\ At(t, "idle") /\ call \in program.may[t] /\ calls[t] < MaxCalls
    /\ calls' = [calls EXCEPT ![t] = @ + 1]
    /\ op' = [op EXCEPT ![t] = call]
    /\ fp' = [fp EXCEPT ![t] = s]
    /\ Goto(t, label)

\* The call of t is over and gives it the stream s, unless that is None.
Finish(t, s) ==
    /\ Goto(t, "idle")
    /\ mine' = [mine EXCEPT ![t] = @ \cup ({s} \ {None})]

-------------------------------------------------------------------------------
(***************************************************************************)
(* fopen: __allocfp, then __doopen.                                        *)
(***************************************************************************)
FOpen(t) ==
    /\ Begin(t, "fopen", None, "alloc")
    /\ UNCHANGED <<lists, files, held, hdl, next, mine>>

\* got_one: the structure is cleared, its flags are set, its link goes to the
\* front of the open list.
GotOne(t, s, flags) ==
    /\ SetFlag(s, flags)
    /\ handle' = [handle EXCEPT ![s] = 0]
    /\ ostream' = <<s>> \o ostream
    /\ fp' = [fp EXCEPT ![t] = s]
    /\ Goto(t, "mark")
    /\ UNCHANGED <<opened, held, op, hdl, next, mine, calls>>

StillClosed(list) == list
NoLongerClosed(list) == Tail(list)

TakeClosed(t) ==
    /\ At(t, "alloc") /\ Free(t, IOB)
    /\ cstream # << >>
    /\ cstream' = NoLongerClosed(cstream)
    /\ GotOne(t, Head(cstream), (flag[Head(cstream)] \ {"DIRTY"}) \cup {"RW"})

Available == {s \in Static : "RW" \notin flag[s]}

TakeStatic(t) ==
    /\ At(t, "alloc") /\ Free(t, IOB)
    /\ cstream = << >>
    /\ \E s \in Available : GotOne(t, s, {"RW"})
    /\ UNCHANGED cstream

\* A new structure, as long as there is memory.
TakeDynamic(t) ==
    /\ At(t, "alloc") /\ Free(t, IOB)
    /\ cstream = << >> /\ Available = {}
    /\ \E s \in Streams \ Static :
          /\ ~Contains(ostream, s)
          /\ GotOne(t, s, {"RW", "DYNAMIC"})
    /\ UNCHANGED cstream

\* There is no memory for the link, or for the link and the FILE.
NoMem(t) ==
    /\ At(t, "alloc") /\ Free(t, IOB)
    /\ cstream = << >>
    /\ Finish(t, None)
    /\ UNCHANGED <<lists, files, held, locals, calls>>

\* fp->_flag &= ~(_READ | _WRITE) and fp->_flag |= file_flags.
Mark(t) ==
    /\ At(t, "mark")
    /\ SetFlag(fp[t], flag[fp[t]] \ {"RW"})
    /\ Goto(t, "setflags")
    /\ UNCHANGED <<lists, handle, opened, held, locals, mine, calls>>

SetFlags(t) ==
    /\ At(t, "setflags")
    /\ SetFlag(fp[t], flag[fp[t]] \cup {"RW"})
    /\ Goto(t, "sopen")
    /\ UNCHANGED <<lists, handle, opened, held, locals, mine, calls>>

Sopened(t) ==
    /\ At(t, "sopen")
    /\ \E h \in Handles \ opened :
          /\ opened' = opened \cup {h}
          /\ handle' = [handle EXCEPT ![fp[t]] = h]
    /\ IF op[t] = "fopen" THEN Finish(t, fp[t])
                          ELSE Goto(t, "unlock") /\ UNCHANGED mine
    /\ UNCHANGED <<lists, flag, held, locals, calls>>

SopenFails(t) ==
    /\ At(t, "sopen")
    /\ handle' = [handle EXCEPT ![fp[t]] = NoHandle]
    /\ Goto(t, "freefp")
    /\ UNCHANGED <<lists, flag, opened, held, locals, mine, calls>>

(***************************************************************************)
(* __freefp: the stream goes to the list of recently closed ones.  When it *)
(* is not on the open list, the return skips _ReleaseIOB.                  *)
(***************************************************************************)
\* Where the call of t goes on.
AfterFree(t) ==
    /\ CASE op[t] = "freopen" -> Goto(t, "unlock")
         [] op[t] = "fcloseall" -> Goto(t, "walk")
         [] OTHER -> Goto(t, "idle")
    /\ fp' = [fp EXCEPT ![t] = IF op[t] = "fcloseall" THEN next[t] ELSE None]
    /\ UNCHANGED <<handle, opened, op, hdl, next, mine, calls>>

FreeFp(t) ==
    /\ At(t, "freefp")
    /\ IF Contains(ostream, fp[t])
       THEN /\ Free(t, IOB) /\ UNCHANGED held
            /\ SetFlag(fp[t], flag[fp[t]] \cup {"RW"})
            /\ ostream' = Unlinked(ostream, fp[t])
            /\ cstream' = <<fp[t]>> \o cstream
       ELSE Locks!Lock(t, IOB) /\ UNCHANGED <<lists, flag>>
    /\ AfterFree(t)

-------------------------------------------------------------------------------
(***************************************************************************)
(* fclose: a search of the open list, then __doclose and __freefp.         *)
(***************************************************************************)
FClose(t, s) ==
    /\ s \in mine[t]
    /\ Begin(t, "fclose", s, "lookup")
    /\ mine' = [mine EXCEPT ![t] = @ \ {s}]
    /\ UNCHANGED <<lists, files, held, hdl, next>>

Lookup(t) ==
    /\ At(t, "lookup") /\ Free(t, IOB)
    /\ Goto(t, IF Contains(ostream, fp[t]) THEN "doclose" ELSE "idle")
    /\ UNCHANGED <<lists, files, held, locals, mine, calls>>

IgnoreDirty(s) == FALSE
Dirty(s) == "DIRTY" \in flag[s]

DoClose(t) ==
    /\ At(t, "doclose")
    /\ Goto(t, CASE flag[fp[t]] = {} -> "freefp"
                 [] Dirty(fp[t]) -> "flush"
                 [] OTHER -> "close")
    /\ UNCHANGED <<lists, files, held, locals, mine, calls>>

\* __flush, for __doclose and for __flushall.
Flush(t) ==
    /\ At(t, "flush") /\ Free(t, handle[fp[t]])
    /\ SetFlag(fp[t], flag[fp[t]] \ {"DIRTY"})
    /\ IF op[t] = "flushall"
       THEN Goto(t, "visit") /\ fp' = [fp EXCEPT ![t] = After(fp[t])]
       ELSE Goto(t, "close") /\ UNCHANGED fp
    /\ UNCHANGED <<lists, handle, opened, held, op, hdl, next, mine, calls>>

Close(t) ==
    /\ At(t, "close") /\ Free(t, handle[fp[t]])
    /\ opened' = opened \ {handle[fp[t]]}
    /\ Goto(t, IF op[t] = "freopen" THEN "unlockiob" ELSE "freefp")
    /\ UNCHANGED <<lists, flag, handle, held, locals, mine, calls>>

-------------------------------------------------------------------------------
(***************************************************************************)
(* flushall: the open list is visited under IOB.                           *)
(***************************************************************************)
FlushAll(t) ==
    /\ Begin(t, "flushall", None, "lockiob")
    /\ UNCHANGED <<lists, files, held, hdl, next, mine>>

LockIOB(t) ==
    /\ At(t, "lockiob")
    /\ Locks!Lock(t, IOB)
    /\ fp' = [fp EXCEPT ![t] = First(ostream)]
    /\ Goto(t, "visit")
    /\ UNCHANGED <<lists, files, op, hdl, next, mine, calls>>

Visit(t) ==
    /\ At(t, "visit") /\ fp[t] # None
    /\ IF Dirty(fp[t]) THEN Goto(t, "flush") /\ UNCHANGED fp
       ELSE Goto(t, "visit") /\ fp' = [fp EXCEPT ![t] = After(fp[t])]
    /\ UNCHANGED <<lists, files, held, op, hdl, next, mine, calls>>

ForgetIOB(t) == UNCHANGED held
GiveBackIOB(t) == Locks!Unlock(t, IOB)

Visited(t) ==
    /\ At(t, "visit") /\ fp[t] = None
    /\ GiveBackIOB(t)
    /\ Goto(t, "idle")
    /\ UNCHANGED <<lists, files, locals, mine, calls>>

(***************************************************************************)
(* fcloseall walks the open list without IOB: the program makes the call   *)
(* when no other thread uses a stream.                                     *)
(***************************************************************************)
FCloseAll(t) ==
    /\ \A u \in Threads \ {t} : At(u, "idle") /\ mine[u] = {}
    /\ Begin(t, "fcloseall", First(ostream), "walk")
    /\ mine' = [mine EXCEPT ![t] = {}]
    /\ UNCHANGED <<lists, files, held, hdl, next>>

Walk(t) ==
    /\ At(t, "walk")
    /\ IF fp[t] = None THEN Goto(t, "idle") /\ UNCHANGED next
       ELSE Goto(t, "doclose") /\ next' = [next EXCEPT ![t] = After(fp[t])]
    /\ UNCHANGED <<lists, files, held, op, fp, hdl, mine, calls>>

-------------------------------------------------------------------------------
(***************************************************************************)
(* freopen has the semaphore of the handle while it closes the stream, for *)
(* which close_file takes IOB, and opens it again.  A stream that was      *)
(* closed a short time before may be reopened too, when no other thread    *)
(* opens streams.                                                          *)
(***************************************************************************)
FReopen(t, s) ==
    /\ \/ s \in mine[t]
       \/ Contains(cstream, s) /\ \A u \in Threads \ {t} : "fopen" \notin program.may[u]
    /\ Begin(t, "freopen", s, "lockfile")
    /\ hdl' = [hdl EXCEPT ![t] = handle[s]]
    /\ mine' = [mine EXCEPT ![t] = @ \ {s}]
    /\ UNCHANGED <<lists, files, held, next>>

LockFile(t) ==
    /\ At(t, "lockfile")
    /\ Locks!Lock(t, hdl[t])
    /\ Goto(t, "closefile")
    /\ UNCHANGED <<lists, files, locals, mine, calls>>

\* close_file: the stream is open, was closed recently, or is unknown.
CloseFile(t) ==
    /\ At(t, "closefile")
    /\ Locks!Lock(t, IOB)
    /\ CASE Contains(ostream, fp[t]) ->
              /\ Goto(t, IF "RW" \in flag[fp[t]] THEN "doclose" ELSE "unlockiob")
              /\ UNCHANGED <<lists, fp>>
         [] Contains(cstream, fp[t]) /\ ~Contains(ostream, fp[t]) ->
              /\ cstream' = Unlinked(cstream, fp[t])
              /\ ostream' = <<fp[t]>> \o ostream
              /\ Goto(t, "unlockiob")
              /\ UNCHANGED fp
         [] OTHER ->
              /\ fp' = [fp EXCEPT ![t] = None]
              /\ Goto(t, "unlockiob")
              /\ UNCHANGED lists
    /\ UNCHANGED <<files, op, hdl, next, mine, calls>>

UnlockIOB(t) ==
    /\ At(t, "unlockiob")
    /\ Locks!Unlock(t, IOB)
    /\ Goto(t, IF fp[t] = None THEN "unlock" ELSE "resetflags")
    /\ UNCHANGED <<lists, files, locals, mine, calls>>

ResetFlags(t) ==
    /\ At(t, "resetflags")
    /\ SetFlag(fp[t], flag[fp[t]] \cap {"DYNAMIC"})
    /\ Goto(t, "mark")
    /\ UNCHANGED <<lists, handle, opened, held, locals, mine, calls>>

UnlockFile(t) ==
    /\ At(t, "unlock")
    /\ Locks!Unlock(t, hdl[t])
    /\ Finish(t, fp[t])
    /\ UNCHANGED <<lists, files, locals, calls>>

-------------------------------------------------------------------------------
\* fputc leaves a character in the buffer.
FPutc(t, s) ==
    /\ s \in mine[t] /\ Free(t, handle[s])
    /\ Begin(t, "fputc", s, "idle")
    /\ IF "RW" \in flag[s] THEN SetFlag(s, flag[s] \cup {"DIRTY"})
                           ELSE UNCHANGED flag
    /\ UNCHANGED <<lists, handle, opened, held, hdl, next, mine>>

-------------------------------------------------------------------------------
Step(t) ==
    \/ TakeClosed(t) \/ TakeStatic(t) \/ TakeDynamic(t) \/ NoMem(t)
    \/ Mark(t) \/ SetFlags(t) \/ Sopened(t) \/ SopenFails(t)
    \/ FreeFp(t)
    \/ Lookup(t) \/ DoClose(t) \/ Flush(t) \/ Close(t)
    \/ LockIOB(t) \/ Visit(t) \/ Visited(t) \/ Walk(t)
    \/ LockFile(t) \/ CloseFile(t) \/ UnlockIOB(t) \/ ResetFlags(t)
    \/ UnlockFile(t)

Calls(t) == \/ FOpen(t) \/ FlushAll(t) \/ FCloseAll(t)
            \/ \E s \in Streams : FClose(t, s) \/ FReopen(t, s) \/ FPutc(t, s)

Next == (\E t \in Threads : Step(t) \/ Calls(t)) /\ UNCHANGED program

Spec == Init /\ [][Next]_vars

\* A thread that can run does run; nothing makes it call the library.
Fairness == \A t \in Threads : WF_vars(Step(t) /\ UNCHANGED program)

FairSpec == Spec /\ Fairness

-------------------------------------------------------------------------------
(***************************************************************************)
(* Properties.                                                             *)
(***************************************************************************)

\* A stream is on one list, once: a structure that is given to a caller of
\* fopen is "available", that is, no stream of another caller.
OneList == IsInjective(ostream \o cstream)

\* Whatever the other threads open, close and flush, a stream that a thread
\* has is open, for reading or writing, with an open handle, and neither the
\* stream nor the handle is another thread's as well.
StreamIntact ==
    \A t \in Threads : \A s \in mine[t] :
        /\ Contains(ostream, s) /\ "RW" \in flag[s] /\ handle[s] \in opened \ {0}
        /\ \A u \in Threads : \A r \in mine[u] :
              r # s \/ u # t => r # s /\ handle[r] # handle[s]

\* The handle of a stream with characters in its buffer is not closed, and
\* the stream not given another, before the characters are written.
DataKept ==
    [][\A s \in Streams : "DIRTY" \in flag[s] /\ handle[s] \in opened =>
          handle'[s] = handle[s] /\ handle[s] \in opened']_vars

\* When flushall returns, nothing the thread has written is in a buffer,
\* though other threads open and close streams while it visits the list.
AllFlushed ==
    [][\A t \in Threads : Visited(t) => \A s \in mine[t] :
          "DIRTY" \notin flag[s]]_vars

\* Every call returns.
CallsReturn == \A t \in Threads : ~At(t, "idle") ~> At(t, "idle")
===============================================================================
