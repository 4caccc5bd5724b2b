---------------------------- MODULE ReentrantLocks ----------------------------
(***************************************************************************)
(* What the semaphores of the C runtime promise to the library above them: *)
(* a lock that the thread which has it may take again, that no other       *)
(* thread gets before it was given back as often as it was taken.          *)
(***************************************************************************)
EXTENDS Naturals

CONSTANTS Threads, Objects

VARIABLE held  \* held[t][o]: how often t has taken o and not given it back

Init == held = [t \in Threads |-> [o \in Objects |-> 0]]

Lock(t, o) ==
    /\ \A u \in Threads \ {t} : held[u][o] = 0
    /\ held' = [held EXCEPT ![t][o] = @ + 1]

Unlock(t, o) ==
    /\ held[t][o] > 0
    /\ held' = [held EXCEPT ![t][o] = @ - 1]

Next == \E t \in Threads, o \in Objects : Lock(t, o) \/ Unlock(t, o)

Spec == Init /\ [][Next]_held
===============================================================================
