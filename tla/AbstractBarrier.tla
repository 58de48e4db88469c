--------------------------- MODULE AbstractBarrier ---------------------------
(***************************************************************************)
(* What a team barrier of the VSOC OpenMP runtime promises: no thread      *)
(* leaves its k-th barrier before every thread of the team has arrived at  *)
(* its k-th barrier.  Arrivals and departures are counted per thread.      *)
(***************************************************************************)
EXTENDS Naturals

CONSTANTS Threads,     \* the threads of the team
          MaxRounds    \* how many barriers the team executes

VARIABLES arrived,     \* arrived[t]: barriers thread t has entered
          left         \* left[t]: barriers thread t has returned from

abstractVars == <<arrived, left>>

Init == /\ arrived = [t \in Threads |-> 0]
        /\ left = [t \in Threads |-> 0]

Arrive(t) == /\ arrived[t] = left[t]
             /\ arrived[t] < MaxRounds
             /\ arrived' = [arrived EXCEPT ![t] = @ + 1]
             /\ UNCHANGED left

Leave(t) == /\ left[t] < arrived[t]
            /\ \A u \in Threads : arrived[u] >= arrived[t]
            /\ left' = [left EXCEPT ![t] = arrived[t]]
            /\ UNCHANGED arrived

Next == \E t \in Threads : Arrive(t) \/ Leave(t)

Spec == Init /\ [][Next]_abstractVars
==============================================================================
