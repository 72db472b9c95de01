---------------------------- MODULE AlarmService ----------------------------
(***************************************************************************)
(* What the HAL promises about alarms: an alarm started for n ticks is     *)
(* called at the tick n + 1 ticks later, neither before nor after, and its *)
(* callback says in how many ticks it is called again, 0 meaning never.    *)
(* Time has no width here.                                                 *)
(***************************************************************************)
EXTENDS Naturals

CONSTANTS Alarms, Intervals, Periods

VARIABLES armed,   \* the alarms that are running
          left     \* ticks left to each one's call; 0 for the others

serviceVars == <<armed, left>>

Init == armed = {} /\ left = [a \in Alarms |-> 0]

Start(a, n) ==
    /\ a \notin armed
    /\ armed' = armed \cup {a}
    /\ left' = [left EXCEPT ![a] = n + 1]

Stop(a) ==
    /\ armed' = armed \ {a}
    /\ left' = [left EXCEPT ![a] = 0]

(* No tick passes over an alarm that is due. *)
Elapse ==
    /\ \A a \in armed : left[a] > 0
    /\ left' = [a \in Alarms |-> IF a \in armed THEN left[a] - 1 ELSE 0]
    /\ UNCHANGED armed

Call(a, r) ==
    /\ a \in armed /\ left[a] = 0
    /\ armed' = IF r = 0 THEN armed \ {a} ELSE armed
    /\ left' = [left EXCEPT ![a] = r]

Next == \/ Elapse
        \/ \E a \in Alarms :
              \/ \E n \in Intervals : Start(a, n)
              \/ \E r \in Periods : Call(a, r)
              \/ Stop(a)

Spec == Init /\ [][Next]_serviceVars
=============================================================================
