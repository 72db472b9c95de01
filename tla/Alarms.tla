------------------------------- MODULE Alarms -------------------------------
(***************************************************************************)
(* The alarms of the HAL (alt_alarm_start.c, alt_tick.c, alt_llist.h): a   *)
(* doubly linked list of alarms, a tick counter that wraps and a rollover  *)
(* flag for the alarms whose time lies behind the wrap.                    *)
(*                                                                         *)
(* alt_alarm_start and alt_alarm_stop run with interrupts disabled, and    *)
(* the tick is an interrupt: the foreground sees them all as indivisible.  *)
(* Inside the tick each alarm visited is a step.  Definitions named Bug... *)
(* are mutations of the definition after them.                             *)
(***************************************************************************)
EXTENDS Naturals

CONSTANTS Alarms,      \* the alarm structures of the program
          HEAD, NIL,   \* alt_alarm_list; the null pointer
          Wrap,        \* 2^32, where an alt_u32 wraps
          Intervals,   \* the nticks passed to alt_alarm_start
          Periods      \* what callbacks return

(* An interval of Wrap - 1 ticks would make the alarm's time wrap onto the  *)
(* present: it is outside what the code supports.                           *)
ASSUME AlarmsAssumption ==
    /\ HEAD \notin Alarms /\ NIL \notin Alarms /\ HEAD # NIL
    /\ Wrap \in Nat /\ Wrap > 1
    /\ Intervals \subseteq 0 .. Wrap - 2
    /\ Periods \subseteq 0 .. Wrap - 1

VARIABLES next, previous,     \* the links of the alarms and of the head
          time, rollover,     \* the alarms' fields
          nticks,             \* _alt_nticks
          alarm,              \* alt_tick's cursor: HEAD when it is not running
          todo                \* history: the alarms this tick has not visited yet

vars == <<next, previous, time, rollover, nticks, alarm, todo>>

Nodes == Alarms \cup {HEAD}

Init ==
    /\ next = [x \in Nodes |-> IF x = HEAD THEN HEAD ELSE NIL]
    /\ previous = [x \in Nodes |-> IF x = HEAD THEN HEAD ELSE NIL]
    /\ time = [a \in Alarms |-> 0]
    /\ rollover = [a \in Alarms |-> FALSE]
    /\ nticks = 0
    /\ alarm = HEAD /\ todo = {}

Linked == {a \in Alarms : next[a] \notin {NIL, a}}

BugLlistInsert(a) ==
    /\ previous' = [previous EXCEPT ![a] = HEAD]
    /\ next' = [next EXCEPT ![a] = next[HEAD], ![HEAD] = a]

BugLlistInsertNoNext(a) ==
    /\ previous' = [previous EXCEPT ![a] = HEAD, ![next[HEAD]] = a]
    /\ next' = [next EXCEPT ![HEAD] = a]

(* alt_llist_insert: a becomes the first entry. *)
LlistInsert(a) ==
    /\ previous' = [previous EXCEPT ![a] = HEAD, ![next[HEAD]] = a]
    /\ next' = [next EXCEPT ![a] = next[HEAD], ![HEAD] = a]

(* alt_llist_remove: the entry ends up pointing to itself. *)
LlistRemove(a) ==
    /\ previous' = [[previous EXCEPT ![next[a]] = previous[a]] EXCEPT ![a] = a]
    /\ next' = [[next EXCEPT ![previous[a]] = next[a]] EXCEPT ![a] = a]

BugStart(a, n) ==
    LET t == (n + nticks + 1) % Wrap IN
    /\ alarm = HEAD
    /\ a \notin Linked
    /\ time' = [time EXCEPT ![a] = t]
    /\ rollover' = [rollover EXCEPT ![a] = FALSE]
    /\ LlistInsert(a)
    /\ UNCHANGED <<nticks, alarm, todo>>

(* alt_alarm_start with the system clock running.  Starting an alarm that  *)
(* runs already is no legal call.                                          *)
Start(a, n) ==
    LET t == (n + nticks + 1) % Wrap IN
    /\ alarm = HEAD
    /\ a \notin Linked
    /\ time' = [time EXCEPT ![a] = t]
    /\ rollover' = [rollover EXCEPT ![a] = t < nticks]
    /\ LlistInsert(a)
    /\ UNCHANGED <<nticks, alarm, todo>>

(* alt_alarm_stop from the foreground, of an alarm that was once started;  *)
(* stopping it twice is legal.                                             *)
Stop(a) ==
    /\ alarm = HEAD
    /\ next[a] # NIL
    /\ LlistRemove(a)
    /\ UNCHANGED <<time, rollover, nticks, alarm, todo>>

(* alt_tick: count, then walk the list. *)
TickBegin ==
    /\ alarm = HEAD
    /\ nticks' = (nticks + 1) % Wrap
    /\ alarm' = next[HEAD] /\ todo' = Linked
    /\ UNCHANGED <<next, previous, time, rollover>>

(* Passing nticks = 0 clears the rollover flag before it is looked at. *)
Behind(a) == rollover[a] /\ nticks # 0
Expired(a) == time[a] <= nticks /\ ~Behind(a)

TickSkip ==
    /\ alarm # HEAD /\ ~Expired(alarm)
    /\ rollover' = [rollover EXCEPT ![alarm] = Behind(alarm)]
    /\ alarm' = next[alarm] /\ todo' = todo \ {alarm}
    /\ UNCHANGED <<next, previous, time, nticks>>

BugTickDeactivate ==
    /\ alarm # HEAD /\ Expired(alarm)
    /\ LlistRemove(alarm)
    /\ rollover' = [rollover EXCEPT ![alarm] = FALSE]
    /\ alarm' = next'[alarm] /\ todo' = todo \ {alarm}
    /\ UNCHANGED <<time, nticks>>

(* The callback returned 0.  The next entry was read before the removal. *)
TickDeactivate ==
    /\ alarm # HEAD /\ Expired(alarm)
    /\ LlistRemove(alarm)
    /\ rollover' = [rollover EXCEPT ![alarm] = FALSE]
    /\ alarm' = next[alarm] /\ todo' = todo \ {alarm}
    /\ UNCHANGED <<time, nticks>>

BugTickRearm(r) ==
    /\ alarm # HEAD /\ Expired(alarm)
    /\ time' = [time EXCEPT ![alarm] = (time[alarm] + r) % Wrap]
    /\ rollover' = [rollover EXCEPT ![alarm] = FALSE]
    /\ alarm' = next[alarm] /\ todo' = todo \ {alarm}
    /\ UNCHANGED <<next, previous, nticks>>

(* The callback returned r > 0. *)
TickRearm(r) ==
    LET t == (time[alarm] + r) % Wrap IN
    /\ alarm # HEAD /\ Expired(alarm)
    /\ time' = [time EXCEPT ![alarm] = t]
    /\ rollover' = [rollover EXCEPT ![alarm] = t < nticks]
    /\ alarm' = next[alarm] /\ todo' = todo \ {alarm}
    /\ UNCHANGED <<next, previous, nticks>>

Visit == \/ TickSkip
         \/ 0 \in Periods /\ TickDeactivate
         \/ \E r \in Periods \ {0} : TickRearm(r)

Next == \/ \E a \in Alarms, n \in Intervals : Start(a, n)
        \/ \E a \in Alarms : Stop(a)
        \/ TickBegin
        \/ Visit

Spec == Init /\ [][Next]_vars

(* The interrupt routine runs to its end; the timer keeps ticking. *)
FairSpec == Spec /\ WF_vars(Visit) /\ WF_vars(TickBegin)

---------------------------------------------------------------------------
(* Properties *)

(* Links lead to nodes, or nowhere before the first start; times fit.      *)
TypeOK ==
    /\ next \in [Nodes -> Nodes \cup {NIL}]
    /\ previous \in [Nodes -> Nodes \cup {NIL}]
    /\ time \in [Alarms -> 0 .. Wrap - 1]
    /\ rollover \in [Alarms -> BOOLEAN]
    /\ nticks \in 0 .. Wrap - 1
    /\ alarm \in Nodes

(* The links of the list's nodes mirror each other. *)
LinksOK ==
    \A x \in Linked \cup {HEAD} :
        /\ next[x] \in Linked \cup {HEAD} /\ previous[next[x]] = x
        /\ previous[x] \in Linked \cup {HEAD} /\ next[previous[x]] = x

(* No alarms form a ring of their own: from each one the links lead to HEAD. *)
ReachesHead ==
    \A S \in SUBSET Linked : S # {} => \E x \in S : next[x] \notin S

(* An alarm outside the list points to itself or nowhere. *)
OutsideOK == \A a \in Alarms \ Linked : previous[a] = next[a]

(* alt_tick's cursor is on the list, and the alarms it has not visited are  *)
(* those from the cursor on: at the end there are none.                     *)
CursorOK ==
    /\ alarm \in Linked \cup {HEAD}
    /\ todo \subseteq Linked
    /\ alarm = HEAD => todo = {}
    /\ alarm # HEAD => alarm \in todo /\ previous[alarm] \notin todo
    /\ \A x \in todo : next[x] \in todo \cup {HEAD}
    /\ \A x \in todo \ {alarm} : previous[x] \in todo

(* The list stays one doubly linked ring through every insertion and        *)
(* removal, of the tick or of the foreground, of a running alarm or of a    *)
(* stopped one ("any further calls are harmless", alt_llist.h:111-112), and *)
(* the tick walks over all of it and never outside it.                      *)
ListOK == LinksOK /\ ReachesHead /\ OutsideOK /\ CursorOK

(* alt_tick comes to the end of the list, though it removes entries on the  *)
(* way.                                                                     *)
TickReturns == alarm # HEAD ~> alarm = HEAD

(* Between ticks, and for the alarms this tick has visited, no alarm is     *)
(* due, and the rollover flag tells whether its time lies behind the wrap;  *)
(* for the others both hold of the tick before.                             *)
SetFor(a, now) == time[a] # now /\ (rollover[a] <=> time[a] < now)
LastTick == IF nticks = 0 THEN Wrap - 1 ELSE nticks - 1
TimesOK == \A a \in Linked : SetFor(a, IF a \in todo THEN LastTick ELSE nticks)

(* The ticks left to each alarm's call. *)
Ahead(t, now) == (t + Wrap - now) % Wrap
Left == [a \in Alarms |-> IF a \in Linked THEN Ahead(time[a], nticks) ELSE 0]

(* Every alarm is called at its tick, neither early nor late nor skipped,   *)
(* although the counter wraps: the rollover flags are right.                *)
Service == INSTANCE AlarmService WITH armed <- Linked, left <- Left
KeepsTime == Service!Spec
=============================================================================
