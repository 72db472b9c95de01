---------------------------- MODULE AlarmsProofs ----------------------------
(***************************************************************************)
(* The alarm list of the HAL stays well formed, whatever alarms there are, *)
(* however wide the counter and whatever the callbacks return, and the     *)
(* tick comes to its end.                                                  *)
(***************************************************************************)
EXTENDS Alarms, FiniteSetTheorems, TLAPS

(* The nodes of the list are the alarms that are linked and the head. *)
LEMMA LinkedIsAlarms == Linked \subseteq Alarms /\ HEAD \notin Linked
BY AlarmsAssumption DEF Linked

(* The initial state: an empty ring, no alarm started. *)
LEMMA InitTypeOK == Init => TypeOK
<1> SUFFICES ASSUME Init PROVE TypeOK
  OBVIOUS
<1>1. 0 \in 0 .. Wrap - 1
  BY AlarmsAssumption
<1> QED
  BY <1>1, AlarmsAssumption DEF Init, TypeOK, Nodes

LEMMA InitListOK == Init => ListOK
<1> SUFFICES ASSUME Init PROVE ListOK
  OBVIOUS
<1>1. next[HEAD] = HEAD /\ previous[HEAD] = HEAD /\ alarm = HEAD /\ todo = {}
  BY DEF Init, Nodes
<1>2. \A a \in Alarms : next[a] = NIL /\ previous[a] = NIL
  BY AlarmsAssumption DEF Init, Nodes
<1>3. Linked = {}
  BY <1>2 DEF Linked
<1> QED
  BY <1>1, <1>2, <1>3 DEF ListOK, LinksOK, ReachesHead, OutsideOK, CursorOK

(* Wrapping keeps a time within the width of the counter. *)
LEMMA WrapRange == ASSUME NEW x \in Nat PROVE x % Wrap \in 0 .. Wrap - 1
BY AlarmsAssumption

(* A comparison of numbers is TRUE or FALSE. *)
LEMMA ComparisonIsBoolean ==
  ASSUME NEW x \in Nat, NEW y \in Nat PROVE (x < y) \in BOOLEAN
OBVIOUS

(* What alt_llist_insert leaves behind. *)
LEMMA InsertTypeOK ==
  ASSUME TypeOK, LinksOK, NEW a \in Alarms, LlistInsert(a)
  PROVE  /\ next' \in [Nodes -> Nodes \cup {NIL}]
         /\ previous' \in [Nodes -> Nodes \cup {NIL}]
<1>1. next[HEAD] \in Nodes
  BY LinkedIsAlarms DEF LinksOK, Nodes
<1> QED
  BY <1>1 DEF TypeOK, LlistInsert, Nodes

LEMMA InsertListOK ==
  ASSUME TypeOK, ListOK, alarm = HEAD, alarm' = alarm, todo' = todo,
         NEW a \in Alarms, a \notin Linked, LlistInsert(a)
  PROVE  ListOK' /\ Linked' = Linked \cup {a}
<1> DEFINE f == next[HEAD]
<1>1. /\ a # HEAD /\ HEAD \notin Linked /\ Linked \subseteq Alarms
      /\ HEAD \notin Alarms /\ NIL \notin Alarms /\ NIL # HEAD
  BY AlarmsAssumption, LinkedIsAlarms
<1>2. f \in Linked \cup {HEAD} /\ f # a /\ previous[f] = HEAD
  BY <1>1 DEF ListOK, LinksOK
<1>3. /\ next'[a] = f /\ next'[HEAD] = a
      /\ \A x \in Nodes \ {a, HEAD} : next'[x] = next[x]
  BY <1>1 DEF LlistInsert, TypeOK, Nodes
<1>4. /\ previous'[a] = HEAD /\ previous'[f] = a
      /\ \A x \in Nodes \ {a, f} : previous'[x] = previous[x]
  BY <1>1, <1>2 DEF LlistInsert, TypeOK, Nodes
<1>5. Linked' = Linked \cup {a}
  BY <1>1, <1>2, <1>3 DEF Linked, Nodes
<1>6. LinksOK'
  <2> SUFFICES ASSUME NEW x \in Linked \cup {a, HEAD}
               PROVE  /\ next'[x] \in Linked \cup {a, HEAD}
                      /\ previous'[next'[x]] = x
                      /\ previous'[x] \in Linked \cup {a, HEAD}
                      /\ next'[previous'[x]] = x
    BY <1>5 DEF LinksOK
  <2>1. next'[x] \in Linked \cup {a, HEAD} /\ previous'[next'[x]] = x
    <3>1. CASE x \in {a, HEAD}
      BY <3>1, <1>2, <1>3, <1>4
    <3>2. CASE x \notin {a, HEAD}
      <4>1. /\ next'[x] = next[x] /\ next[x] \in Linked \cup {HEAD}
            /\ previous[next[x]] = x
        BY <3>2, <1>1, <1>3 DEF ListOK, LinksOK, Nodes
      <4>2. next[x] # a /\ next[x] # f
        BY <4>1, <3>2, <1>1, <1>2
      <4> QED
        BY <4>1, <4>2, <1>1, <1>4 DEF Nodes
    <3> QED
      BY <3>1, <3>2
  <2>2. previous'[x] \in Linked \cup {a, HEAD} /\ next'[previous'[x]] = x
    <3>1. CASE x \in {a, f}
      BY <3>1, <1>2, <1>3, <1>4
    <3>2. CASE x \notin {a, f}
      <4>1. /\ previous'[x] = previous[x] /\ previous[x] \in Linked \cup {HEAD}
            /\ next[previous[x]] = x
        BY <3>2, <1>1, <1>4 DEF ListOK, LinksOK, Nodes
      <4>2. previous[x] # a /\ previous[x] # HEAD
        BY <4>1, <3>2, <1>1
      <4> QED
        BY <4>1, <4>2, <1>1, <1>3 DEF Nodes
    <3> QED
      BY <3>1, <3>2
  <2> QED
    BY <2>1, <2>2
<1>7. ReachesHead'
  <2> SUFFICES ASSUME NEW S \in SUBSET (Linked \cup {a}), S # {}
               PROVE  \E x \in S : next'[x] \notin S
    BY <1>5 DEF ReachesHead
  <2>1. CASE S = {a}
    BY <2>1, <1>2, <1>3
  <2>2. CASE S # {a}
    <3>1. S \ {a} \in SUBSET Linked /\ S \ {a} # {}
      BY <2>2
    <3>2. PICK x \in S \ {a} : next[x] \notin S \ {a}
      BY <3>1 DEF ListOK, ReachesHead
    <3>3. x \in Linked /\ next[x] # a /\ next'[x] = next[x]
      BY <3>1, <1>1, <1>3 DEF ListOK, LinksOK, Nodes
    <3> QED
      BY <3>2, <3>3
  <2> QED
    BY <2>1, <2>2
<1>8. OutsideOK'
  <2> SUFFICES ASSUME NEW b \in Alarms, b \notin Linked, b # a
               PROVE  previous'[b] = next'[b]
    BY <1>5 DEF OutsideOK
  <2> QED
    BY <1>1, <1>2, <1>3, <1>4 DEF ListOK, OutsideOK, Nodes
<1>9. CursorOK'
  BY DEF ListOK, CursorOK
<1> QED
  BY <1>5, <1>6, <1>7, <1>8, <1>9 DEF ListOK

(* What alt_llist_remove leaves behind.  An alarm that was stopped before   *)
(* points to itself, and nothing changes.                                   *)
LEMMA RemoveTypeOK ==
  ASSUME TypeOK, ListOK, NEW a \in Alarms, next[a] # NIL, LlistRemove(a)
  PROVE  /\ next' \in [Nodes -> Nodes \cup {NIL}]
         /\ previous' \in [Nodes -> Nodes \cup {NIL}]
<1>1. next[a] \in Nodes /\ previous[a] \in Nodes
  <2>1. CASE a \in Linked
    BY <2>1, LinkedIsAlarms DEF ListOK, LinksOK, Nodes
  <2>2. CASE a \notin Linked
    BY <2>2 DEF ListOK, OutsideOK, Linked, Nodes
  <2> QED
    BY <2>1, <2>2
<1> QED
  BY <1>1 DEF TypeOK, LlistRemove, Nodes

LEMMA RemoveStopped ==
  ASSUME TypeOK, ListOK, NEW a \in Alarms, a \notin Linked, next[a] # NIL,
         LlistRemove(a)
  PROVE  next' = next /\ previous' = previous
<1>1. next[a] = a /\ previous[a] = a
  BY DEF Linked, ListOK, OutsideOK
<1> QED
  BY <1>1 DEF LlistRemove, TypeOK, Nodes

(* The alarm after the removed one, or the head, is still on the list: the  *)
(* tick may go on there.                                                    *)
LEMMA RemoveListOK ==
  ASSUME TypeOK, ListOK, NEW a \in Linked, LlistRemove(a)
  PROVE  /\ Linked' = Linked \ {a}
         /\ next[a] \in Linked' \cup {HEAD}
         /\ LinksOK' /\ ReachesHead' /\ OutsideOK'
<1> DEFINE f == next[a]
           p == previous[a]
<1>1. /\ a \in Alarms /\ a # HEAD /\ HEAD \notin Linked /\ Linked \subseteq Alarms
      /\ HEAD \notin Alarms /\ NIL \notin Alarms /\ NIL # HEAD
  BY AlarmsAssumption, LinkedIsAlarms
<1>2. /\ f \in Linked \cup {HEAD} /\ f # a /\ previous[f] = a
      /\ p \in Linked \cup {HEAD} /\ p # a /\ next[p] = a
  <2>1. /\ f \in Linked \cup {HEAD} /\ previous[f] = a
        /\ p \in Linked \cup {HEAD} /\ next[p] = a
    BY DEF ListOK, LinksOK
  <2>2. f # a
    BY DEF Linked
  <2> QED
    BY <2>1, <2>2
<1>3. /\ next'[a] = a /\ next'[p] = f
      /\ \A x \in Nodes \ {a, p} : next'[x] = next[x]
  BY <1>1, <1>2 DEF LlistRemove, TypeOK, Nodes
<1>4. /\ previous'[a] = a /\ previous'[f] = p
      /\ \A x \in Nodes \ {a, f} : previous'[x] = previous[x]
  BY <1>1, <1>2 DEF LlistRemove, TypeOK, Nodes
<1>5. f = p => f = HEAD
  <2> SUFFICES ASSUME f = p, f # HEAD PROVE FALSE
    OBVIOUS
  <2>1. {a, f} \in SUBSET Linked /\ {a, f} # {}
    BY <1>2
  <2>2. PICK x \in {a, f} : next[x] \notin {a, f}
    BY <2>1 DEF ListOK, ReachesHead
  <2> QED
    BY <2>2, <1>2
<1>6. Linked' = Linked \ {a}
  <2>1. \A x \in Alarms \ {a} : x \in Linked' <=> x \in Linked
    <3> SUFFICES ASSUME NEW x \in Alarms, x # a
                 PROVE  x \in Linked' <=> x \in Linked
      OBVIOUS
    <3>1. CASE x = p
      <4>1. x \in Linked /\ f # p /\ f # NIL
        BY <3>1, <1>1, <1>2, <1>5
      <4> QED
        BY <4>1, <3>1, <1>3 DEF Linked
    <3>2. CASE x # p
      BY <3>2, <1>3 DEF Linked, Nodes
    <3> QED
      BY <3>1, <3>2
  <2>2. a \notin Linked' /\ Linked' \subseteq Alarms
    BY <1>3 DEF Linked
  <2> QED
    BY <2>1, <2>2, <1>1
<1>7. f \in Linked' \cup {HEAD}
  BY <1>2, <1>6
<1>8. LinksOK'
  <2> SUFFICES ASSUME NEW x \in (Linked \ {a}) \cup {HEAD}
               PROVE  /\ next'[x] \in (Linked \ {a}) \cup {HEAD}
                      /\ previous'[next'[x]] = x
                      /\ previous'[x] \in (Linked \ {a}) \cup {HEAD}
                      /\ next'[previous'[x]] = x
    BY <1>6 DEF LinksOK
  <2>1. /\ x # a /\ x \in Nodes
        /\ next[x] \in Linked \cup {HEAD} /\ previous[next[x]] = x
        /\ previous[x] \in Linked \cup {HEAD} /\ next[previous[x]] = x
    BY <1>1 DEF ListOK, LinksOK, Nodes
  <2>2. next'[x] \in (Linked \ {a}) \cup {HEAD} /\ previous'[next'[x]] = x
    <3>1. CASE x = p
      BY <3>1, <1>2, <1>3, <1>4
    <3>2. CASE x # p
      <4>1. next'[x] = next[x] /\ next[x] # a /\ next[x] # f
        BY <2>1, <3>2, <1>2, <1>3
      <4> QED
        BY <4>1, <2>1, <1>1, <1>4 DEF Nodes
    <3> QED
      BY <3>1, <3>2
  <2>3. previous'[x] \in (Linked \ {a}) \cup {HEAD} /\ next'[previous'[x]] = x
    <3>1. CASE x = f
      BY <3>1, <1>2, <1>3, <1>4
    <3>2. CASE x # f
      <4>1. previous'[x] = previous[x] /\ previous[x] # a /\ previous[x] # p
        BY <2>1, <3>2, <1>2, <1>4
      <4> QED
        BY <4>1, <2>1, <1>1, <1>3 DEF Nodes
    <3> QED
      BY <3>1, <3>2
  <2> QED
    BY <2>2, <2>3
<1>9. ReachesHead'
  <2> SUFFICES ASSUME NEW S \in SUBSET (Linked \ {a}), S # {}
               PROVE  \E x \in S : next'[x] \notin S
    BY <1>6 DEF ReachesHead
  <2>1. CASE p \notin S
    <3>1. PICK x \in S : next[x] \notin S
      BY DEF ListOK, ReachesHead
    <3> QED
      BY <3>1, <2>1, <1>1, <1>3 DEF Nodes
  <2>2. CASE p \in S
    <3>1. S \cup {a} \in SUBSET Linked /\ S \cup {a} # {}
      OBVIOUS
    <3>2. PICK x \in S \cup {a} : next[x] \notin S \cup {a}
      BY <3>1 DEF ListOK, ReachesHead
    <3>3. CASE x = a
      BY <3>2, <3>3, <2>2, <1>3
    <3>4. CASE x # a
      <4>1. x # p /\ x \in S
        BY <3>2, <3>4, <1>2
      <4> QED
        BY <4>1, <3>2, <3>4, <1>1, <1>3 DEF Nodes
    <3> QED
      BY <3>3, <3>4
  <2> QED
    BY <2>1, <2>2
<1>10. OutsideOK'
  <2> SUFFICES ASSUME NEW b \in Alarms, b \notin Linked \/ b = a
               PROVE  previous'[b] = next'[b]
    BY <1>6 DEF OutsideOK
  <2>1. CASE b = a
    BY <2>1, <1>3, <1>4
  <2>2. CASE b # a
    BY <2>2, <1>1, <1>2, <1>3, <1>4 DEF ListOK, OutsideOK, Nodes
  <2> QED
    BY <2>1, <2>2
<1> QED
  BY <1>6, <1>7, <1>8, <1>9, <1>10

(* The tick moves on to the next alarm, the visited one having stayed on    *)
(* the list or left it.  When it comes to the head nothing is left to       *)
(* visit: what was left would be a ring of its own.                         *)
LEMMA CursorMoves ==
  ASSUME TypeOK, ListOK, alarm # HEAD,
         alarm' = next[alarm], todo' = todo \ {alarm},
         \/ UNCHANGED <<next, previous>>
         \/ LlistRemove(alarm)
  PROVE  CursorOK'
<1> DEFINE f == next[alarm]
           p == previous[alarm]
           rest == todo \ {alarm}
<1>1. /\ alarm \in Linked /\ alarm \in todo /\ todo \subseteq Linked
      /\ HEAD \notin Linked /\ Linked \subseteq Alarms
  BY LinkedIsAlarms DEF ListOK, CursorOK
<1>2. /\ f \in todo \cup {HEAD} /\ f # alarm /\ previous[f] = alarm
      /\ p \notin todo /\ next[p] = alarm
  BY <1>1 DEF ListOK, CursorOK, LinksOK, Linked
<1>3. \A x \in rest : next[x] \in rest \cup {HEAD}
  <2> SUFFICES ASSUME NEW x \in rest PROVE next[x] # alarm
    BY DEF ListOK, CursorOK
  <2> QED
    BY <1>1, <1>2 DEF ListOK, LinksOK
<1>4. \A x \in rest \ {f} : previous[x] \in rest
  <2> SUFFICES ASSUME NEW x \in rest, x # f PROVE previous[x] # alarm
    BY DEF ListOK, CursorOK
  <2> QED
    BY <1>1 DEF ListOK, LinksOK
<1>5. f = HEAD => rest = {}
  <2> SUFFICES ASSUME f = HEAD, rest # {} PROVE FALSE
    OBVIOUS
  <2>1. rest \in SUBSET Linked
    BY <1>1
  <2>2. PICK x \in rest : next[x] \notin rest
    BY <2>1 DEF ListOK, ReachesHead
  <2>3. next[x] = HEAD /\ previous[next[x]] = x
    BY <1>1, <1>3, <2>2 DEF ListOK, LinksOK
  <2> QED
    BY <1>2, <2>3
<1>6. CASE UNCHANGED <<next, previous>>
  <2>1. Linked' = Linked
    BY <1>6 DEF Linked
  <2> QED
    BY <1>1, <1>2, <1>3, <1>4, <1>5, <1>6, <2>1 DEF CursorOK
<1>7. CASE LlistRemove(alarm)
  <2>1. Linked' = Linked \ {alarm}
    BY <1>1, <1>7, RemoveListOK
  <2>2. p \in Linked \cup {HEAD} /\ p # alarm
    BY <1>1 DEF ListOK, LinksOK, Linked
  <2>3. \A x \in rest : next'[x] = next[x]
    BY <1>1, <1>2, <1>7, <2>2 DEF LlistRemove, TypeOK, Nodes
  <2>4. /\ previous'[f] = p
        /\ \A x \in rest \ {f} : previous'[x] = previous[x]
    BY <1>1, <1>2, <1>7, <2>2 DEF LlistRemove, TypeOK, Nodes
  <2>5. f # HEAD => f \in rest /\ p \notin rest
    BY <1>2
  <2> QED
    BY <1>1, <1>3, <1>4, <1>5, <2>1, <2>3, <2>4, <2>5 DEF CursorOK
<1> QED
  BY <1>6, <1>7

---------------------------------------------------------------------------
(* One step of the alarms keeps both invariants. *)

LEMMA StepTypeOK == TypeOK /\ ListOK /\ [Next]_vars => TypeOK'
<1> SUFFICES ASSUME TypeOK, ListOK, [Next]_vars PROVE TypeOK'
  OBVIOUS
<1>0. alarm # HEAD => alarm \in Linked /\ alarm \in Alarms /\ next[alarm] # NIL
  BY LinkedIsAlarms DEF ListOK, CursorOK, Linked
<1>00. next[HEAD] \in Nodes /\ (alarm # HEAD => next[alarm] \in Nodes)
  BY <1>0, LinkedIsAlarms DEF ListOK, LinksOK, Nodes
<1>1. CASE UNCHANGED vars
  BY <1>1 DEF TypeOK, vars
<1>2. ASSUME NEW a \in Alarms, NEW k \in Intervals, Start(a, k) PROVE TypeOK'
  <2>1. k + nticks + 1 \in Nat
    BY AlarmsAssumption DEF TypeOK
  <2>2. (k + nticks + 1) % Wrap \in 0 .. Wrap - 1
    BY <2>1, WrapRange
  <2>3. /\ next' \in [Nodes -> Nodes \cup {NIL}]
        /\ previous' \in [Nodes -> Nodes \cup {NIL}]
    BY <1>2, InsertTypeOK DEF Start, ListOK
  <2>4. time' \in [Alarms -> 0 .. Wrap - 1]
    BY <1>2, <2>2 DEF Start, TypeOK
  <2>5. rollover' \in [Alarms -> BOOLEAN]
    <3>1. ((k + nticks + 1) % Wrap < nticks) \in BOOLEAN
      <4>1. (k + nticks + 1) % Wrap \in Nat /\ nticks \in Nat
        BY <2>2 DEF TypeOK
      <4> QED
        BY <4>1, ComparisonIsBoolean
    <3> QED
      BY <1>2, <3>1, Zenon DEF Start, TypeOK
  <2>6. nticks' \in 0 .. Wrap - 1 /\ alarm' \in Nodes
    BY <1>2 DEF Start, TypeOK
  <2> QED
    BY <2>3, <2>4, <2>5, <2>6 DEF TypeOK
<1>3. ASSUME NEW a \in Alarms, Stop(a) PROVE TypeOK'
  BY <1>3, RemoveTypeOK DEF Stop, TypeOK
<1>4. CASE TickBegin
  <2>1. nticks' \in 0 .. Wrap - 1
    BY <1>4, WrapRange DEF TickBegin, TypeOK
  <2> QED
    BY <1>4, <2>1, <1>00 DEF TickBegin, TypeOK
<1>5. CASE TickSkip
  <2>1. rollover' \in [Alarms -> BOOLEAN]
    <3>1. Behind(alarm) \in BOOLEAN
      BY DEF Behind
    <3> QED
      BY <1>5, <3>1, Zenon DEF TickSkip, TypeOK
  <2> QED
    BY <1>5, <2>1, <1>00 DEF TickSkip, TypeOK
<1>6. CASE TickDeactivate
  <2>1. /\ next' \in [Nodes -> Nodes \cup {NIL}]
        /\ previous' \in [Nodes -> Nodes \cup {NIL}]
    BY <1>0, <1>6, RemoveTypeOK DEF TickDeactivate
  <2>2. rollover' \in [Alarms -> BOOLEAN]
    BY <1>6, Zenon DEF TickDeactivate, TypeOK
  <2> QED
    BY <1>6, <2>1, <2>2, <1>00 DEF TickDeactivate, TypeOK
<1>7. ASSUME NEW r \in Periods, TickRearm(r) PROVE TypeOK'
  <2>1. time[alarm] + r \in Nat
    BY <1>0, <1>7, AlarmsAssumption DEF TickRearm, TypeOK
  <2>2. (time[alarm] + r) % Wrap \in 0 .. Wrap - 1
    BY <2>1, WrapRange
  <2>3. time' \in [Alarms -> 0 .. Wrap - 1]
    BY <1>7, <2>2 DEF TickRearm, TypeOK
  <2>4. rollover' \in [Alarms -> BOOLEAN]
    <3>1. ((time[alarm] + r) % Wrap < nticks) \in BOOLEAN
      <4>1. (time[alarm] + r) % Wrap \in Nat /\ nticks \in Nat
        BY <2>2 DEF TypeOK
      <4> QED
        BY <4>1, ComparisonIsBoolean
    <3> QED
      BY <1>7, <3>1, Zenon DEF TickRearm, TypeOK
  <2> QED
    BY <1>7, <2>3, <2>4, <1>00 DEF TickRearm, TypeOK
<1> QED
  BY <1>1, <1>2, <1>3, <1>4, <1>5, <1>6, <1>7 DEF Next, Visit

LEMMA StepListOK == TypeOK /\ ListOK /\ [Next]_vars => ListOK'
<1> SUFFICES ASSUME TypeOK, ListOK, [Next]_vars PROVE ListOK'
  OBVIOUS
<1>0. alarm # HEAD => alarm \in Linked /\ alarm \in Alarms
  BY LinkedIsAlarms DEF ListOK, CursorOK
<1>1. ASSUME UNCHANGED <<next, previous>>, CursorOK' PROVE ListOK'
  <2>1. Linked' = Linked
    BY <1>1 DEF Linked
  <2>2. LinksOK' /\ OutsideOK'
    BY <1>1, <2>1 DEF ListOK, LinksOK, OutsideOK
  <2>3. ReachesHead'
    BY <1>1, <2>1 DEF ListOK, ReachesHead
  <2> QED
    BY <1>1, <2>2, <2>3 DEF ListOK
<1>2. ASSUME UNCHANGED <<next, previous, alarm, todo>> PROVE ListOK'
  <2>1. CursorOK'
    BY <1>2 DEF ListOK, CursorOK, Linked
  <2> QED
    BY <1>1, <1>2, <2>1
<1>3. ASSUME NEW a \in Alarms, NEW k \in Intervals, Start(a, k) PROVE ListOK'
  BY <1>3, InsertListOK DEF Start
<1>4. ASSUME NEW a \in Alarms, Stop(a) PROVE ListOK'
  <2>1. CASE a \in Linked
    <3>1. LinksOK' /\ ReachesHead' /\ OutsideOK'
      BY <1>4, <2>1, RemoveListOK DEF Stop
    <3>2. CursorOK'
      BY <1>4 DEF Stop, ListOK, CursorOK
    <3> QED
      BY <3>1, <3>2 DEF ListOK
  <2>2. CASE a \notin Linked
    BY <1>2, <1>4, <2>2, RemoveStopped DEF Stop
  <2> QED
    BY <2>1, <2>2
<1>5. CASE TickBegin
  <2>1. Linked' = Linked /\ alarm' = next[HEAD] /\ todo' = Linked
        /\ UNCHANGED <<next, previous>>
    BY <1>5 DEF TickBegin, Linked
  <2>2. \A x \in Linked \cup {HEAD} :
            /\ next[x] \in Linked \cup {HEAD} /\ previous[next[x]] = x
            /\ previous[x] \in Linked \cup {HEAD} /\ next[previous[x]] = x
    BY DEF ListOK, LinksOK
  <2>3. next[HEAD] = HEAD => Linked = {}
    <3> SUFFICES ASSUME next[HEAD] = HEAD, Linked # {} PROVE FALSE
      OBVIOUS
    <3>1. PICK x \in Linked : next[x] \notin Linked
      BY DEF ListOK, ReachesHead
    <3>2. next[x] = HEAD /\ previous[HEAD] = x /\ x # HEAD
      BY <2>2, <3>1, LinkedIsAlarms
    <3> QED
      BY <2>2, <3>2
  <2>4. \A x \in Linked \ {next[HEAD]} : previous[x] \in Linked
    BY <2>2
  <2>5. CursorOK'
    BY <2>1, <2>2, <2>3, <2>4, LinkedIsAlarms DEF CursorOK
  <2> QED
    BY <1>1, <2>1, <2>5
<1>6. CASE TickSkip
  BY <1>1, <1>6, CursorMoves DEF TickSkip
<1>7. CASE TickDeactivate
  <2>1. LinksOK' /\ ReachesHead' /\ OutsideOK'
    BY <1>0, <1>7, RemoveListOK DEF TickDeactivate
  <2>2. CursorOK'
    BY <1>7, CursorMoves DEF TickDeactivate
  <2> QED
    BY <2>1, <2>2 DEF ListOK
<1>8. ASSUME NEW r \in Periods, TickRearm(r) PROVE ListOK'
  BY <1>1, <1>8, CursorMoves DEF TickRearm
<1>9. CASE UNCHANGED vars
  BY <1>2, <1>9 DEF vars
<1> QED
  BY <1>3, <1>4, <1>5, <1>6, <1>7, <1>8, <1>9 DEF Next, Visit

---------------------------------------------------------------------------
(* Time.  Differences modulo Wrap are written out, once and for all.       *)

LEMMA WrapSmall == ASSUME NEW x \in 0 .. Wrap - 1 PROVE x % Wrap = x
BY AlarmsAssumption

LEMMA WrapOnce ==
  ASSUME NEW x \in 0 .. Wrap - 1 PROVE (x + Wrap) % Wrap = x
BY AlarmsAssumption

LEMMA WrapSum ==
  ASSUME NEW x \in Nat, x < 2 * Wrap
  PROVE  x % Wrap = IF x < Wrap THEN x ELSE x - Wrap
<1>1. CASE x < Wrap
  BY <1>1, WrapSmall, AlarmsAssumption
<1>2. CASE x >= Wrap
  <2>1. x - Wrap \in 0 .. Wrap - 1 /\ x = (x - Wrap) + Wrap
    BY <1>2, AlarmsAssumption
  <2>2. ((x - Wrap) + Wrap) % Wrap = x - Wrap
    BY <2>1, WrapOnce
  <2> QED
    BY <1>2, <2>1, <2>2, AlarmsAssumption
<1> QED
  BY <1>1, <1>2, AlarmsAssumption

(* The facts about one alarm a at a moment now: what a counting tick, an    *)
(* expiry check and a new time make of them.                                *)
LEMMA AheadIs ==
  ASSUME NEW t \in 0 .. Wrap - 1, NEW now \in 0 .. Wrap - 1
  PROVE  Ahead(t, now) = IF t >= now THEN t - now ELSE t + Wrap - now
<1> DEFINE d == t + Wrap - now
<1>1. d \in Nat /\ d < 2 * Wrap
  BY AlarmsAssumption
<1>2. d % Wrap = IF d < Wrap THEN d ELSE d - Wrap
  <2> HIDE DEF d
  <2> QED
    BY <1>1, WrapSum
<1>3. Ahead(t, now) = d % Wrap
  BY DEF Ahead
<1> QED
  BY <1>2, <1>3, AlarmsAssumption

LEMMA AheadElapses ==
  ASSUME NEW t \in 0 .. Wrap - 1, NEW now \in 0 .. Wrap - 1, t # now
  PROVE  Ahead(t, now) > 0 /\ Ahead(t, (now + 1) % Wrap) = Ahead(t, now) - 1
<1> DEFINE then == (now + 1) % Wrap
<1>1. then = IF now + 1 < Wrap THEN now + 1 ELSE 0
  BY WrapSum, AlarmsAssumption
<1>2. then \in 0 .. Wrap - 1
  BY <1>1, AlarmsAssumption
<1>3. Ahead(t, now) = IF t >= now THEN t - now ELSE t + Wrap - now
  BY AheadIs
<1> HIDE DEF then
<1>4. Ahead(t, then) = IF t >= then THEN t - then ELSE t + Wrap - then
  BY <1>2, AheadIs
<1>5. Ahead(t, now) > 0 /\ Ahead(t, then) = Ahead(t, now) - 1
  BY <1>1, <1>2, <1>3, <1>4, AlarmsAssumption
<1> QED
  BY <1>5 DEF then

LEMMA AheadSet ==
  ASSUME NEW now \in 0 .. Wrap - 1, NEW r \in 0 .. Wrap - 1, r > 0
  PROVE  /\ (now + r) % Wrap \in 0 .. Wrap - 1
         /\ (now + r) % Wrap # now
         /\ Ahead((now + r) % Wrap, now) = r
<1>1. (now + r) % Wrap = IF now + r < Wrap THEN now + r ELSE now + r - Wrap
  BY WrapSum, AlarmsAssumption
<1>2. (now + r) % Wrap \in 0 .. Wrap - 1
  BY <1>1, AlarmsAssumption
<1>3. Ahead((now + r) % Wrap, now) =
        IF (now + r) % Wrap >= now THEN ((now + r) % Wrap) - now
        ELSE ((now + r) % Wrap) + Wrap - now
  BY <1>2, AheadIs
<1> QED
  BY <1>1, <1>2, <1>3, AlarmsAssumption

LEMMA LastTickIs ==
  ASSUME NEW now \in 0 .. Wrap - 1, TypeOK, nticks' = (now + 1) % Wrap
  PROVE  LastTick' = now
<1>1. (now + 1) % Wrap = IF now + 1 < Wrap THEN now + 1 ELSE 0
  BY WrapSum, AlarmsAssumption
<1> QED
  BY <1>1, AlarmsAssumption DEF LastTick

(* The code's expiry check is right about an alarm this tick has not        *)
(* visited, and what it leaves of the flag is right for the next tick.      *)
LEMMA ExpiredIsDue ==
  ASSUME TypeOK, NEW a \in Alarms, SetFor(a, LastTick)
  PROVE  /\ Expired(a) <=> time[a] = nticks
         /\ ~Expired(a) => (Behind(a) <=> time[a] < nticks)
<1> DEFINE t == time[a]
<1>1. t \in 0 .. Wrap - 1 /\ nticks \in 0 .. Wrap - 1
  BY DEF TypeOK
<1>2. CASE nticks = 0
  <2>1. ~Behind(a)
    BY <1>2 DEF Behind
  <2>2. t <= nticks <=> t = nticks
    BY <1>1, <1>2
  <2>3. ~(t < nticks)
    BY <1>1, <1>2
  <2> QED
    BY <2>1, <2>2, <2>3 DEF Expired
<1>3. CASE nticks # 0
  <2>1. t # nticks - 1 /\ (rollover[a] <=> t < nticks - 1)
    BY <1>3 DEF SetFor, LastTick
  <2>2. Behind(a) <=> t < nticks - 1
    BY <1>3, <2>1 DEF Behind
  <2>3. (t <= nticks /\ ~(t < nticks - 1)) <=> t = nticks
    BY <1>1, <1>3, <2>1
  <2>4. t < nticks - 1 <=> t < nticks
    BY <1>1, <1>3, <2>1
  <2> QED
    BY <2>2, <2>3, <2>4 DEF Expired
<1> QED
  BY <1>2, <1>3

---------------------------------------------------------------------------
(* What each step does to the running alarms, their times and flags. *)

LEMMA StartEffect ==
  ASSUME TypeOK, ListOK, NEW a \in Alarms, NEW k \in Intervals, Start(a, k)
  PROVE  /\ Linked' = Linked \cup {a} /\ todo' = {} /\ todo = {}
         /\ nticks' = nticks
         /\ time'[a] # nticks /\ (rollover'[a] <=> time'[a] < nticks)
         /\ Ahead(time'[a], nticks) = k + 1
         /\ \A x \in Alarms \ {a} : time'[x] = time[x] /\ rollover'[x] = rollover[x]
<1> DEFINE t == (k + nticks + 1) % Wrap
<1>1. k \in Nat /\ k + 1 \in 0 .. Wrap - 1 /\ k + 1 > 0 /\ nticks \in 0 .. Wrap - 1
  BY AlarmsAssumption DEF TypeOK
<1>2. k + nticks + 1 = nticks + (k + 1)
  BY <1>1
<1>3. t # nticks /\ Ahead(t, nticks) = k + 1
  BY <1>1, <1>2, AheadSet
<1>4. time' = [time EXCEPT ![a] = t] /\ rollover' = [rollover EXCEPT ![a] = t < nticks]
  BY DEF Start
<1> HIDE DEF t
<1>5. time'[a] = t /\ \A x \in Alarms \ {a} : time'[x] = time[x]
  BY <1>4 DEF TypeOK
<1>6. rollover'[a] = (t < nticks) /\ \A x \in Alarms \ {a} : rollover'[x] = rollover[x]
  BY <1>4 DEF TypeOK
<1>7. Linked' = Linked \cup {a}
  BY InsertListOK DEF Start
<1>8. todo' = {} /\ todo = {} /\ nticks' = nticks
  BY DEF Start, ListOK, CursorOK
<1> QED
  BY <1>3, <1>5, <1>6, <1>7, <1>8

LEMMA RearmEffect ==
  ASSUME TypeOK, ListOK, TimesOK, NEW r \in Periods \ {0}, TickRearm(r)
  PROVE  /\ alarm \in Linked /\ Linked' = Linked /\ nticks' = nticks
         /\ time[alarm] = nticks
         /\ time'[alarm] # nticks /\ (rollover'[alarm] <=> time'[alarm] < nticks)
         /\ Ahead(time'[alarm], nticks) = r
         /\ \A x \in Alarms \ {alarm} : time'[x] = time[x] /\ rollover'[x] = rollover[x]
<1> DEFINE t == (time[alarm] + r) % Wrap
<1>1. alarm \in Linked /\ alarm \in todo /\ alarm \in Alarms
  BY LinkedIsAlarms DEF TickRearm, ListOK, CursorOK
<1>2. SetFor(alarm, LastTick)
  BY <1>1 DEF TimesOK
<1>3. time[alarm] = nticks
  BY <1>1, <1>2, ExpiredIsDue DEF TickRearm
<1>4. r \in 0 .. Wrap - 1 /\ r > 0 /\ nticks \in 0 .. Wrap - 1
  BY AlarmsAssumption DEF TypeOK
<1>5. t # nticks /\ Ahead(t, nticks) = r
  BY <1>3, <1>4, AheadSet
<1>6. time' = [time EXCEPT ![alarm] = t]
      /\ rollover' = [rollover EXCEPT ![alarm] = t < nticks]
  BY DEF TickRearm
<1> HIDE DEF t
<1>7. time'[alarm] = t /\ \A x \in Alarms \ {alarm} : time'[x] = time[x]
  BY <1>1, <1>6 DEF TypeOK
<1>8. /\ rollover'[alarm] = (t < nticks)
      /\ \A x \in Alarms \ {alarm} : rollover'[x] = rollover[x]
  BY <1>1, <1>6 DEF TypeOK
<1>9. Linked' = Linked /\ nticks' = nticks
  BY DEF TickRearm, Linked
<1> QED
  BY <1>1, <1>3, <1>5, <1>7, <1>8, <1>9

LEMMA DeactivateEffect ==
  ASSUME TypeOK, ListOK, TimesOK, TickDeactivate
  PROVE  /\ alarm \in Linked /\ Linked' = Linked \ {alarm}
         /\ time[alarm] = nticks /\ nticks' = nticks /\ time' = time
         /\ \A x \in Alarms \ {alarm} : rollover'[x] = rollover[x]
<1>1. alarm \in Linked /\ alarm \in todo /\ alarm \in Alarms
  BY LinkedIsAlarms DEF TickDeactivate, ListOK, CursorOK
<1>2. SetFor(alarm, LastTick)
  BY <1>1 DEF TimesOK
<1>3. time[alarm] = nticks
  BY <1>1, <1>2, ExpiredIsDue DEF TickDeactivate
<1>4. Linked' = Linked \ {alarm}
  BY <1>1, RemoveListOK DEF TickDeactivate
<1> QED
  BY <1>1, <1>3, <1>4 DEF TickDeactivate, TypeOK

LEMMA StopEffect ==
  ASSUME TypeOK, ListOK, NEW a \in Alarms, Stop(a)
  PROVE  /\ Linked' = Linked \ {a}
         /\ UNCHANGED <<time, rollover, nticks, todo>> /\ todo = {}
<1>1. CASE a \in Linked
  BY <1>1, RemoveListOK DEF Stop, ListOK, CursorOK
<1>2. CASE a \notin Linked
  <2>1. next' = next
    BY <1>2, RemoveStopped DEF Stop
  <2> QED
    BY <1>2, <2>1 DEF Stop, Linked, ListOK, CursorOK
<1> QED
  BY <1>1, <1>2

LEMMA StepTimesOK == TypeOK /\ ListOK /\ TimesOK /\ [Next]_vars => TimesOK'
<1> SUFFICES ASSUME TypeOK, ListOK, TimesOK, [Next]_vars PROVE TimesOK'
  OBVIOUS
<1>0. Linked \subseteq Alarms
  BY LinkedIsAlarms
<1>1. CASE UNCHANGED vars
  BY <1>1 DEF vars, TimesOK, SetFor, LastTick, Linked
<1>2. ASSUME NEW a \in Alarms, NEW k \in Intervals, Start(a, k) PROVE TimesOK'
  BY <1>0, <1>2, StartEffect DEF TimesOK, SetFor
<1>3. ASSUME NEW a \in Alarms, Stop(a) PROVE TimesOK'
  BY <1>3, StopEffect DEF TimesOK, SetFor
<1>4. CASE TickBegin
  <2>1. LastTick' = nticks
    BY <1>4, LastTickIs DEF TickBegin, TypeOK
  <2>2. Linked' = Linked /\ todo' = Linked /\ todo = {}
        /\ time' = time /\ rollover' = rollover
    BY <1>4 DEF TickBegin, Linked, ListOK, CursorOK
  <2> QED
    BY <2>1, <2>2 DEF TimesOK, SetFor
<1>5. CASE TickSkip
  <2>1. alarm \in todo /\ alarm \in Linked /\ alarm \in Alarms
    BY <1>0, <1>5 DEF TickSkip, ListOK, CursorOK
  <2>2. time[alarm] # nticks /\ (Behind(alarm) <=> time[alarm] < nticks)
    BY <1>5, <2>1, ExpiredIsDue DEF TimesOK, TickSkip
  <2>3. /\ rollover'[alarm] = Behind(alarm)
        /\ \A x \in Alarms \ {alarm} : rollover'[x] = rollover[x]
    BY <1>5, <2>1 DEF TickSkip, TypeOK
  <2>4. /\ Linked' = Linked /\ todo' = todo \ {alarm} /\ time' = time
        /\ nticks' = nticks /\ LastTick' = LastTick
    BY <1>5 DEF TickSkip, Linked, LastTick
  <2> QED
    BY <1>0, <2>2, <2>3, <2>4 DEF TimesOK, SetFor
<1>6. CASE TickDeactivate
  <2>1. todo' = todo \ {alarm} /\ LastTick' = LastTick
    BY <1>6 DEF TickDeactivate, LastTick
  <2> QED
    BY <1>0, <1>6, <2>1, DeactivateEffect DEF TimesOK, SetFor
<1>7. ASSUME NEW r \in Periods \ {0}, TickRearm(r) PROVE TimesOK'
  <2>1. todo' = todo \ {alarm} /\ LastTick' = LastTick
    BY <1>7 DEF TickRearm, LastTick
  <2> QED
    BY <1>0, <1>7, <2>1, RearmEffect DEF TimesOK, SetFor
<1> QED
  BY <1>1, <1>2, <1>3, <1>4, <1>5, <1>6, <1>7 DEF Next, Visit

---------------------------------------------------------------------------
(* Refinement: every step of the list is a step of the service or a stutter. *)

(* Left changes at one alarm at most in every step but a counting tick.     *)
LEMMA LeftExcept ==
  ASSUME NEW a \in Alarms, NEW v,
         \A x \in Alarms \ {a} : /\ x \in Linked' <=> x \in Linked
                                 /\ time'[x] = time[x],
         nticks' = nticks,
         v = IF a \in Linked' THEN Ahead(time'[a], nticks) ELSE 0
  PROVE  Left' = [Left EXCEPT ![a] = v]
<1>1. Left' = [x \in Alarms |-> IF x \in Linked' THEN Ahead(time'[x], nticks) ELSE 0]
  BY DEF Left, Ahead
<1>2. \A x \in Alarms : Left'[x] = [Left EXCEPT ![a] = v][x]
  BY <1>1 DEF Left
<1> QED
  BY <1>1, <1>2 DEF Left

LEMMA InitService == Init => Service!Init
<1> SUFFICES ASSUME Init PROVE Service!Init
  OBVIOUS
<1>1. \A a \in Alarms : next[a] = NIL
  BY AlarmsAssumption DEF Init, Nodes
<1>2. Linked = {}
  BY <1>1 DEF Linked
<1> QED
  BY <1>2 DEF Service!Init, Left

LEMMA StepService ==
  TypeOK /\ ListOK /\ TimesOK /\ [Next]_vars => [Service!Next]_(Service!serviceVars)
<1> SUFFICES ASSUME TypeOK, ListOK, TimesOK, [Next]_vars
             PROVE  Service!Next \/ (Linked' = Linked /\ Left' = Left)
  BY DEF Service!serviceVars
<1>0. Linked \subseteq Alarms
  BY LinkedIsAlarms
<1>1. CASE UNCHANGED vars
  BY <1>1 DEF vars, Left, Linked, Ahead
<1>2. ASSUME NEW a \in Alarms, NEW k \in Intervals, Start(a, k)
      PROVE  Service!Next
  <2>1. Left' = [Left EXCEPT ![a] = k + 1]
    BY <1>2, StartEffect, LeftExcept
  <2>2. a \notin Linked /\ Linked' = Linked \cup {a}
    BY <1>2, StartEffect DEF Start
  <2> QED
    BY <2>1, <2>2 DEF Service!Next, Service!Start
<1>3. ASSUME NEW a \in Alarms, Stop(a) PROVE Service!Next
  <2>1. Left' = [Left EXCEPT ![a] = 0]
    BY <1>3, StopEffect, LeftExcept
  <2>2. Linked' = Linked \ {a}
    BY <1>3, StopEffect
  <2> QED
    BY <2>1, <2>2 DEF Service!Next, Service!Stop
<1>4. CASE TickBegin
  <2>1. Linked' = Linked /\ todo = {} /\ time' = time /\ nticks' = (nticks + 1) % Wrap
    BY <1>4 DEF TickBegin, Linked, ListOK, CursorOK
  <2>2. ASSUME NEW x \in Linked
        PROVE  Left[x] > 0 /\ Left'[x] = Left[x] - 1
    <3>1. time[x] # nticks /\ time[x] \in 0 .. Wrap - 1 /\ nticks \in 0 .. Wrap - 1
      BY <1>0, <2>1 DEF TimesOK, SetFor, TypeOK
    <3>2. /\ Ahead(time[x], nticks) > 0
          /\ Ahead(time[x], (nticks + 1) % Wrap) = Ahead(time[x], nticks) - 1
      BY <3>1, AheadElapses
    <3>3. Left[x] = Ahead(time[x], nticks)
      BY <1>0 DEF Left
    <3>4. Left'[x] = Ahead(time[x], (nticks + 1) % Wrap)
      BY <1>0, <2>1 DEF Left, Ahead
    <3> QED
      BY <3>2, <3>3, <3>4
  <2>3. Left' = [x \in Alarms |-> IF x \in Linked THEN Left[x] - 1 ELSE 0]
    <3>1. Left' = [x \in Alarms |-> Left'[x]]
      BY DEF Left
    <3>2. \A x \in Alarms \ Linked : Left'[x] = 0
      BY <2>1 DEF Left
    <3> QED
      BY <2>2, <3>1, <3>2
  <2>4. \A x \in Linked : Left[x] > 0
    BY <2>2
  <2> QED
    BY <2>1, <2>3, <2>4 DEF Service!Next, Service!Elapse
<1>5. CASE TickSkip
  BY <1>5 DEF TickSkip, Left, Linked, Ahead
<1>6. CASE 0 \in Periods /\ TickDeactivate
  <2>1. /\ alarm \in Linked /\ alarm \in Alarms /\ Linked' = Linked \ {alarm}
        /\ time[alarm] = nticks /\ nticks' = nticks /\ time' = time
    BY <1>0, <1>6, DeactivateEffect
  <2>2. Left' = [Left EXCEPT ![alarm] = 0]
    BY <2>1, LeftExcept
  <2>3. Left[alarm] = 0
    <3>1. nticks \in 0 .. Wrap - 1
      BY DEF TypeOK
    <3>2. Ahead(nticks, nticks) = 0
      BY <3>1, AheadIs
    <3> QED
      BY <2>1, <3>2 DEF Left
  <2>4. Service!Call(alarm, 0)
    BY <2>1, <2>2, <2>3 DEF Service!Call
  <2> QED
    BY <1>6, <2>1, <2>4 DEF Service!Next
<1>7. ASSUME NEW r \in Periods \ {0}, TickRearm(r) PROVE Service!Next
  <2>1. /\ alarm \in Linked /\ alarm \in Alarms /\ Linked' = Linked
        /\ time[alarm] = nticks /\ nticks' = nticks
        /\ Ahead(time'[alarm], nticks) = r
        /\ \A x \in Alarms \ {alarm} : time'[x] = time[x]
    BY <1>0, <1>7, RearmEffect
  <2>2. Left' = [Left EXCEPT ![alarm] = r]
    BY <2>1, LeftExcept
  <2>3. Left[alarm] = 0
    <3>1. nticks \in 0 .. Wrap - 1
      BY DEF TypeOK
    <3>2. Ahead(nticks, nticks) = 0
      BY <3>1, AheadIs
    <3> QED
      BY <2>1, <3>2 DEF Left
  <2>4. Service!Call(alarm, r)
    BY <2>1, <2>2, <2>3 DEF Service!Call
  <2> QED
    BY <2>1, <2>4 DEF Service!Next
<1> QED
  BY <1>1, <1>2, <1>3, <1>4, <1>5, <1>6, <1>7 DEF Next, Visit

---------------------------------------------------------------------------
(* The theorems. *)

LEMMA Invariants == Spec => [](TypeOK /\ ListOK /\ TimesOK)
<1>1. Init => TypeOK /\ ListOK /\ TimesOK
  <2>1. Init => \A a \in Alarms : next[a] = NIL
    BY AlarmsAssumption DEF Init, Nodes
  <2>2. Init => TimesOK
    BY <2>1 DEF TimesOK, Linked
  <2> QED
    BY <2>2, InitTypeOK, InitListOK
<1>2. TypeOK /\ ListOK /\ TimesOK /\ [Next]_vars => (TypeOK /\ ListOK /\ TimesOK)'
  BY StepTypeOK, StepListOK, StepTimesOK
<1> QED
  BY <1>1, <1>2, PTL DEF Spec

(* Links, times, flags, counter and cursor stay within their types: the     *)
(* tick follows no null link.                                               *)
THEOREM TypeCorrect == Spec => []TypeOK
BY Invariants, PTL

(* The alarm list is one ring through the head at every moment, and the     *)
(* tick walks over all of it (alt_llist.h, alt_tick.c:87-148).              *)
THEOREM ListWellFormed == Spec => []ListOK
BY Invariants, PTL

(* No alarm is ever overdue and every rollover flag is right                *)
(* (alt_alarm_start.c, alt_tick.c:109-139).                                 *)
THEOREM TimesRight == Spec => []TimesOK
BY Invariants, PTL

(* The list, the wrapping counter and the flags implement the service: each *)
(* callback is made at its tick and no tick passes over an alarm that is    *)
(* due.                                                                     *)
THEOREM CallsOnTime == Spec => KeepsTime
<1>1. TypeOK /\ ListOK /\ TimesOK /\ [Next]_vars => [Service!Next]_(Service!serviceVars)
  BY StepService
<1> QED
  BY <1>1, InitService, Invariants, PTL DEF Spec, KeepsTime, Service!Spec

(* Every step while the tick runs visits one more alarm, and the one that    *)
(* leaves none to visit returns.                                           *)
TickShortens ==
  alarm # HEAD => /\ Cardinality(todo') = Cardinality(todo) - 1
                  /\ alarm' = HEAD <=> todo' = {}

(* alt_tick returns after as many visits as there were alarms on the list   *)
(* when it began, whichever of them it removes on its way: no entry is       *)
(* visited twice, and nobody else changes the list meanwhile.  A program     *)
(* has finitely many alarms.                                               *)
THEOREM TickIsBounded ==
  ASSUME IsFiniteSet(Alarms)
  PROVE  Spec => [][Cardinality(todo) \in Nat /\ TickShortens]_vars
<1>1. ASSUME TypeOK, ListOK, ListOK', [Next]_vars
      PROVE  [Cardinality(todo) \in Nat /\ TickShortens]_vars
  <2> SUFFICES ASSUME Next PROVE Cardinality(todo) \in Nat /\ TickShortens
    BY <1>1
  <2>1. IsFiniteSet(todo)
    <3>1. todo \subseteq Alarms
      BY <1>1, LinkedIsAlarms DEF ListOK, CursorOK
    <3> QED
      BY <3>1, FS_Subset
  <2>2. Cardinality(todo) \in Nat
    BY <2>1, FS_CardinalityType
  <2>3. ASSUME alarm # HEAD
        PROVE  alarm \in todo /\ todo' = todo \ {alarm}
    <3>1. alarm \in todo
      BY <1>1, <2>3 DEF ListOK, CursorOK
    <3>2. Visit
      BY <2>3 DEF Next, Start, Stop, TickBegin
    <3> QED
      BY <3>1, <3>2 DEF Visit, TickSkip, TickDeactivate, TickRearm
  <2>4. alarm' = HEAD <=> todo' = {}
    BY <1>1 DEF ListOK, CursorOK
  <2>5. alarm # HEAD => Cardinality(todo') = Cardinality(todo) - 1
    BY <2>1, <2>3, FS_RemoveElement
  <2> QED
    BY <2>2, <2>4, <2>5 DEF TickShortens
<1>2. Spec => [](TypeOK /\ ListOK)
  BY Invariants, PTL
<1> QED
  BY <1>1, <1>2, PTL DEF Spec
=============================================================================
