------------------------ MODULE KernelPriorityProofs ------------------------
(***************************************************************************)
(* The highest task runs, and the holder of a mutex inherits: theorems     *)
(* about the priorities of FreeRTOS's tasks, for any tasks, priorities,    *)
(* objects, calls and interrupts.                                          *)
(*                                                                         *)
(* On top of the invariants of KernelProofs come the priorities, with the  *)
(* invariant RInv, a lemma for each function of the scheduler, named       *)
(* <function>Ranks, and for each kind of step, named <step>Settles; then   *)
(* what is lent through mutexes, with the invariant MInv, a lemma for each *)
(* step that leaves the mutexes alone, named <step>Lends, and for each     *)
(* that does not, named <step>Mutex; and the theorems at the end.          *)
(***************************************************************************)
EXTENDS KernelProofs

---------------------------------------------------------------------------
(* Priorities: the running task, the ready ones and the bits *)

Top(r)     == \A t \in Task : r.list[t] = "ready" => r.prio[t] <= r.prio[r.cur]
Covered(r) == \A t \in Task : r.list[t] = "ready" => r.prio[t] \in r.bits

\* No task above the running one is ready, or a switch is on its way, kept in
\* xYieldPending while the scheduler is suspended
Settled(r) == Top(r) \/ r.pendSV \/ (r.suspended /\ r.yieldPending)

\* No bit stands for an empty list
Lean(r) == \A p \in r.bits : \E t \in Task : r.list[t] = "ready" /\ r.prio[t] = p

\* From r to s nobody's priority changes, nor who runs
Ranked(r, s) == /\ s \in KState /\ s.prio = r.prio /\ s.cur = r.cur /\ s.held = r.held
                /\ Covered(r) => Covered(s)
                /\ Lean(r) => Lean(s)

\* Priorities can be compared
LEMMA Comparable ==
    ASSUME NEW r \in KState
    PROVE  /\ r.cur \in Task /\ \A t \in Task : r.prio[t] \in Int /\ r.prio[t] \in Priority
           /\ r.prio[r.cur] \in Int
<1>1. r.cur \in Task /\ \A t \in Task : r.prio[t] \in Priority
  BY FieldsOf
<1>2. \A p \in Priority : p \in Int
  BY Numbers
<1> QED
  BY <1>1, <1>2

\* Tasks put into the ready list bring their bits
LEMMA AddToReadyRanks ==
    ASSUME NEW r \in KState, NEW ts \in SUBSET Task,
           NEW s, s = prvAddTasksToReadyList(r, ts)
    PROVE  /\ Ranked(r, s)
           /\ (Top(r) /\ \A t \in ts : r.prio[t] <= r.prio[r.cur]) => Top(s)
<1>1. /\ s \in KState /\ s.prio = r.prio /\ s.cur = r.cur /\ s.held = r.held
      /\ \A t \in Task : s.list[t] = IF t \in ts THEN "ready" ELSE r.list[t]
  BY AddToReady
<1>2. s.bits = r.bits \cup {r.prio[t] : t \in ts}
  BY DEF prvAddTasksToReadyList, KState
<1>3. Lean(r) => Lean(s)
  BY <1>1, <1>2 DEF Lean
<1> QED
  BY <1>1, <1>2, <1>3 DEF Ranked, Covered, Top

\* No bit goes whose list is not empty
LEMMA ResetReadyRanks ==
    ASSUME NEW r \in KState, NEW p, NEW s, s = taskRESET_READY_PRIORITY(r, p)
    PROVE  Ranked(r, s) /\ (Top(r) => Top(s))
<1>1. s \in KState /\ s.prio = r.prio /\ s.cur = r.cur /\ s.list = r.list /\ s.held = r.held
  BY ResetReady
<1>2. s.bits = IF Ready(r, p) = {} THEN r.bits \ {p} ELSE r.bits
  BY DEF taskRESET_READY_PRIORITY, KState
<1>3. \A t \in Task : r.list[t] = "ready" /\ r.prio[t] = p => t \in Ready(r, p)
  BY DEF Ready, InList
<1>4. Lean(r) => Lean(s)
  BY <1>1, <1>2 DEF Lean
<1> QED
  BY <1>1, <1>2, <1>3, <1>4 DEF Ranked, Covered, Top

\* Finding the next time-out leaves the ready list and the bits alone
LEMMA ResetNextRanks ==
    ASSUME NEW r \in KState, NEW s, s = prvResetNextTaskUnblockTime(r)
    PROVE  Ranked(r, s) /\ (Top(r) => Top(s))
<1>1. s \in KState /\ s.prio = r.prio /\ s.cur = r.cur /\ s.list = r.list /\ s.held = r.held
  BY ResetNext
<1>2. s.bits = r.bits
  BY DEF prvResetNextTaskUnblockTime, KState
<1> QED
  BY <1>1, <1>2 DEF Ranked, Covered, Top, Lean

\* The tasks unblocked stay below the running one, unless one preempts it
LEMMA UnblockRanks ==
    ASSUME NEW r \in KState, NEW ts \in SUBSET Task, NEW s, s = Unblock(r, ts)
    PROVE  /\ Ranked(r, s) /\ s.suspended = r.suspended /\ s.pendSV = r.pendSV
           /\ s.yieldPending = r.yieldPending
           /\ Top(r) /\ (r.suspended \/ ~ Preempts(r, ts)) => Top(s)
<1>1. CASE r.suspended
  <2> DEFINE p == r.pendingReady \cup ts
  <2>1. p \in SUBSET Task /\ s = [r EXCEPT !.pendingReady = p]
    BY <1>1, FieldsOf DEF Unblock
  <2> HIDE DEF p
  <2>2. /\ s \in KState /\ s.list = r.list /\ s.cur = r.cur /\ s.suspended = r.suspended
        /\ s.pendSV = r.pendSV /\ s.prio = r.prio /\ s.bits = r.bits
        /\ s.yieldPending = r.yieldPending /\ s.held = r.held
    BY <2>1 DEF KState
  <2> QED
    BY <2>2 DEF Ranked, Covered, Top, Lean
<1>2. CASE ~ r.suspended
  <2>1. s = prvAddTasksToReadyList(r, ts)
    BY <1>2 DEF Unblock
  <2>2. /\ s.suspended = r.suspended /\ s.pendSV = r.pendSV
        /\ s.yieldPending = r.yieldPending
    BY <2>1, AddToReady
  <2>3. ~ Preempts(r, ts) => \A t \in ts : r.prio[t] <= r.prio[r.cur]
    BY Comparable DEF Preempts
  <2> QED
    BY <1>2, <2>1, <2>2, <2>3, AddToReadyRanks
<1> QED
  BY <1>1, <1>2

\* and are remembered in xYieldPending
LEMMA RemovalRanks ==
    ASSUME NEW r \in KState, NEW ts \in SUBSET Task,
           NEW s, s = xTaskRemoveFromEventList(r, ts)
    PROVE  /\ Ranked(r, s) /\ s.suspended = r.suspended /\ s.pendSV = r.pendSV
           /\ r.yieldPending => s.yieldPending
           /\ Top(r) /\ (r.suspended \/ ~ Preempts(r, ts)) => Top(s)
<1> DEFINE u == Unblock(r, ts)  y == u.yieldPending \/ Preempts(r, ts)
<1>1. /\ Ranked(r, u) /\ u.suspended = r.suspended /\ u.pendSV = r.pendSV
      /\ u.yieldPending = r.yieldPending
      /\ Top(r) /\ (r.suspended \/ ~ Preempts(r, ts)) => Top(u)
  BY UnblockRanks
<1>2. y \in BOOLEAN /\ s = [u EXCEPT !.yieldPending = y] /\ (u.yieldPending => y)
  BY DEF xTaskRemoveFromEventList
<1> HIDE DEF u, y
<1>3. /\ s \in KState /\ s.list = u.list /\ s.cur = u.cur /\ s.suspended = u.suspended
      /\ s.pendSV = u.pendSV /\ s.prio = u.prio /\ s.bits = u.bits /\ s.yieldPending = y
      /\ s.held = u.held
  BY <1>1, <1>2 DEF Ranked, KState
<1> QED
  BY <1>1, <1>2, <1>3 DEF Ranked, Covered, Top, Lean

\* A yield settles everything
LEMMA YieldRanks ==
    ASSUME NEW r \in KState, NEW s, s = portYIELD(r)
    PROVE  Ranked(r, s) /\ Settled(s) /\ s.pendSV
<1>1. /\ s \in KState /\ s.list = r.list /\ s.cur = r.cur
      /\ s.pendSV /\ s.prio = r.prio /\ s.bits = r.bits /\ s.held = r.held
  BY DEF portYIELD, KState
<1> QED
  BY <1>1 DEF Ranked, Covered, Settled, Lean

\* The head of an event list preempts at once if it may
LEMMA WakeFirstRanks ==
    ASSUME NEW r \in KState, NEW list \in Seq(Task), NEW s, s = WakeFirst(r, list)
    PROVE  Ranked(r, s) /\ (Settled(r) => Settled(s))
<1>1. CASE list = << >>
  BY <1>1 DEF WakeFirst, Ranked
<1>2. CASE list # << >>
  <2> DEFINE h == {Head(list)}  u == xTaskRemoveFromEventList(r, h)
  <2>1. h \in SUBSET Task
    BY <1>2
  <2>2. s = IF Preempts(r, h) THEN portYIELD(u) ELSE u
    BY <1>2 DEF WakeFirst
  <2> HIDE DEF h
  <2>3. /\ Ranked(r, u) /\ u.suspended = r.suspended /\ u.pendSV = r.pendSV
        /\ r.yieldPending => u.yieldPending
        /\ Top(r) /\ (r.suspended \/ ~ Preempts(r, h)) => Top(u)
    BY <2>1, RemovalRanks
  <2> HIDE DEF u
  <2>4. CASE Preempts(r, h)
    <3>1. Ranked(u, s) /\ Settled(s)
      BY <2>2, <2>3, <2>4, YieldRanks DEF Ranked
    <3> QED
      BY <2>3, <3>1 DEF Ranked
  <2>5. CASE ~ Preempts(r, h)
    BY <2>2, <2>3, <2>5 DEF Settled
  <2> QED
    BY <2>4, <2>5
<1> QED
  BY <1>1, <1>2

---------------------------------------------------------------------------
(* Priorities over time *)

\* A change after which xTaskIncrementTick asks for no switch leaves the running
\* task on top
LEMMA NoSwitch ==
    ASSUME NEW r \in KState, NEW s \in KState, s.prio = r.prio, s.cur = r.cur,
           Top(r), ~ SwitchRequired(r, s)
    PROVE  Top(s)
<1> SUFFICES ASSUME NEW t \in Task, s.list[t] = "ready"
             PROVE  s.prio[t] <= s.prio[s.cur]
  BY DEF Top
<1>1. CASE r.list[t] = "ready"
  BY <1>1 DEF Top
<1>2. CASE r.list[t] # "ready"
  <2>1. t \in InList(s, "ready") \ InList(r, "ready")
    BY <1>2 DEF InList
  <2>2. ~ (r.prio[t] >= r.prio[r.cur])
    BY <2>1 DEF SwitchRequired
  <2> QED
    BY <2>2, Comparable
<1> QED
  BY <1>1, <1>2

\* One tick
LEMMA TickRanks ==
    ASSUME NEW r \in KState, NEW s, s = Tick(r)
    PROVE  /\ Ranked(r, s) /\ s.suspended = r.suspended /\ s.pendSV = r.pendSV
           /\ s.yieldPending = r.yieldPending
<1> DEFINE tick == (r.tick + 1) % TickMod
           k1 == [r EXCEPT !.tick = tick]
           l == [t \in Task |-> CASE k1.list[t] = "delayed"  -> "overflow"
                                  [] k1.list[t] = "overflow" -> "delayed"
                                  [] OTHER -> k1.list[t]]
           u == [k1 EXCEPT !.list = l]
           k2 == IF k1.tick = 0 THEN taskSWITCH_DELAYED_LISTS(k1) ELSE k1
           k3 == prvAddTasksToReadyList(k2, Due(k2))
           Same(v) == /\ Ranked(r, v) /\ v.suspended = r.suspended /\ v.pendSV = r.pendSV
                      /\ v.yieldPending = r.yieldPending
<1>1. tick \in 0 .. TickMod - 1
  <2>1. r.tick + 1 \in Nat
    BY FieldsOf, Numbers
  <2> QED
    BY <2>1, Numbers
<1>2. s = IF k2.tick < k2.next THEN k3 ELSE prvResetNextTaskUnblockTime(k3)
  BY DEF Tick
<1> HIDE DEF tick
<1>3. Same(k1) /\ k1 \in KState
  <2>1. /\ k1 \in KState /\ k1.list = r.list /\ k1.cur = r.cur /\ k1.prio = r.prio
        /\ k1.bits = r.bits /\ k1.suspended = r.suspended /\ k1.pendSV = r.pendSV
        /\ k1.yieldPending = r.yieldPending /\ k1.held = r.held
    BY <1>1 DEF KState
  <2> QED
    BY <2>1 DEF Ranked, Covered, Lean
<1>4. taskSWITCH_DELAYED_LISTS(k1) = prvResetNextTaskUnblockTime(u)
  BY DEF taskSWITCH_DELAYED_LISTS
<1> HIDE DEF k1
<1>5. l \in [Task -> Lists] /\ \A t \in Task : l[t] = "ready" <=> k1.list[t] = "ready"
  BY <1>3, FieldsOf DEF Lists
<1> HIDE DEF l
<1>6. Same(u) /\ u \in KState
  <2>1. /\ u \in KState /\ u.list = l /\ u.cur = k1.cur /\ u.prio = k1.prio
        /\ u.bits = k1.bits /\ u.suspended = k1.suspended /\ u.pendSV = k1.pendSV
        /\ u.yieldPending = k1.yieldPending /\ u.held = k1.held
    BY <1>3, <1>5 DEF KState
  <2>2. Lean(k1) => Lean(u)
    BY <1>5, <2>1 DEF Lean
  <2> QED
    BY <1>3, <1>5, <2>1, <2>2 DEF Ranked, Covered
<1> HIDE DEF u
<1>7. Same(k2) /\ k2 \in KState
  <2> DEFINE v == prvResetNextTaskUnblockTime(u)
  <2>1. Ranked(u, v) /\ v.suspended = u.suspended /\ v.pendSV = u.pendSV
        /\ v.yieldPending = u.yieldPending
    BY <1>6, ResetNextRanks, ResetNext
  <2>2. k2 = v \/ k2 = k1
    BY <1>4
  <2> HIDE DEF v, k2
  <2> QED
    BY <1>3, <1>6, <2>1, <2>2 DEF Ranked
<1> HIDE DEF k2
<1>8. Same(k3) /\ k3 \in KState
  <2>1. Due(k2) \in SUBSET Task
    BY DEF Due, InList
  <2>2. Ranked(k2, k3) /\ k3.suspended = k2.suspended /\ k3.pendSV = k2.pendSV
        /\ k3.yieldPending = k2.yieldPending
    BY <1>7, <2>1, AddToReadyRanks, AddToReady
  <2> QED
    BY <1>7, <2>2 DEF Ranked
<1> HIDE DEF k3
<1> DEFINE v == prvResetNextTaskUnblockTime(k3)
<1>9. Ranked(k3, v) /\ v.suspended = k3.suspended /\ v.pendSV = k3.pendSV
      /\ v.yieldPending = k3.yieldPending
  BY <1>8, ResetNextRanks, ResetNext
<1>10. s = k3 \/ s = v
  BY <1>2
<1> HIDE DEF v
<1> QED
  BY <1>8, <1>9, <1>10 DEF Ranked

\* The tick interrupt asks for a switch if one is due
LEMMA IncrementRanks ==
    ASSUME NEW r \in KState, NEW s, s = xTaskIncrementTick(r), s \in KState
    PROVE  Ranked(r, s) /\ (Settled(r) => Settled(s))
<1>1. CASE r.suspended
  <2> DEFINE p == r.pended + 1  y == r.pendSV \/ r.yieldPending
  <2>1. s = [r EXCEPT !.pended = p, !.pendSV = y]
    BY <1>1 DEF xTaskIncrementTick
  <2>2. r.pendSV => y
    OBVIOUS
  <2> HIDE DEF p, y
  <2>3. /\ s.list = r.list /\ s.cur = r.cur /\ s.suspended = r.suspended
        /\ s.pendSV = y /\ s.prio = r.prio /\ s.bits = r.bits
        /\ s.yieldPending = r.yieldPending /\ s.held = r.held
    BY <2>1 DEF KState
  <2> QED
    BY <2>2, <2>3 DEF Ranked, Covered, Settled, Top, Lean
<1>2. CASE ~ r.suspended
  <2> DEFINE u == Tick(r)  y == u.pendSV \/ SwitchRequired(r, u)
  <2>1. y \in BOOLEAN /\ s = [u EXCEPT !.pendSV = y]
    BY <1>2 DEF xTaskIncrementTick
  <2>2. /\ Ranked(r, u) /\ u.suspended = r.suspended /\ u.pendSV = r.pendSV
    BY TickRanks
  <2>3. ~ y /\ Top(r) => Top(u)
    <3> HIDE DEF u
    <3> QED
      BY <2>2, NoSwitch DEF Ranked
  <2>4. r.pendSV => y
    BY <2>2
  <2> HIDE DEF u, y
  <2>5. /\ s.list = u.list /\ s.cur = u.cur /\ s.pendSV = y /\ s.prio = u.prio
        /\ s.bits = u.bits /\ s.held = u.held
    BY <2>1, <2>2 DEF Ranked, KState
  <2>6. Ranked(r, s)
    BY <2>2, <2>5 DEF Ranked, Covered, Lean
  <2>7. Top(u) => Top(s)
    BY <2>5 DEF Top
  <2> QED
    BY <1>2, <2>1, <2>3, <2>4, <2>5, <2>6, <2>7 DEF Settled
<1> QED
  BY <1>1, <1>2

\* Every pended tick asks for a switch if one is due, or was before
LEMMA PendedRanks ==
    ASSUME NEW r \in KState, NEW s, s = PendedTicks(r)
    PROVE  /\ Ranked(r, s) /\ s.suspended = r.suspended /\ s.pendSV = r.pendSV
           /\ Top(r) \/ r.yieldPending => Top(s) \/ s.yieldPending
<1> DEFINE f == CHOOSE g : PendedRest(r, g)
           Good(v) == /\ Ranked(r, v) /\ v.suspended = r.suspended /\ v.pendSV = r.pendSV
                      /\ Top(r) \/ r.yieldPending => Top(v) \/ v.yieldPending
           Reached == {n \in Nat : n <= MaxPended => Good(f[n])}
<1>1. PendedRest(r, f)
  BY PendedRestExists
<1>2. s = [f[r.pended] EXCEPT !.pended = 0]
  BY PendedTicksDef
<1> HIDE DEF f
<1>3. f[0] = r
  BY <1>1, Numbers DEF PendedRest
<1>4. 0 \in Reached
  BY <1>3 DEF Ranked
<1>5. ASSUME NEW n \in Nat, n \in Reached
      PROVE  n + 1 \in Reached
  <2> SUFFICES ASSUME n + 1 <= MaxPended
               PROVE  Good(f[n + 1])
    OBVIOUS
  <2> DEFINE u == f[n]  v == Tick(u)  y == SwitchRequired(u, v)  w == f[n + 1]
  <2>1. Good(u)
    BY <1>5, Numbers
  <2>2. w = [v EXCEPT !.yieldPending = y]
    <3>1. n + 1 \in 0 .. MaxPended /\ n + 1 # 0 /\ (n + 1) - 1 = n
      BY Numbers
    <3> QED
      BY <1>1, <3>1 DEF PendedRest
  <2>3. y \in BOOLEAN /\ (u.yieldPending => y)
    <3>1. u.yieldPending \in BOOLEAN
      BY <2>1, FieldsOf DEF Ranked
    <3> QED
      BY <3>1 DEF SwitchRequired
  <2> HIDE DEF u, w
  <2>4. /\ Ranked(u, v) /\ v.suspended = u.suspended /\ v.pendSV = u.pendSV
    BY <2>1, TickRanks DEF Ranked
  <2>5. Top(u) /\ ~ y => Top(v)
    <3> HIDE DEF v
    <3> QED
      BY <2>1, <2>4, NoSwitch DEF Ranked
  <2> HIDE DEF v, y
  <2>6. /\ w \in KState /\ w.list = v.list /\ w.cur = v.cur /\ w.pendSV = v.pendSV
        /\ w.prio = v.prio /\ w.bits = v.bits /\ w.suspended = v.suspended
        /\ w.yieldPending = y /\ w.held = v.held
    BY <2>2, <2>3, <2>4 DEF Ranked, KState
  <2>7. Ranked(v, w) /\ (Top(v) => Top(w))
    BY <2>6 DEF Ranked, Covered, Top, Lean
  <2> QED
    BY <2>1, <2>3, <2>4, <2>5, <2>6, <2>7 DEF w, Ranked
<1>6. Nat \subseteq Reached
  <2> HIDE DEF Reached
  <2> QED
    BY ONLY <1>4, <1>5, Induction
<1> DEFINE u == f[r.pended]  none == 0
<1>7. none \in 0 .. MaxPended /\ s = [u EXCEPT !.pended = none] /\ Good(u)
  BY <1>2, <1>6, FieldsOf, Numbers
<1> HIDE DEF u, none
<1>8. /\ s \in KState /\ s.list = u.list /\ s.cur = u.cur /\ s.pendSV = u.pendSV
      /\ s.prio = u.prio /\ s.bits = u.bits /\ s.suspended = u.suspended
      /\ s.yieldPending = u.yieldPending /\ s.held = u.held
  BY <1>7 DEF Ranked, KState
<1>9. Ranked(u, s) /\ (Top(u) => Top(s))
  BY <1>8 DEF Ranked, Covered, Top, Lean
<1> QED
  BY <1>7, <1>8, <1>9 DEF Ranked

\* The end of a suspension
LEMMA ResumeRanks ==
    ASSUME NEW r \in KState, NEW s, s = xTaskResumeAll(r), r.suspended
    PROVE  Ranked(r, s) /\ (Settled(r) => Settled(s))
<1> DEFINE k0 == prvAddTasksToReadyList(r, r.pendingReady)
           y == k0.yieldPending \/ \E t \in r.pendingReady : r.prio[t] >= r.prio[r.cur]
           no == FALSE  none == {}
           k1 == [k0 EXCEPT !.suspended = no, !.pendingReady = none, !.yieldPending = y]
           k2 == IF r.pendingReady = {} THEN k1 ELSE prvResetNextTaskUnblockTime(k1)
           k3 == PendedTicks(k2)
           sv == k3.pendSV \/ k3.yieldPending
<1>1. s = [k3 EXCEPT !.pendSV = sv]
  BY DEF xTaskResumeAll
<1>2. r.pendingReady \in SUBSET Task
  BY FieldsOf
<1>3. /\ Ranked(r, k0) /\ k0.pendSV = r.pendSV /\ k0.yieldPending = r.yieldPending
      /\ Top(r) /\ ~ y => Top(k0)
  <2>1. /\ Ranked(r, k0) /\ k0.pendSV = r.pendSV /\ k0.yieldPending = r.yieldPending
        /\ (Top(r) /\ \A t \in r.pendingReady : r.prio[t] <= r.prio[r.cur]) => Top(k0)
    BY <1>2, AddToReady, AddToReadyRanks
  <2>2. ~ y => \A t \in r.pendingReady : r.prio[t] <= r.prio[r.cur]
    BY <1>2, Comparable
  <2> QED
    BY <2>1, <2>2
<1>4. no \in BOOLEAN /\ none \in SUBSET Task /\ y \in BOOLEAN /\ (r.yieldPending => y)
  <2>1. k0.yieldPending \in BOOLEAN
    BY <1>3, FieldsOf DEF Ranked
  <2> QED
    BY <1>3, <2>1
<1> HIDE DEF k0, no, none, y
<1>5. /\ k1 \in KState /\ k1.pendSV = k0.pendSV /\ k1.yieldPending = y /\ k1.list = k0.list
      /\ k1.cur = k0.cur /\ k1.prio = k0.prio /\ k1.bits = k0.bits /\ k1.held = k0.held
  BY <1>3, <1>4 DEF Ranked, KState
<1>6. Ranked(r, k1) /\ k1.pendSV = r.pendSV /\ k1.yieldPending = y
      /\ (Top(r) \/ r.yieldPending => Top(k1) \/ k1.yieldPending)
  BY <1>3, <1>4, <1>5 DEF Ranked, Covered, Top, Lean
<1> HIDE DEF k1
<1>7. Ranked(k1, k2) /\ k2.pendSV = k1.pendSV /\ k2.yieldPending = k1.yieldPending
      /\ (Top(k1) => Top(k2))
  <2> DEFINE v == prvResetNextTaskUnblockTime(k1)
  <2>1. Ranked(k1, v) /\ v.pendSV = k1.pendSV /\ v.yieldPending = k1.yieldPending
        /\ (Top(k1) => Top(v))
    BY <1>5, ResetNext, ResetNextRanks
  <2>2. k2 = k1 \/ k2 = v
    OBVIOUS
  <2> HIDE DEF v, k2
  <2> QED
    BY <1>5, <2>1, <2>2 DEF Ranked
<1> HIDE DEF k2
<1>8. /\ Ranked(k2, k3) /\ k3.pendSV = k2.pendSV
      /\ Top(k2) \/ k2.yieldPending => Top(k3) \/ k3.yieldPending
  BY <1>7, PendedRanks DEF Ranked
<1> HIDE DEF k3
<1>9. sv \in BOOLEAN /\ (r.pendSV => sv) /\ (k3.yieldPending => sv)
  BY <1>6, <1>7, <1>8, FieldsOf DEF Ranked
<1> HIDE DEF sv
<1>10. /\ s \in KState /\ s.cur = k3.cur /\ s.pendSV = sv /\ s.list = k3.list
       /\ s.prio = k3.prio /\ s.bits = k3.bits /\ s.held = k3.held
  BY <1>1, <1>8, <1>9 DEF Ranked, KState
<1>11. Ranked(k3, s) /\ (Top(k3) => Top(s))
  BY <1>8, <1>10 DEF Ranked, Covered, Top, Lean
<1>12. Ranked(r, s)
  BY <1>6, <1>7, <1>8, <1>11 DEF Ranked
<1> QED
  BY <1>6, <1>7, <1>8, <1>9, <1>10, <1>11, <1>12 DEF Settled

---------------------------------------------------------------------------
(* Priorities and the running task's own steps *)

\* The running task leaves the ready list
LEMMA AddToDelayedRanks ==
    ASSUME NEW r \in KState, NEW ticks \in 0 .. portMAX_DELAY, NEW b \in BOOLEAN,
           NEW s, s = prvAddCurrentTaskToDelayedList(r, ticks, b)
    PROVE  /\ Ranked(r, s) /\ s.suspended = r.suspended /\ s.pendSV = r.pendSV
           /\ s.yieldPending = r.yieldPending /\ (Top(r) => Top(s))
<1> DEFINE wake == (r.tick + ticks) % TickMod
           to == IF ticks = portMAX_DELAY /\ b THEN "suspended"
                 ELSE IF wake < r.tick THEN "overflow" ELSE "delayed"
           l == [r.list EXCEPT ![r.cur] = to]
           r0 == [r EXCEPT !.list = l]
           k1 == taskRESET_READY_PRIORITY(r0, r.prio[r.cur])
           w == IF to = "suspended" THEN 0 ELSE wake
           ws == [k1.wake EXCEPT ![r.cur] = w]
           n == IF to = "delayed" /\ wake < k1.next THEN wake ELSE k1.next
<1>1. s = [k1 EXCEPT !.wake = ws, !.next = n]
  <2>1. r0.cur = r.cur /\ r0.prio = r.prio /\ r0 = [r EXCEPT !.list[r.cur] = to]
    BY DEF KState
  <2>2. k1.cur = r.cur
    BY <2>1 DEF taskRESET_READY_PRIORITY, KState
  <2>3. s = [k1 EXCEPT !.wake[r.cur] = w, !.next = n]
    BY <2>1, <2>2 DEF prvAddCurrentTaskToDelayedList
  <2> HIDE DEF k1, w, n
  <2> QED
    BY <2>3
<1>2. to \in Lists /\ to # "ready"
  BY DEF Lists
<1> HIDE DEF to, ws, n
<1>3. l \in [Task -> Lists]
      /\ \A t \in Task : l[t] = "ready" => t # r.cur /\ r.list[t] = "ready"
  BY <1>2, FieldsOf
<1> HIDE DEF l
<1>4. /\ r0 \in KState /\ r0.list = l /\ r0.prio = r.prio /\ r0.bits = r.bits
      /\ r0.cur = r.cur /\ r0.suspended = r.suspended
      /\ r0.pendSV = r.pendSV /\ r0.yieldPending = r.yieldPending /\ r0.held = r.held
  BY <1>3 DEF KState
<1>5. (Covered(r) => Covered(r0)) /\ (Top(r) => Top(r0))
  BY <1>3, <1>4 DEF Covered, Top
<1>6. /\ Ranked(r0, k1) /\ (Top(r0) => Top(k1)) /\ k1.suspended = r.suspended
      /\ k1.pendSV = r.pendSV /\ k1.yieldPending = r.yieldPending
  <2> HIDE DEF r0
  <2> QED
    BY <1>4, ResetReady, ResetReadyRanks
<1>9. Lean(r) => Lean(k1)
  <2> DEFINE P == r.prio[r.cur]
  <2>1. k1.list = r0.list /\ k1.bits = IF Ready(r0, P) = {} THEN r0.bits \ {P} ELSE r0.bits
    <3> HIDE DEF r0
    <3> QED
      BY <1>4, ResetReady DEF taskRESET_READY_PRIORITY, KState
  <2> HIDE DEF k1
  <2> SUFFICES ASSUME Lean(r), NEW p \in k1.bits
               PROVE  \E t \in Task : k1.list[t] = "ready" /\ k1.prio[t] = p
    BY DEF Lean
  <2>2. k1.prio = r.prio
    BY <1>4, <1>6 DEF Ranked
  <2>3. PICK t \in Task : r.list[t] = "ready" /\ r.prio[t] = p
    BY <1>4, <2>1 DEF Lean
  <2>4. CASE t # r.cur
    <3>1. l[t] = "ready"
      BY <2>3, <2>4, FieldsOf DEF l
    <3> QED
      BY <1>4, <2>1, <2>2, <2>3, <3>1
  <2>5. CASE t = r.cur
    <3>1. Ready(r0, P) # {}
      BY <2>1, <2>3, <2>5
    <3>2. PICK u \in Task : r0.list[u] = "ready" /\ r0.prio[u] = P
      BY <3>1 DEF Ready, InList
    <3> QED
      BY <1>4, <2>1, <2>2, <2>3, <2>5, <3>2
  <2> QED
    BY <2>4, <2>5
<1> HIDE DEF r0
<1> HIDE DEF k1
<1>7. s \in KState
  BY AddToDelayed
<1>8. /\ s.list = k1.list /\ s.prio = k1.prio /\ s.bits = k1.bits
      /\ s.cur = k1.cur /\ s.suspended = k1.suspended
      /\ s.pendSV = k1.pendSV /\ s.yieldPending = k1.yieldPending /\ s.held = k1.held
  BY <1>1, <1>6 DEF Ranked, KState
<1>10. Lean(k1) => Lean(s)
  BY <1>8 DEF Lean
<1> QED
  BY <1>4, <1>5, <1>6, <1>7, <1>8, <1>9, <1>10 DEF Ranked, Covered, Top

\* The list t leaves is not empty without it
NotAlone(r, t) ==
    \/ r.list[t] # "ready"
    \/ \E u \in Task : u # t /\ r.list[u] = "ready" /\ r.prio[u] = r.prio[t]

\* The holder's priority changes, and with it its place in the ready lists
LEMMA MoveRanks ==
    ASSUME NEW r \in KState, NEW t \in Task, NEW p \in Priority, NEW reset,
           NEW s, s = MoveTo(r, t, p, reset)
    PROVE  /\ s \in KState /\ s.list = r.list /\ s.cur = r.cur
           /\ s.suspended = r.suspended /\ s.pendSV = r.pendSV
           /\ s.yieldPending = r.yieldPending /\ s.prio = [r.prio EXCEPT ![t] = p]
           /\ s.held = r.held
           /\ Covered(r) => Covered(s)
           /\ NotAlone(r, t) \/ reset = r.prio[t] => (Lean(r) => Lean(s))
<1> DEFINE ps == [r.prio EXCEPT ![t] = p]
           k1 == [r EXCEPT !.prio = ps]
           l == [k1.list EXCEPT ![t] = "suspended"]
           k2 == [k1 EXCEPT !.list = l]
           k3 == taskRESET_READY_PRIORITY(k2, reset)
           one == {t}
           k4 == prvAddTasksToReadyList(k3, one)
<1>1. s = IF r.list[t] = "ready" THEN k4 ELSE k1
  BY DEF MoveTo, KState
<1>2. ps \in [Task -> Priority] /\ \A u \in Task : u # t => ps[u] = r.prio[u]
  BY FieldsOf
<1> HIDE DEF ps
<1>3. /\ k1 \in KState /\ k1.list = r.list /\ k1.cur = r.cur /\ k1.suspended = r.suspended
      /\ k1.pendSV = r.pendSV /\ k1.yieldPending = r.yieldPending /\ k1.prio = ps
      /\ k1.bits = r.bits /\ k1.held = r.held
  BY <1>2 DEF KState
<1> HIDE DEF k1
<1>4. CASE r.list[t] = "ready"
  <2>1. l \in [Task -> Lists] /\ \A u \in Task : l[u] = IF u = t THEN "suspended" ELSE r.list[u]
    BY <1>3, FieldsOf DEF Lists
  <2> HIDE DEF l
  <2>2. /\ k2 \in KState /\ k2.list = l /\ k2.cur = r.cur /\ k2.suspended = r.suspended
        /\ k2.pendSV = r.pendSV /\ k2.yieldPending = r.yieldPending /\ k2.prio = ps
        /\ k2.bits = r.bits /\ k2.held = r.held
    BY <1>3, <2>1 DEF KState
  <2> HIDE DEF k2
  <2>3. Covered(r) => Covered(k2)
    BY <1>2, <2>1, <2>2 DEF Covered
  <2>4. /\ Ranked(k2, k3) /\ k3.list = l /\ k3.suspended = r.suspended
        /\ k3.pendSV = r.pendSV /\ k3.yieldPending = r.yieldPending
    BY <2>2, ResetReady, ResetReadyRanks
  <2>8. k3.bits = IF Ready(k2, reset) = {} THEN r.bits \ {reset} ELSE r.bits
    BY <2>2 DEF taskRESET_READY_PRIORITY, KState
  <2> HIDE DEF k3
  <2>5. one \in SUBSET Task
    OBVIOUS
  <2>6. /\ Ranked(k3, k4) /\ k4.suspended = r.suspended
        /\ k4.pendSV = r.pendSV /\ k4.yieldPending = r.yieldPending
        /\ \A u \in Task : k4.list[u] = IF u \in one THEN "ready" ELSE k3.list[u]
    <3> HIDE DEF one
    <3> QED
      BY <2>4, <2>5, AddToReady, AddToReadyRanks DEF Ranked
  <2>9. k4.bits = k3.bits \cup {ps[t]}
    BY <2>2, <2>4 DEF prvAddTasksToReadyList, Ranked, KState
  <2>7. k4.list = r.list
    <3>1. \A u \in Task : k4.list[u] = r.list[u]
      BY <1>4, <2>1, <2>4, <2>6
    <3>2. k4.list \in [Task -> Lists] /\ r.list \in [Task -> Lists]
      BY <2>6, FieldsOf DEF Ranked
    <3> HIDE DEF k4
    <3> QED
      BY <3>1, <3>2
  <2> HIDE DEF k4
  <2>10. ASSUME Lean(r), NotAlone(r, t) \/ reset = r.prio[t], NEW x \in k4.bits
         PROVE  \E u \in Task : r.list[u] = "ready" /\ ps[u] = x
    <3>1. CASE x = ps[t]
      BY <1>4, <3>1
    <3>2. CASE x # ps[t]
      <4>1. x \in k3.bits /\ x \in r.bits
        BY <2>8, <2>9, <2>10, <3>2
      <4>2. PICK u \in Task : r.list[u] = "ready" /\ r.prio[u] = x
        BY <2>10, <4>1 DEF Lean
      <4>3. CASE u # t
        BY <1>2, <4>2, <4>3
      <4>4. CASE u = t /\ NotAlone(r, t)
        BY <1>2, <1>4, <4>2, <4>4 DEF NotAlone
      <4>5. CASE u = t /\ reset = r.prio[t]
        <5>1. Ready(k2, reset) # {}
          BY <2>8, <4>1, <4>2, <4>5
        <5>2. PICK v \in Task : k2.list[v] = "ready" /\ k2.prio[v] = reset
          BY <5>1 DEF Ready, InList
        <5> QED
          BY <2>1, <2>2, <4>2, <4>5, <5>2
      <4> QED
        BY <2>10, <4>3, <4>4, <4>5
    <3> QED
      BY <3>1, <3>2
  <2>11. NotAlone(r, t) \/ reset = r.prio[t] => (Lean(r) => Lean(k4))
    BY <2>2, <2>4, <2>6, <2>7, <2>10 DEF Lean, Ranked
  <2> QED
    BY <1>1, <1>4, <2>2, <2>3, <2>4, <2>6, <2>7, <2>11 DEF Ranked, ps
<1>5. CASE r.list[t] # "ready"
  <2>1. Covered(r) => Covered(k1)
    BY <1>2, <1>3, <1>5 DEF Covered
  <2>2. Lean(r) => Lean(k1)
    BY <1>2, <1>3, <1>5 DEF Lean
  <2> QED
    BY <1>1, <1>3, <1>5, <2>1, <2>2 DEF ps
<1> QED
  BY <1>4, <1>5

\* The same flags, lists and priorities, but for those of t
Reranked(r, s, t) ==
    /\ s \in KState /\ s.list = r.list /\ s.cur = r.cur
    /\ s.suspended = r.suspended /\ s.pendSV = r.pendSV
    /\ s.yieldPending = r.yieldPending /\ s.held = r.held
    /\ \A u \in Task : u # t => s.prio[u] = r.prio[u]
    /\ Covered(r) => Covered(s)

\* A task moves to another priority and takes its bit with it
LEMMA MoveIs ==
    ASSUME NEW r \in KState, NEW t \in Task, NEW p \in Priority, NEW reset,
           NEW s, s = MoveTo(r, t, p, reset)
    PROVE  /\ Reranked(r, s, t) /\ s.prio[t] = p
           /\ NotAlone(r, t) \/ reset = r.prio[t] => (Lean(r) => Lean(s))
<1>1. r.prio \in [Task -> Priority]
  BY FieldsOf
<1>2. /\ s \in KState /\ s.list = r.list /\ s.cur = r.cur
      /\ s.suspended = r.suspended /\ s.pendSV = r.pendSV
      /\ s.yieldPending = r.yieldPending /\ s.prio = [r.prio EXCEPT ![t] = p]
      /\ s.held = r.held /\ (Covered(r) => Covered(s))
      /\ NotAlone(r, t) \/ reset = r.prio[t] => (Lean(r) => Lean(s))
  BY MoveRanks
<1> QED
  BY <1>1, <1>2 DEF Reranked

\* A task that stays below the running one, or goes down, unsettles nothing
LEMMA MovedSettles ==
    ASSUME NEW r \in KState, NEW s, NEW t \in Task, Reranked(r, s, t), t # r.cur,
           s.prio[t] <= r.prio[t] \/ s.prio[t] <= r.prio[r.cur]
    PROVE  Settled(r) => Settled(s)
<1>1. \A u \in Task : r.prio[u] \in Int /\ s.prio[u] \in Int
  BY Comparable DEF Reranked
<1>2. r.cur \in Task /\ s.prio[r.cur] = r.prio[r.cur]
  BY Comparable DEF Reranked
<1>3. ASSUME Top(r), NEW u \in Task, s.list[u] = "ready"
      PROVE  s.prio[u] <= s.prio[s.cur]
  <2>1. r.prio[u] <= r.prio[r.cur]
    BY <1>3 DEF Top, Reranked
  <2>2. CASE u = t
    BY <1>1, <1>2, <2>1, <2>2 DEF Reranked
  <2>3. CASE u # t
    BY <1>2, <2>1, <2>3 DEF Reranked
  <2> QED
    BY <2>2, <2>3
<1>4. Top(r) => Top(s)
  BY <1>3 DEF Top
<1> QED
  BY <1>4 DEF Settled, Reranked

\* A holder rises to the running task's priority
LEMMA InheritRanks ==
    ASSUME NEW r \in KState, NEW holder, NEW s, s = xTaskPriorityInherit(r, holder)
    PROVE  /\ (Covered(r) => Covered(s)) /\ (Settled(r) => Settled(s))
           /\ (Lean(r) => Lean(s)) /\ s.held = r.held /\ s.list = r.list
           /\ \A u \in Task :
                 s.prio[u] = IF u = holder /\ r.prio[u] < r.prio[r.cur]
                             THEN r.prio[r.cur] ELSE r.prio[u]
<1>1. CASE holder \in Task /\ r.prio[holder] < r.prio[r.cur]
  <2>1. s = MoveTo(r, holder, r.prio[r.cur], r.prio[holder])
    BY <1>1 DEF xTaskPriorityInherit
  <2>2. r.prio[r.cur] \in Priority /\ r.prio[r.cur] \in Int /\ r.prio \in [Task -> Priority]
    BY Comparable, FieldsOf
  <2>3. Reranked(r, s, holder) /\ s.prio[holder] = r.prio[r.cur] /\ (Lean(r) => Lean(s))
    BY <1>1, <2>1, <2>2, MoveIs
  <2> QED
    BY <1>1, <2>2, <2>3, MovedSettles DEF Reranked
<1>2. CASE ~ (holder \in Task /\ r.prio[holder] < r.prio[r.cur])
  BY <1>2 DEF xTaskPriorityInherit
<1> QED
  BY <1>1, <1>2

\* Giving a mutex back lowers the running task, if it disinherits
LEMMA DisinheritRanks ==
    ASSUME NEW r \in KState, NEW s, s = xTaskPriorityDisinherit(r)
    PROVE  /\ s \in KState /\ s.cur = r.cur
           /\ Covered(r) => Covered(s)
           /\ Lean(r) => Lean(s)
           /\ ~ Disinherits(r) => (Settled(r) => Settled(s))
           /\ \A u \in Task : s.held[u] = IF u = r.cur THEN r.held[u] - 1 ELSE r.held[u]
           /\ \A u \in Task : s.prio[u] = IF u = r.cur /\ Disinherits(r) THEN Base[u]
                                          ELSE r.prio[u]
<1> DEFINE t == r.cur  h == [r.held EXCEPT ![t] = @ - 1]  k1 == [r EXCEPT !.held = h]
<1>0. t \in Task /\ Base[t] \in Priority
  BY FieldsOf, Numbers
<1>1. /\ h \in [Task -> Int] /\ h[t] = r.held[t] - 1 /\ r.held[t] \in Int
      /\ \A u \in Task : u # t => h[u] = r.held[u]
  BY FieldsOf
<1>2. s = IF r.prio[t] # Base[t] /\ h[t] = 0 THEN MoveTo(k1, t, Base[t], r.prio[t]) ELSE k1
  BY DEF xTaskPriorityDisinherit, KState
<1> HIDE DEF h
<1>3. /\ k1 \in KState /\ k1.list = r.list /\ k1.cur = r.cur /\ k1.suspended = r.suspended
      /\ k1.pendSV = r.pendSV /\ k1.yieldPending = r.yieldPending /\ k1.prio = r.prio
      /\ k1.bits = r.bits /\ k1.held = h
  BY <1>1 DEF KState
<1> HIDE DEF k1
<1>4. (Covered(r) => Covered(k1)) /\ (Settled(r) => Settled(k1)) /\ (Lean(r) => Lean(k1))
  BY <1>3 DEF Covered, Settled, Top, Lean
<1>5. CASE Disinherits(r)
  <2>1. s = MoveTo(k1, t, Base[t], r.prio[t])
    BY <1>1, <1>2, <1>5 DEF Disinherits
  <2>2. Reranked(k1, s, t) /\ s.prio[t] = Base[t] /\ (Lean(k1) => Lean(s))
    BY <1>0, <1>3, <2>1, MoveIs
  <2> QED
    BY <1>1, <1>3, <1>4, <1>5, <2>2 DEF Reranked
<1>6. CASE ~ Disinherits(r)
  <2>1. s = k1
    BY <1>1, <1>2, <1>6 DEF Disinherits
  <2> QED
    BY <1>1, <1>3, <1>4, <1>6, <2>1
<1> QED
  BY <1>5, <1>6

\* After a time-out the holder comes down, or goes up, which is noted
LEMMA TimeoutRanks ==
    ASSUME NEW r \in KState, NEW holder, NEW p \in Priority,
           NEW s, s = vTaskPriorityDisinheritAfterTimeout(r, holder, p),
           holder # r.cur
    PROVE  /\ Covered(r) => Covered(s)
           /\ (\A u \in Task : ~ (s.prio[u] > r.prio[u])) => (Settled(r) => Settled(s))
<1> DEFINE m == Max({Base[holder], p})
<1>1. s = r \/ (holder \in Task /\ s = MoveTo(r, holder, m, m))
  BY DEF vTaskPriorityDisinheritAfterTimeout
<1>2. ASSUME holder \in Task
      PROVE  m \in Priority
  <2>0. Base \in [Task -> Priority] /\ Priority \subseteq Int
    BY Numbers
  <2>1. Base[holder] \in Priority /\ Base[holder] \in Int /\ p \in Int
    BY <1>2, <2>0
  <2>2. m = IF Base[holder] >= p THEN Base[holder] ELSE p
    BY <2>1, MaxOfTwo
  <2> QED
    BY <2>1, <2>2
<1> HIDE DEF m
<1>3. ASSUME holder \in Task, s = MoveTo(r, holder, m, m)
      PROVE  /\ Covered(r) => Covered(s)
             /\ (\A u \in Task : ~ (s.prio[u] > r.prio[u])) => (Settled(r) => Settled(s))
  <2>1. Reranked(r, s, holder)
    BY <1>2, <1>3, MoveIs
  <2>2. s.prio[holder] \in Int /\ r.prio[holder] \in Int
    BY <1>3, <2>1, Comparable DEF Reranked
  <2>3. ~ (s.prio[holder] > r.prio[holder]) => s.prio[holder] <= r.prio[holder]
    BY <2>2
  <2> QED
    BY <1>3, <2>1, <2>3, MovedSettles DEF Reranked
<1> QED
  BY <1>1, <1>3

\* and nobody else moves
LEMMA TimeoutMoves ==
    ASSUME NEW r \in KState, NEW holder, NEW p \in Priority,
           NEW s, s = vTaskPriorityDisinheritAfterTimeout(r, holder, p),
           NEW m, holder \in Task => m = IF Base[holder] >= p THEN Base[holder] ELSE p
    PROVE  /\ s.held = r.held /\ s.list = r.list
           /\ \/ s = r /\ ~ (holder \in Task /\ r.prio[holder] # m /\ r.held[holder] = 1)
              \/ /\ holder \in Task /\ r.prio[holder] # m /\ r.held[holder] = 1
                 /\ s.prio[holder] = m
                 /\ \A u \in Task : u # holder => s.prio[u] = r.prio[u]
                 /\ NotAlone(r, holder) => (Lean(r) => Lean(s))
<1>1. CASE holder \notin Task
  BY <1>1 DEF vTaskPriorityDisinheritAfterTimeout
<1>2. CASE holder \in Task
  <2>0. Base \in [Task -> Priority] /\ Priority \subseteq Int
    BY Numbers
  <2>1. Base[holder] \in Priority /\ Base[holder] \in Int /\ p \in Int
    BY <1>2, <2>0
  <2>2. Max({Base[holder], p}) = m /\ m \in Priority
    BY <1>2, <2>1, MaxOfTwo
  <2>3. s = IF r.prio[holder] # m /\ r.held[holder] = 1 THEN MoveTo(r, holder, m, m) ELSE r
    BY <1>2, <2>2 DEF vTaskPriorityDisinheritAfterTimeout
  <2>4. CASE r.prio[holder] # m /\ r.held[holder] = 1
    <3>1. s = MoveTo(r, holder, m, m)
      BY <2>3, <2>4
    <3>2. /\ Reranked(r, s, holder) /\ s.prio[holder] = m
          /\ NotAlone(r, holder) => (Lean(r) => Lean(s))
      BY <1>2, <2>2, <3>1, MoveIs
    <3> QED
      BY <1>2, <2>4, <3>2 DEF Reranked
  <2> QED
    BY <2>3, <2>4
<1> QED
  BY <1>1, <1>2

\* A finite set of priorities has its Max
LEMMA MaxOf ==
    ASSUME NEW S, S \subseteq Priority, S # {}
    PROVE  Max(S) \in S /\ \A p \in S : Max(S) >= p
<1>1. PICK t \in Task : \A u \in Task : Base[t] >= Base[u]
  BY HighestTask
<1> DEFINE D == {Base[t] - p : p \in S}
<1>2. Base[t] \in Nat /\ \A p \in S : p \in Nat /\ Base[t] >= p
  BY <1>1, SchedulerAssumption DEF Priority
<1>3. D \subseteq Nat /\ D # {}
  BY <1>2
<1>4. PICK d \in D : \A e \in D : d <= e
  <2> HIDE DEF D
  <2> QED
    BY ONLY <1>3, Least
<1>5. PICK m \in S : d = Base[t] - m
  BY <1>4
<1>6. \A p \in S : m >= p
  <2> TAKE p \in S
  <2>1. d <= Base[t] - p
    BY <1>4
  <2> QED
    BY <1>2, <1>5, <2>1
<1> QED
  BY <1>5, <1>6 DEF Max

\* The switch goes to one of the highest
LEMMA SwitchRanks ==
    ASSUME NEW r \in KState, NEW t \in Highest(r), Covered(r),
           NEW s, s = vTaskSwitchContext(r, t)
    PROVE  Covered(s) /\ Settled(s) /\ (Lean(r) => Lean(s)) /\ s.prio = r.prio /\ s.held = r.held
<1>1. CASE r.suspended
  <2>1. /\ s.list = r.list /\ s.prio = r.prio /\ s.bits = r.bits /\ s.suspended
        /\ s.yieldPending /\ s.held = r.held
    BY <1>1 DEF vTaskSwitchContext, KState
  <2> QED
    BY <2>1 DEF Covered, Settled, Lean
<1>2. CASE ~ r.suspended
  <2>1. /\ s.list = r.list /\ s.prio = r.prio /\ s.bits = r.bits /\ s.cur = t
        /\ s.held = r.held
    BY <1>2 DEF vTaskSwitchContext, KState
  <2>2. t \in Task /\ r.prio[t] = Max(r.bits) /\ r.list[t] = "ready"
    BY DEF Highest, Ready, InList
  <2>3. r.prio[t] \in r.bits /\ r.bits \subseteq Priority
    BY <2>2, FieldsOf DEF Covered
  <2>4. \A p \in r.bits : Max(r.bits) >= p
    BY <2>3, MaxOf
  <2>5. Top(s)
    <3> SUFFICES ASSUME NEW u \in Task, s.list[u] = "ready"
                 PROVE  s.prio[u] <= s.prio[s.cur]
      BY DEF Top
    <3>1. r.prio[u] \in r.bits
      BY <2>1 DEF Covered
    <3>2. r.prio[u] \in Int /\ r.prio[t] \in Int
      BY <2>2, Comparable
    <3> QED
      BY <2>1, <2>2, <2>4, <3>1, <3>2
  <2> QED
    BY <2>1, <2>5 DEF Covered, Settled, Lean
<1> QED
  BY <1>1, <1>2

---------------------------------------------------------------------------
(* The priorities of the whole system *)

\* A task that takes a mutex does not hold it, and nothing but a mutex is held
HeldByOthers ==
    /\ \A o \in Object : q[o].holder # NULL => Type[o] = "mutex"
    /\ \A t \in Task : (Op(t) \in Receiving /\ Type[Obj(t)] = "mutex")
                       => q[Obj(t)].holder # t

Ranking == Covered(k) /\ (~ missed => Settled(k))

RInv == HeldByOthers /\ Ranking

\* From r to s nothing is uncovered or unsettled
Keeps(r, s) == /\ Covered(r) => Covered(s)
               /\ Settled(r) => Settled(s)
               /\ Lean(r) => Lean(s)

\* Nobody's priority changes, no mutex changes hands, and the same task runs
Steady(r, s) == s.prio = r.prio /\ s.held = r.held /\ s.cur = r.cur

\* A step that changes no priority keeps what the proof needs
LEMMA RankedSettles ==
    ASSUME NEW r, NEW s, Ranked(r, s), Settled(r) => Settled(s)
    PROVE  Keeps(r, s) /\ Steady(r, s)
BY DEF Ranked, Keeps, Steady

\* Going to sleep
LEMMA SuspendSettles ==
    ASSUME WInv, NEW t \in Task, Suspend(t)
    PROVE  Keeps(k, k') /\ Steady(k, k')
<1>1. At(t, "suspend") /\ k' = [k EXCEPT !.suspended = TRUE] /\ k \in KState
  BY DEF WInv, Types, Suspend, vTaskSuspendAll
<1>2. ~ k.suspended /\ ~ k.pendSV
  BY <1>1, AtIs DEF Inside
<1>3. /\ k'.list = k.list /\ k'.prio = k.prio /\ k'.bits = k.bits /\ k'.cur = k.cur
      /\ k'.held = k.held
  BY <1>1 DEF KState
<1> QED
  BY <1>2, <1>3 DEF Keeps, Steady, Covered, Settled, Top, Lean

\* Going into an event list and a delayed one
LEMMA PlaceSettles ==
    ASSUME WInv, NEW t \in Task, Place(t)
    PROVE  Keeps(k, k') /\ Steady(k, k')
<1> DEFINE b == Op(t) # "delay"
<1>1. /\ Types /\ k \in KState
      /\ k' = prvAddCurrentTaskToDelayedList(k, th[t].in.left, b)
  BY DEF WInv, Types, Place
<1>2. th[t].in.left \in 0 .. portMAX_DELAY /\ b \in BOOLEAN
  BY <1>1, ThreadIs
<1> HIDE DEF b
<1>3. /\ Ranked(k, k') /\ k'.suspended = k.suspended /\ k'.pendSV = k.pendSV
      /\ k'.yieldPending = k.yieldPending /\ (Top(k) => Top(k'))
  BY <1>1, <1>2, AddToDelayedRanks
<1> QED
  BY <1>3, RankedSettles DEF Settled

\* Waiting for a notification
LEMMA NotifyTakeSettles ==
    ASSUME WInv, NEW t \in Task, NotifyTake(t)
    PROVE  Keeps(k, k') /\ Steady(k, k')
<1> DEFINE yes == TRUE
           wait == th[t].notified = 0 /\ th[t].in.left > 0
           k1 == prvAddCurrentTaskToDelayedList(k, th[t].in.left, yes)
<1>1. Types /\ k \in KState /\ k' = IF wait THEN portYIELD(k1) ELSE k
  BY DEF WInv, Types, NotifyTake
<1>2. th[t].in.left \in 0 .. portMAX_DELAY /\ yes \in BOOLEAN
  BY <1>1, ThreadIs
<1> HIDE DEF yes
<1>3. Ranked(k, k1)
  BY <1>1, <1>2, AddToDelayedRanks
<1> HIDE DEF k1, wait
<1>4. CASE wait
  <2>1. Ranked(k1, k') /\ Settled(k')
    BY <1>1, <1>3, <1>4, YieldRanks DEF Ranked
  <2> QED
    BY <1>3, <2>1 DEF Ranked, Keeps, Steady
<1>5. CASE ~ wait
  BY <1>1, <1>5 DEF Keeps, Steady
<1> QED
  BY <1>4, <1>5

\* The lock of a queue is given up under the suspended scheduler
LEMMA UnlockSettles ==
    ASSUME WInv, NEW t \in Task, UnlockTx(t) \/ UnlockRx(t)
    PROVE  Keeps(k, k') /\ Steady(k, k')
<1>1. Types /\ k \in KState
  BY DEF WInv, Types
<1>2. PICK pc \in {"unlockTx", "unlockRx"} : At(t, pc)
  BY DEF UnlockTx, UnlockRx
<1>3. k.suspended /\ Obj(t) \in Object
  <2>1. pc \in Inside \ {"place", "resume"}
    BY <1>2 DEF Inside
  <2>2. th[t].in.pc = pc /\ CallPc(th[t].in) /\ k.suspended
    BY <1>2, <2>1, AtIs
  <2> QED
    BY <1>1, <2>1, <2>2, ThreadIs DEF CallPc, Op
<1>4. /\ q[Obj(t)].recv \in Seq(Task) /\ q[Obj(t)].send \in Seq(Task)
      /\ q[Obj(t)].txLock \in Int /\ q[Obj(t)].rxLock \in Int
  BY <1>1, <1>3, ObjectIs, KernelAssumption DEF UNLOCKED
<1>5. PICK ts : ts \in SUBSET Task /\ k' = xTaskRemoveFromEventList(k, ts)
  <2>1. CASE UnlockTx(t)
    BY <1>4, <2>1, WokenIn DEF UnlockTx, In
  <2>2. CASE UnlockRx(t)
    BY <1>4, <2>2, WokenIn DEF UnlockRx, In
  <2> QED
    BY <2>1, <2>2
<1>6. /\ Ranked(k, k') /\ k'.suspended = k.suspended /\ k'.pendSV = k.pendSV
      /\ k.yieldPending => k'.yieldPending
      /\ Top(k) => Top(k')
  BY <1>1, <1>3, <1>5, RemovalRanks
<1> QED
  BY <1>6, RankedSettles DEF Settled

\* The end of a suspension
LEMMA ResumeSettles ==
    ASSUME WInv, NEW t \in Task, Resume(t)
    PROVE  Keeps(k, k') /\ Steady(k, k')
<1>1. k \in KState /\ At(t, "resume") /\ k' = xTaskResumeAll(k)
  BY DEF WInv, Types, Resume
<1>2. k.suspended
  BY <1>1, AtIs DEF Inside
<1> QED
  BY <1>1, <1>2, ResumeRanks, RankedSettles

\* Lending the priority to the holder
LEMMA InheritSettles ==
    ASSUME WInv, NEW t \in Task, Inherit(t)
    PROVE  Keeps(k, k')
BY InheritRanks DEF WInv, Types, Inherit, Keeps

\* Asking for the switch away
LEMMA YieldSettles ==
    ASSUME WInv, NEW t \in Task, Yield(t)
    PROVE  Keeps(k, k') /\ Steady(k, k')
<1>1. k \in KState /\ k' = portYIELD(k)
  BY DEF WInv, Types, Yield
<1> QED
  BY <1>1, YieldRanks DEF Ranked, Keeps, Steady

\* What is found wakes the first that waits for the rest
LEMMA TakenSettles ==
    ASSUME WInv, NEW t \in Task, Receive(t) \/ Peek(t)
    PROVE  /\ Keeps(k, k') /\ k'.prio = k.prio /\ k'.cur = k.cur
           /\ k'.held = IF Receive(t) /\ Type[Obj(t)] = "mutex"
                        THEN [k.held EXCEPT ![k.cur] = @ + 1] ELSE k.held
<1>1. Types /\ k \in KState
  BY DEF WInv, Types
<1>2. Op(t) \in Queueing
  BY DEF Receive, Peek, Queueing, Receiving
<1>3. q[Obj(t)].recv \in Seq(Task) /\ q[Obj(t)].send \in Seq(Task)
  BY <1>1, <1>2, ThreadIs, ObjectIs
<1>4. CASE Receive(t)
  <2> DEFINE mutex == Type[Obj(t)] = "mutex"
             h == IF mutex THEN [k.held EXCEPT ![k.cur] = @ + 1] ELSE k.held
             k1 == pvTaskIncrementMutexHeldCount(k, mutex)
  <2>1. k' = WakeFirst(k1, q[Obj(t)].send)
    BY <1>4 DEF Receive
  <2>2. h \in [Task -> Int] /\ k1 = [k EXCEPT !.held = h]
    BY <1>1, FieldsOf DEF pvTaskIncrementMutexHeldCount, KState
  <2> HIDE DEF k1, h
  <2>3. /\ k1 \in KState /\ k1.list = k.list /\ k1.prio = k.prio /\ k1.bits = k.bits
        /\ k1.cur = k.cur /\ k1.suspended = k.suspended /\ k1.pendSV = k.pendSV
        /\ k1.yieldPending = k.yieldPending
    BY <1>1, <2>2 DEF KState
  <2>4. Keeps(k, k1) /\ k1.held = h
    BY <1>1, <2>2, <2>3 DEF Keeps, Covered, Settled, Top, Lean, KState
  <2>5. Ranked(k1, k') /\ (Settled(k1) => Settled(k'))
    BY <1>3, <2>1, <2>3, WakeFirstRanks
  <2> QED
    BY <1>4, <2>3, <2>4, <2>5 DEF Keeps, Ranked, h
<1>5. CASE Peek(t)
  <2>1. k' = WakeFirst(k, q[Obj(t)].recv)
    BY <1>5 DEF Peek
  <2>2. Keeps(k, k') /\ Steady(k, k')
    BY <1>1, <1>3, <2>1, WakeFirstRanks, RankedSettles
  <2>3. ~ Receive(t)
    BY <1>5 DEF Receive, Peek
  <2> QED
    BY <2>2, <2>3 DEF Steady
<1> QED
  BY <1>4, <1>5

\* Giving a mutex back, unless the switch it asks for is dropped
LEMMA SendSettles ==
    ASSUME WInv, NEW t \in Task, Send(t)
    PROVE  /\ Covered(k) => Covered(k')
           /\ ~ missed' => ~ missed /\ (Settled(k) => Settled(k'))
           /\ Lean(k) => Lean(k')
           /\ k'.cur = k.cur
           /\ \A u \in Task :
                 k'.held[u] = IF u = k.cur /\ Type[Obj(t)] = "mutex"
                              THEN k.held[u] - 1 ELSE k.held[u]
           /\ \A u \in Task :
                 k'.prio[u] = IF u = k.cur /\ Type[Obj(t)] = "mutex" /\ Disinherits(k)
                              THEN Base[u] ELSE k.prio[u]
<1> DEFINE o == Obj(t)
           mutex == Type[o] = "mutex"
           k1 == IF mutex THEN xTaskPriorityDisinherit(k) ELSE k
           list == q[o].recv
<1>1. Types /\ k \in KState /\ Op(t) = "send"
      /\ missed' = (missed \/ (mutex /\ Disinherits(k) /\ ~ k'.pendSV))
  BY DEF WInv, Types, Send
<1>2. list \in Seq(Task)
  BY <1>1, ThreadIs, ObjectIs DEF Queueing, Sending
<1>3. k' = IF list = << >> /\ mutex /\ Disinherits(k) THEN portYIELD(k1) ELSE WakeFirst(k1, list)
  BY DEF Send
<1>4. /\ k1 \in KState /\ k1.cur = k.cur
      /\ Covered(k) => Covered(k1)
      /\ ~ (mutex /\ Disinherits(k)) => (Settled(k) => Settled(k1))
      /\ Lean(k) => Lean(k1)
      /\ \A u \in Task : k1.held[u] = IF u = k.cur /\ mutex THEN k.held[u] - 1 ELSE k.held[u]
      /\ \A u \in Task : k1.prio[u] = IF u = k.cur /\ mutex /\ Disinherits(k) THEN Base[u]
                                      ELSE k.prio[u]
  BY <1>1, DisinheritRanks
<1> HIDE DEF k1
<1>5. Ranked(k1, k') /\ (Settled(k1) => Settled(k'))
  BY <1>2, <1>3, <1>4, YieldRanks, WakeFirstRanks
<1>6. ~ missed' => ~ missed /\ (Settled(k) => Settled(k'))
  <2>1. CASE mutex /\ Disinherits(k)
    BY <1>1, <1>4, <1>5, <2>1 DEF Ranked, Settled
  <2>2. CASE ~ (mutex /\ Disinherits(k))
    BY <1>1, <1>4, <1>5, <2>2 DEF Ranked
  <2> QED
    BY <2>1, <2>2
<1> QED
  BY <1>4, <1>5, <1>6 DEF Ranked

\* The holder a time-out leaves behind is another task
LEMMA DisinheritSettles ==
    ASSUME WInv, HeldByOthers, NEW t \in Task, Disinherit(t)
    PROVE  /\ Covered(k) => Covered(k')
           /\ ~ missed' => ~ missed /\ (Settled(k) => Settled(k'))
<1> DEFINE o == Obj(t)
<1>1. Types /\ At(t, "disinherit") /\ k \in KState
      /\ k' = vTaskPriorityDisinheritAfterTimeout(k, q[o].holder, HighestWaiting(o))
      /\ missed' = (missed \/ \E u \in Task : k'.prio[u] > k.prio[u])
  BY DEF WInv, Disinherit, Types
<1>2. th[t].in.pc = "disinherit" /\ t = k.cur /\ CallPc(th[t].in)
  BY <1>1, AtIs
<1>3. Op(t) \in Receiving /\ o \in Object
  BY <1>1, <1>2, ThreadIs DEF CallPc, Op, Queueing, Sending
<1>4. HighestWaiting(o) \in Priority
  <2>1. q[o].recv \in Seq(Task)
    BY <1>1, <1>3, ObjectIs
  <2>2. q[o].recv # << >> => Head(q[o].recv) \in Task
    BY <2>1
  <2> QED
    BY <1>1, <2>2, FieldsOf, Numbers DEF HighestWaiting
<1>5. q[o].holder # k.cur
  BY <1>2, <1>3, KernelAssumption DEF HeldByOthers
<1> HIDE DEF o
<1>6. /\ Covered(k) => Covered(k')
      /\ (\A u \in Task : ~ (k'.prio[u] > k.prio[u])) => (Settled(k) => Settled(k'))
  BY <1>1, <1>4, <1>5, TimeoutRanks
<1> QED
  BY <1>1, <1>6

\* Interrupts wake tasks that preempt the running one, or do not
LEMMA IsrSettles ==
    ASSUME WInv, Isr
    PROVE  Keeps(k, k') /\ Steady(k, k')
<1>1. PICK c \in IsrCalls : \/ c.op = "send" /\ SendFromISR(c.obj)
                            \/ c.op = "receive" /\ ReceiveFromISR(c.obj)
                            \/ c.op = "notify" /\ vTaskNotifyGiveFromISR(c.obj)
  BY DEF Isr
<1>2. c \in IsrCallSet /\ Types /\ k \in KState
  BY <1>1, KernelAssumption DEF WInv, Types
<1>3. ASSUME NEW list \in Seq(Task), k' = k \/ k' = WakeFirst(k, list)
      PROVE  Keeps(k, k') /\ Steady(k, k')
  <2>1. CASE k' = k
    BY <2>1 DEF Keeps, Steady
  <2>2. CASE k' = WakeFirst(k, list)
    BY <1>2, <2>2, WakeFirstRanks, RankedSettles
  <2> QED
    BY <1>3, <2>1, <2>2
<1>4. CASE c.op \in {"send", "receive"}
  <2>1. c.obj \in Object
    BY <1>2, <1>4 DEF IsrCallSet
  <2>2. q[c.obj].recv \in Seq(Task) /\ q[c.obj].send \in Seq(Task)
    BY <1>2, <2>1, ObjectIs
  <2>3. \/ k' = k \/ k' = WakeFirst(k, q[c.obj].recv) \/ k' = WakeFirst(k, q[c.obj].send)
    BY <1>1, <1>4 DEF SendFromISR, ReceiveFromISR
  <2> QED
    BY <1>3, <2>2, <2>3
<1>5. CASE c.op = "notify"
  <2> DEFINE u == c.obj  us == {u}  k1 == Unblock(k, us)
  <2>1. us \in SUBSET Task
    BY <1>2, <1>5 DEF IsrCallSet
  <2>2. k' = IF ~ th[u].waiting THEN k
             ELSE IF Preempts(k, us) THEN portYIELD(k1) ELSE k1
    BY <1>1, <1>5 DEF vTaskNotifyGiveFromISR
  <2> HIDE DEF us
  <2>3. /\ Ranked(k, k1) /\ k1.suspended = k.suspended /\ k1.pendSV = k.pendSV
        /\ k1.yieldPending = k.yieldPending
        /\ Top(k) /\ (k.suspended \/ ~ Preempts(k, us)) => Top(k1)
    BY <1>2, <2>1, UnblockRanks
  <2> HIDE DEF k1
  <2>4. CASE k' = k
    BY <2>4 DEF Keeps, Steady
  <2>5. CASE Preempts(k, us) /\ k' = portYIELD(k1)
    <3>1. Ranked(k1, k') /\ Settled(k')
      BY <2>3, <2>5, YieldRanks DEF Ranked
    <3> QED
      BY <2>3, <3>1 DEF Ranked, Keeps, Steady
  <2>6. CASE ~ Preempts(k, us) /\ k' = k1
    BY <2>3, <2>6, RankedSettles DEF Settled
  <2> QED
    BY <2>2, <2>4, <2>5, <2>6
<1> QED
  BY <1>1, <1>4, <1>5

\* Every step of a task,
LEMMA StepSettles ==
    ASSUME WInv, NEW t \in Task, Step(t)
    PROVE  /\ Keeps(k, k')
           /\ ~ (Receive(t) \/ Inherit(t)) => Steady(k, k')
<1>1. CASE Receive(t) \/ Peek(t)
  BY <1>1, TakenSettles DEF Steady
<1>2. CASE \/ NotNow(t) \/ prvLockQueue(t) \/ xTaskCheckForTimeOut(t) \/ Recheck(t)
           \/ Delayed(t) \/ Expired(t) \/ Notified(t)
  <2>1. k' = k
    BY <1>2 DEF NotNow, prvLockQueue, xTaskCheckForTimeOut, Recheck, Delayed, Expired,
                Notified
  <2> QED
    BY <2>1 DEF Keeps, Steady
<1>3. CASE Suspend(t) \/ Inherit(t) \/ Place(t) \/ UnlockTx(t) \/ UnlockRx(t)
  BY <1>3, SuspendSettles, InheritSettles, PlaceSettles, UnlockSettles
<1>4. CASE Resume(t) \/ Yield(t) \/ NotifyTake(t)
  BY <1>4, ResumeSettles, YieldSettles, NotifyTakeSettles
<1> QED
  BY <1>1, <1>2, <1>3, <1>4 DEF Step

\* and everything the system does
LEMMA RankingNext ==
    ASSUME WInv, HeldByOthers, Ranking, [Next]_vars
    PROVE  Ranking'
<1>0. k \in KState /\ k' \in KState
  BY InvNext DEF WInv, Types
<1>1. CASE \E t \in Task : Send(t) \/ Disinherit(t)
  <2>1. /\ Covered(k) => Covered(k')
        /\ ~ missed' => ~ missed /\ (Settled(k) => Settled(k'))
    BY <1>1, SendSettles, DisinheritSettles
  <2> QED
    BY <2>1 DEF Ranking
<1>2. CASE PendSV
  <2>1. PICK t \in Highest(k) : k' = vTaskSwitchContext(k, t)
    BY <1>2 DEF PendSV
  <2>2. Covered(k') /\ Settled(k')
    BY <1>0, <2>1, SwitchRanks DEF Ranking
  <2> QED
    BY <2>2 DEF Ranking
<1>3. CASE Keeps(k, k') /\ missed' = missed
  BY <1>3 DEF Keeps, Ranking
<1>4. CASE /\ \/ \E t \in Task : Step(t) \/ \E c \in Calls[t] : Call(t, c)
              \/ Isr \/ SysTick
           /\ missed' = missed
  <2>1. CASE \E t \in Task : Step(t)
    BY <1>3, <1>4, <2>1, StepSettles
  <2>2. CASE \E t \in Task : \E c \in Calls[t] : Call(t, c)
    <3>1. k' = k
      BY <2>2 DEF Call
    <3> QED
      BY <1>3, <1>4, <3>1 DEF Keeps
  <2>3. CASE Isr
    BY <1>3, <1>4, <2>3, IsrSettles
  <2>4. CASE SysTick
    <3>1. k' = xTaskIncrementTick(k)
      BY <2>4 DEF SysTick
    <3> QED
      BY <1>0, <1>3, <1>4, <3>1, IncrementRanks, RankedSettles
  <2> QED
    BY <1>4, <2>1, <2>2, <2>3, <2>4
<1>5. CASE UNCHANGED vars
  <2>1. k' = k /\ missed' = missed
    BY <1>5 DEF vars
  <2> QED
    BY <1>3, <2>1 DEF Keeps
<1> QED
  BY <1>1, <1>2, <1>4, <1>5 DEF Next

\* In the beginning the highest task runs
LEMMA RankingInit ==
    ASSUME Init
    PROVE  RInv
<1>1. k = InitialState /\ \A o \in Object : q[o].holder = NULL
  BY DEF Init
<1>2. \A t \in Task : th[t].in.call.op = "none"
  BY DEF Init, Outside, NoCall
<1>3. HeldByOthers
  BY <1>1, <1>2 DEF HeldByOthers, Op, Receiving
<1> DEFINE c == CHOOSE t \in Task : \A u \in Task : Base[t] >= Base[u]
<1>4. c \in Task /\ \A u \in Task : Base[c] >= Base[u]
  BY HighestTask
<1>5. k.prio = Base /\ k.bits = Priority /\ k.cur = c
  BY <1>1 DEF InitialState
<1> HIDE DEF c
<1>6. \A t \in Task : Base[t] \in Priority /\ Base[t] \in Nat
  BY SchedulerAssumption DEF Priority
<1>7. Covered(k) /\ Top(k)
  BY <1>4, <1>5, <1>6 DEF Covered, Top
<1> QED
  BY <1>3, <1>7 DEF RInv, Ranking, Settled

\* A task outside any call, or in one
LEMMA CallIs ==
    ASSUME NEW f \in [Task -> Thread], NEW t \in Task
    PROVE  /\ f[t].in.call = NoCall \/ (f[t].in.call \in CallSet /\ f[t].in.call # NULL)
           /\ f[t].in.call.op \in Receiving => f[t].in.call.obj \in Object
<1>1. f[t].in.call \in AnyCall
  BY DEF Thread, ThreadType, AnyCall
<1>2. \A u \in Task : Calls[u] \subseteq CallSet
  BY ONLY KernelAssumption DEF KernelAssumption
<1>3. f[t].in.call \in CallSet \cup {NoCall}
  BY <1>1, <1>2 DEF AnyCall
<1>4. \A c \in CallSet \cup {NoCall} : c.op \in Receiving => c.obj \in Object
  BY DEF CallSet, NoCall, Receiving
<1> QED
  BY <1>3, <1>4, KernelAssumption

\* Who holds what is seen from outside the calls: an abstract step keeps it
LEMMA HeldStays ==
    ASSUME Types, Types', HeldByOthers, [Objects!Next]_Objects!vars
    PROVE  HeldByOthers'
<1> DEFINE M == {o \in Object : Type[o] = "mutex"}
           Request(f, t) == IF f[t].in.call.op \in {"none", "notifyTake"} THEN NULL
                            ELSE f[t].in.call
           Held(own) == \A o \in Object : own[o] # NULL => o \in M
           Apart(own, w, t) == (w[t] # NULL /\ w[t].op \in Receiving /\ w[t].obj \in M)
                               => own[w[t].obj] # t
           Asks(t, r) ==
               /\ Owners' = Owners /\ Wants' = [Wants EXCEPT ![t] = r]
               /\ r.obj \in M => (r.op = "send") = (Owners[r.obj] = t)
           Granted(t, o, x) ==
               /\ Owners' = [Owners EXCEPT ![o] = x] /\ Wants' = [Wants EXCEPT ![t] = NULL]
               /\ x = NULL \/ (x = t /\ o \in M)
           Answered(t) == Owners' = Owners /\ Wants' = [Wants EXCEPT ![t] = NULL]
<1>0. th \in [Task -> Thread] /\ th' \in [Task -> Thread]
  BY DEF Types
<1>1. Owners = [o \in Object |-> q[o].holder] /\ Owners' = [o \in Object |-> q'[o].holder]
  BY DEF Owners
<1>2. /\ \A t \in Task : Wants[t] = Request(th, t)
      /\ \A t \in Task : Wants'[t] = Request(th', t)
  BY DEF Wants, Op
<1>3. Held(Owners) /\ \A t \in Task : Apart(Owners, Wants, t)
  <2>1. Held(Owners)
    BY <1>1 DEF HeldByOthers
  <2>2. ASSUME NEW t \in Task, Wants[t] # NULL, Wants[t].op \in Receiving, Wants[t].obj \in M
        PROVE  Owners[Wants[t].obj] # t
    <3>1. Wants[t] = th[t].in.call
      BY <1>2, <2>2
    <3> QED
      BY <1>1, <2>2, <3>1 DEF HeldByOthers, Op, Obj
  <2> QED
    BY <2>1, <2>2
<1>4. \/ Owners' = Owners /\ Wants' = Wants
      \/ \E t \in Task : \E r : Asks(t, r)
      \/ \E t \in Task : \E o, x : Granted(t, o, x)
      \/ \E t \in Task : Answered(t)
  <2>1. CASE \E t \in Task : Objects!Ask(t)
    BY <2>1 DEF Objects!Ask, Owners, Wants
  <2>2. ASSUME NEW t \in Task, Objects!GrantSend(t)
        PROVE  Granted(t, Wants[t].obj, NULL)
    BY <2>2 DEF Objects!GrantSend, Objects!Done, Owners, Wants
  <2>3. ASSUME NEW t \in Task, Objects!GrantTake(t)
        PROVE  Granted(t, Wants[t].obj, IF Wants[t].obj \in M THEN t ELSE NULL)
    BY <2>3 DEF Objects!GrantTake, Objects!Done, Owners, Wants
  <2>4. CASE \E t \in Task : Objects!GrantPeek(t) \/ Objects!Refuse(t)
    BY <2>4 DEF Objects!GrantPeek, Objects!Refuse, Objects!Done, Owners, Wants
  <2>5. CASE Objects!Interrupt \/ Objects!Tick \/ UNCHANGED Objects!vars
    BY <2>5 DEF Objects!Interrupt, Objects!Tick, Objects!vars, Owners, Wants
  <2> HIDE DEF Asks, Granted, Answered
  <2> QED
    BY <2>1, <2>2, <2>3, <2>4, <2>5 DEF Objects!Next
<1>5. Held(Owners') /\ \A t \in Task : Apart(Owners', Wants', t)
  <2>0. DOMAIN Owners = Object /\ DOMAIN Wants = Task /\ NULL \notin Task
    BY KernelAssumption DEF Owners, Wants
  <2>1. CASE Owners' = Owners /\ Wants' = Wants
    BY <1>3, <2>1
  <2>2. ASSUME NEW t \in Task, NEW r, Asks(t, r)
        PROVE  Held(Owners') /\ \A u \in Task : Apart(Owners', Wants', u)
    <3>1. Wants'[t] = r /\ \A u \in Task : u # t => Wants'[u] = Wants[u]
      BY <2>0, <2>2
    <3>2. r.op \in Receiving => r.op # "send"
      BY DEF Receiving
    <3> QED
      BY <1>3, <2>2, <3>1, <3>2
  <2>3. ASSUME NEW t \in Task, NEW o, NEW x, Granted(t, o, x)
        PROVE  Held(Owners') /\ \A u \in Task : Apart(Owners', Wants', u)
    <3>1. Wants'[t] = NULL /\ \A u \in Task : u # t => Wants'[u] = Wants[u]
      BY <2>0, <2>3
    <3>2. \A p \in Object : Owners'[p] = IF p = o THEN x ELSE Owners[p]
      BY <2>0, <2>3
    <3>3. \A u \in Task : u # t => x # u
      BY <2>0, <2>3
    <3> HIDE DEF M
    <3>4. Held(Owners')
      BY <1>3, <2>3, <3>2
    <3>5. M \subseteq Object
      BY DEF M
    <3> QED
      BY <1>3, <3>1, <3>2, <3>3, <3>4, <3>5
  <2>4. ASSUME NEW t \in Task, Answered(t)
        PROVE  Held(Owners') /\ \A u \in Task : Apart(Owners', Wants', u)
    <3>1. Wants'[t] = NULL /\ \A u \in Task : u # t => Wants'[u] = Wants[u]
      BY <2>0, <2>4
    <3> QED
      BY <1>3, <2>4, <3>1
  <2> HIDE DEF Asks, Granted, Answered, Held, Apart
  <2> QED
    BY <1>4, <2>1, <2>2, <2>3, <2>4
<1>6. \A o \in Object : q'[o].holder # NULL => Type[o] = "mutex"
  BY <1>1, <1>5
<1>7. ASSUME NEW t \in Task, th'[t].in.call.op \in Receiving,
             Type[th'[t].in.call.obj] = "mutex"
      PROVE  q'[th'[t].in.call.obj].holder # t
  <2>1. /\ th'[t].in.call = NoCall \/ th'[t].in.call # NULL
        /\ th'[t].in.call.obj \in Object
    BY <1>0, <1>7, CallIs
  <2>2. th'[t].in.call # NoCall /\ th'[t].in.call.op \notin {"none", "notifyTake"}
    BY <1>7 DEF NoCall, Receiving
  <2>3. Wants'[t] = th'[t].in.call
    BY <1>2, <2>2
  <2>4. Apart(Owners', Wants', t)
    BY <1>5
  <2> QED
    BY <1>1, <1>7, <2>1, <2>2, <2>3, <2>4
<1> QED
  BY <1>6, <1>7 DEF HeldByOthers, Op, Obj

\* Whenever no switch is on its way the running task is one of the highest
LEMMA RanksHighest ==
    ASSUME Types, RInv
    PROVE  RunsHighest
BY DEF RInv, Ranking, Settled, Top, RunsHighest, InReady

---------------------------------------------------------------------------
(* Mutexes: who holds one, and who waits for it *)

Mutexes == {o \in Object : Type[o] = "mutex"}

\* A mutex is there when nobody holds it, and its holder alone gives it back
Exclusive ==
    /\ \A o \in Mutexes : q[o].msgs = 0 <=> q[o].holder # NULL
    /\ \A t \in Task : Op(t) = "send" /\ Obj(t) \in Mutexes => q[Obj(t)].holder = t

\* Seen from outside the calls: an abstract step keeps it
LEMMA ExclusiveStays ==
    ASSUME Types, Types', Exclusive, [Objects!Next]_Objects!vars
    PROVE  Exclusive'
<1> DEFINE M == {o \in Object : Type[o] = "mutex"}
           Request(f, t) == IF f[t].in.call.op \in {"none", "notifyTake"} THEN NULL
                            ELSE f[t].in.call
           There(n, own, o) == n[o] = 0 <=> own[o] # NULL
           Gives(own, w, t) == (w[t] # NULL /\ w[t].op = "send" /\ w[t].obj \in M)
                               => own[w[t].obj] = t
           Quiet == \A o \in M : Counts'[o] = Counts[o] /\ Owners'[o] = Owners[o]
           Asks(t, r) == /\ Quiet /\ Wants' = [Wants EXCEPT ![t] = r]
                         /\ r.obj \in M => (r.op = "send") = (Owners[r.obj] = t)
           Granted(t, o, n, x) ==
               /\ Counts' = [Counts EXCEPT ![o] = n] /\ Owners' = [Owners EXCEPT ![o] = x]
               /\ Wants' = [Wants EXCEPT ![t] = NULL]
           Answered(t) == Quiet /\ Wants' = [Wants EXCEPT ![t] = NULL]
<1>0. th \in [Task -> Thread] /\ th' \in [Task -> Thread]
  BY DEF Types
<1>1. /\ Owners = [o \in Object |-> q[o].holder] /\ Owners' = [o \in Object |-> q'[o].holder]
      /\ Counts = [o \in Object |-> q[o].msgs] /\ Counts' = [o \in Object |-> q'[o].msgs]
  BY DEF Owners, Counts
<1>2. /\ \A t \in Task : Wants[t] = Request(th, t)
      /\ \A t \in Task : Wants'[t] = Request(th', t)
  BY DEF Wants, Op
<1>3. /\ \A o \in M : There(Counts, Owners, o)
      /\ \A t \in Task : Gives(Owners, Wants, t)
  <2>1. \A o \in M : There(Counts, Owners, o)
    BY <1>1 DEF Exclusive, Mutexes
  <2>2. ASSUME NEW t \in Task, Wants[t] # NULL, Wants[t].op = "send", Wants[t].obj \in M
        PROVE  Owners[Wants[t].obj] = t
    <3>1. Wants[t] = th[t].in.call
      BY <1>2, <2>2
    <3> QED
      BY <1>1, <2>2, <3>1 DEF Exclusive, Mutexes, Op, Obj
  <2> QED
    BY <2>1, <2>2
<1>4. \A o \in M : Counts[o] \in {0, 1}
  <2> SUFFICES ASSUME NEW o \in M
               PROVE  q[o].msgs \in {0, 1}
    BY <1>1
  <2>1. Length[o] = 1
    BY KernelAssumption
  <2> QED
    BY <2>1, ObjectIs
<1>5. DOMAIN Owners = Object /\ DOMAIN Wants = Task /\ DOMAIN Counts = Object /\ NULL \notin Task
  BY KernelAssumption DEF Owners, Wants, Counts
<1> DEFINE Kept == /\ \A o \in M : There(Counts', Owners', o)
                   /\ \A t \in Task : Gives(Owners', Wants', t)
<1>6. ASSUME NEW t \in Task, NEW r, Asks(t, r)
      PROVE  Kept
  <2>1. Wants'[t] = r /\ \A u \in Task : u # t => Wants'[u] = Wants[u]
    BY <1>5, <1>6
  <2> HIDE DEF M
  <2> QED
    BY <1>3, <1>6, <2>1
<1>7. ASSUME NEW t \in Task, Answered(t)
      PROVE  Kept
  <2>1. Wants'[t] = NULL /\ \A u \in Task : u # t => Wants'[u] = Wants[u]
    BY <1>5, <1>7
  <2> HIDE DEF M
  <2> QED
    BY <1>3, <1>7, <2>1
<1>8. ASSUME NEW t \in Task, NEW o, NEW n, NEW x, Granted(t, o, n, x),
             o \in M => (n = 0 <=> x # NULL),
             o \in M => Owners[o] \in {NULL, t}
      PROVE  Kept
  <2>1. Wants'[t] = NULL /\ \A u \in Task : u # t => Wants'[u] = Wants[u]
    BY <1>5, <1>8
  <2>2. \A p \in Object : /\ Owners'[p] = IF p = o THEN x ELSE Owners[p]
                          /\ Counts'[p] = IF p = o THEN n ELSE Counts[p]
    BY <1>5, <1>8
  <2>3. M \subseteq Object
    OBVIOUS
  <2> HIDE DEF M
  <2>4. \A p \in M : There(Counts', Owners', p)
    BY <1>3, <1>8, <2>2, <2>3
  <2>5. ASSUME NEW u \in Task, Wants'[u] # NULL, Wants'[u].op = "send", Wants'[u].obj \in M
        PROVE  Owners'[Wants'[u].obj] = u
    <3>1. u # t /\ Wants'[u] = Wants[u] /\ Owners[Wants[u].obj] = u
      BY <1>3, <2>1, <2>5
    <3> QED
      BY <1>5, <1>8, <2>2, <2>3, <2>5, <3>1
  <2> QED
    BY <2>4, <2>5
<1>9. Kept
  <2>1. ASSUME NEW t \in Task, Objects!Ask(t)
        PROVE  Kept
    <3>1. \E r : Asks(t, r)
      BY <2>1 DEF Objects!Ask, Owners, Wants, Counts
    <3> HIDE DEF Asks, Kept
    <3> QED
      BY <1>6, <3>1
  <2>2. ASSUME NEW t \in Task, Objects!GrantSend(t)
        PROVE  Kept
    <3> DEFINE o == Wants[t].obj  n == Counts[o] + 1
    <3>1. Granted(t, o, n, NULL) /\ Wants[t] # NULL /\ Wants[t].op = "send"
      BY <2>2 DEF Objects!GrantSend, Objects!Done, Owners, Wants, Counts
    <3>2. o \in M => n # 0 /\ Owners[o] = t
      BY <1>3, <1>4, <3>1
    <3> HIDE DEF Granted, Kept, M, o, n
    <3> QED
      BY <1>8, <3>1, <3>2
  <2>3. ASSUME NEW t \in Task, Objects!GrantTake(t)
        PROVE  Kept
    <3> DEFINE o == Wants[t].obj  n == Counts[o] - 1  x == IF o \in M THEN t ELSE NULL
    <3>1. Granted(t, o, n, x) /\ Counts[o] > 0
      BY <2>3 DEF Objects!GrantTake, Objects!Done, Owners, Wants, Counts
    <3>2. o \in M => n = 0 /\ Owners[o] = NULL /\ x = t
      BY <1>3, <1>4, <3>1
    <3> HIDE DEF Granted, Kept, M, o, n, x
    <3> QED
      BY <1>5, <1>8, <3>1, <3>2
  <2>4. ASSUME NEW t \in Task, Objects!GrantPeek(t) \/ Objects!Refuse(t)
        PROVE  Kept
    <3>1. Answered(t)
      BY <2>4 DEF Objects!GrantPeek, Objects!Refuse, Objects!Done, Owners, Wants, Counts
    <3> HIDE DEF Answered, Kept
    <3> QED
      BY <1>7, <3>1
  <2>5. CASE Objects!Interrupt \/ Objects!Tick \/ UNCHANGED Objects!vars
    <3>1. Quiet
      <4>1. CASE Objects!Interrupt
        <5>1. PICK o \in Object \ M : /\ \E n : Counts' = [Counts EXCEPT ![o] = n]
                                      /\ Owners' = Owners
          BY <4>1 DEF Objects!Interrupt, Owners, Counts
        <5> QED
          BY <5>1
      <4>2. CASE Objects!Tick \/ UNCHANGED Objects!vars
        BY <4>2 DEF Objects!Tick, Objects!vars, Owners, Counts
      <4> QED
        BY <2>5, <4>1, <4>2
    <3>2. Wants' = Wants
      BY <2>5 DEF Objects!Interrupt, Objects!Tick, Objects!vars, Wants
    <3> HIDE DEF M
    <3> QED
      BY <1>3, <3>1, <3>2
  <2> HIDE DEF Kept
  <2> QED
    BY <2>1, <2>2, <2>3, <2>4, <2>5 DEF Objects!Next
<1>10. \A o \in Mutexes : q'[o].msgs = 0 <=> q'[o].holder # NULL
  BY <1>1, <1>9 DEF Mutexes
<1>11. ASSUME NEW t \in Task, th'[t].in.call.op = "send", th'[t].in.call.obj \in Mutexes
       PROVE  q'[th'[t].in.call.obj].holder = t
  <2>1. /\ th'[t].in.call = NoCall \/ th'[t].in.call # NULL
        /\ th'[t].in.call.obj \in Object
    BY <1>0, <1>11, CallIs DEF Mutexes
  <2>2. th'[t].in.call # NoCall /\ th'[t].in.call.op \notin {"none", "notifyTake"}
    BY <1>11 DEF NoCall
  <2>3. Wants'[t] = th'[t].in.call
    BY <1>2, <2>2
  <2>4. Gives(Owners', Wants', t)
    BY <1>9
  <2> QED
    BY <1>1, <1>11, <2>1, <2>2, <2>3, <2>4 DEF Mutexes
<1> QED
  BY <1>10, <1>11 DEF Exclusive, Op, Obj

\* An event list in the order of the tasks' own priorities
Falling(list) == \A i, j \in DOMAIN list : i <= j => Base[list[i]] >= Base[list[j]]

\* The own priorities can be compared
LEMMA BaseIs == \A t \in Task : Base[t] \in Int /\ Base[t] \in Priority
<1>1. Base \in [Task -> Priority] /\ Priority \subseteq Int
  BY Numbers
<1> QED
  BY <1>1

\* Its head is one of the highest, and the rest is in order,
LEMMA FallingHead ==
    ASSUME NEW list \in Seq(Task), Falling(list), list # << >>
    PROVE  /\ Head(list) \in Task /\ Head(list) \in In(list)
           /\ \A s \in In(list) : Base[Head(list)] >= Base[s]
           /\ Falling(Tail(list))
<1>1. Len(list) \in Nat /\ Len(list) # 0 /\ DOMAIN list = 1 .. Len(list) /\ Head(list) = list[1]
  OBVIOUS
<1>2. 1 \in DOMAIN list /\ \A i \in DOMAIN list : 1 <= i
  BY <1>1
<1>3. \A s \in In(list) : Base[Head(list)] >= Base[s]
  BY <1>1, <1>2 DEF Falling, In
<1>4. DOMAIN Tail(list) = 1 .. Len(list) - 1 /\ \A i \in 1 .. Len(list) - 1 : Tail(list)[i] = list[i + 1]
  BY <1>1
<1>5. Falling(Tail(list))
  <2> SUFFICES ASSUME NEW i \in 1 .. Len(list) - 1, NEW j \in 1 .. Len(list) - 1, i <= j
               PROVE  Base[Tail(list)[i]] >= Base[Tail(list)[j]]
    BY <1>4 DEF Falling
  <2>1. i + 1 \in DOMAIN list /\ j + 1 \in DOMAIN list /\ i + 1 <= j + 1
    BY <1>1
  <2> QED
    BY <1>4, <2>1 DEF Falling
<1> QED
  BY <1>1, <1>2, <1>3, <1>5 DEF In

\* what is left of it without some of the tasks is
LEMMA FallingWithout ==
    ASSUME NEW list \in Seq(Task), Falling(list), NEW ts
    PROVE  Falling(Without(list, ts))
<1> DEFINE rest == CHOOSE r : WithoutRest(list, ts, r)
    Before(n) == {list[i] : i \in 1 .. n}
    Good(l, n) == l \in Seq(Task) /\ In(l) \subseteq Before(n) /\ Falling(l)
    Reached == {n \in Nat : n <= Len(list) => Good(rest[n], n)}
<1>0. Len(list) \in Nat /\ DOMAIN list = 1 .. Len(list)
  OBVIOUS
<1>1. WithoutRest(list, ts, rest)
  BY <1>0, WithoutRestExists
<1> HIDE DEF rest
<1>2. \A i \in 0 .. Len(list) :
        rest[i] = IF i = 0 THEN << >>
                  ELSE IF list[i] \in ts THEN rest[i - 1] ELSE Append(rest[i - 1], list[i])
  BY <1>1 DEF WithoutRest
<1>3. 0 \in Reached
  <2>1. rest[0] = << >>
    BY <1>0, <1>2
  <2>2. Good(<< >>, 0)
    BY DEF In, Falling
  <2> QED
    BY <2>1, <2>2
<1>4. ASSUME NEW n \in Nat, n \in Reached
      PROVE  n + 1 \in Reached
  <2> SUFFICES ASSUME n + 1 <= Len(list)
               PROVE  Good(rest[n + 1], n + 1)
    OBVIOUS
  <2> DEFINE l == rest[n]  x == list[n + 1]
  <2>1. Good(l, n) /\ n + 1 \in DOMAIN list /\ x \in Task
    BY <1>0, <1>4
  <2>2. rest[n + 1] = IF x \in ts THEN l ELSE Append(l, x)
    BY <1>0, <1>2
  <2>3. Before(n) \subseteq Before(n + 1) /\ x \in Before(n + 1)
    BY <2>1
  <2>4. \A y \in In(l) : Base[y] >= Base[x]
    <3> TAKE y \in In(l)
    <3>1. PICK i \in 1 .. n : y = list[i]
      BY <2>1
    <3>2. i \in DOMAIN list /\ i <= n + 1
      BY <1>0, <3>1
    <3> QED
      BY <2>1, <3>1, <3>2 DEF Falling
  <2> HIDE DEF l, x, Before
  <2>5. CASE x \in ts
    BY <2>1, <2>2, <2>3, <2>5
  <2>6. CASE x \notin ts
    <3> DEFINE a == Append(l, x)  m == Len(l)
    <3>1. /\ m \in Nat /\ DOMAIN l = 1 .. m /\ a \in Seq(Task) /\ DOMAIN a = 1 .. m + 1
          /\ a[m + 1] = x /\ \A i \in 1 .. m : a[i] = l[i]
      BY <2>1
    <3> HIDE DEF a, m
    <3>2. In(a) \subseteq Before(n + 1)
      <4> SUFFICES ASSUME NEW i \in 1 .. m + 1
                   PROVE  a[i] \in Before(n + 1)
        BY <3>1 DEF In
      <4>1. i \in 1 .. m \/ i = m + 1
        BY <3>1
      <4> QED
        BY <2>1, <2>3, <3>1, <4>1 DEF In
    <3>3. Falling(a)
      <4> SUFFICES ASSUME NEW i \in 1 .. m + 1, NEW j \in 1 .. m + 1, i <= j
                   PROVE  Base[a[i]] >= Base[a[j]]
        BY <3>1 DEF Falling
      <4>1. CASE j \in 1 .. m
        <5>1. i \in 1 .. m
          BY <3>1, <4>1
        <5> QED
          BY <2>1, <3>1, <4>1, <5>1 DEF Falling
      <4>2. CASE j = m + 1 /\ i \in 1 .. m
        BY <2>4, <3>1, <4>2 DEF In
      <4>3. CASE j = m + 1 /\ i = m + 1
        BY <2>1, <3>1, <4>3, BaseIs
      <4> QED
        BY <3>1, <4>1, <4>2, <4>3
    <3>4. rest[n + 1] = a
      BY <2>2, <2>6 DEF a
    <3> QED
      BY <3>1, <3>2, <3>3, <3>4
  <2> QED
    BY <2>5, <2>6
<1>5. Nat \subseteq Reached
  <2> HIDE DEF Reached
  <2> QED
    BY ONLY <1>3, <1>4, Induction
<1>6. Falling(rest[Len(list)])
  BY <1>0, <1>5
<1>7. Without(list, ts) = rest[Len(list)]
  BY WithoutDef DEF rest
<1> QED
  BY <1>6, <1>7

\* and so is the list with a task put in by its priority, when all have their own
LEMMA FallingPlaced ==
    ASSUME k \in KState, NEW list \in Seq(Task), Falling(list), NEW t \in Task,
           k.prio[t] = Base[t], \A s \in In(list) : k.prio[s] = Base[s]
    PROVE  Falling(PlaceInOrder(list, t))
<1> DEFINE lower == {i \in DOMAIN list : k.prio[list[i]] < k.prio[t]}
           n == Len(list)  p == IF lower = {} THEN n + 1 ELSE Min(lower)
           a == SubSeq(list, 1, p - 1)  b == SubSeq(list, p, n)  e == <<t>>
           c == a \o e  new == c \o b
<1>1. n \in Nat /\ DOMAIN list = 1 .. n /\ lower \subseteq 1 .. n
  OBVIOUS
<1>2. /\ p \in 1 .. n + 1
      /\ \A i \in 1 .. n : i < p => ~ (k.prio[list[i]] < k.prio[t])
      /\ p \in 1 .. n => k.prio[list[p]] < k.prio[t]
  <2>1. CASE lower = {}
    BY <1>1, <2>1
  <2>2. CASE lower # {}
    <3>1. lower \subseteq Nat
      BY <1>1
    <3>2. p \in lower /\ \A i \in lower : p <= i
      <4>1. p = Min(lower)
        BY <2>2
      <4> HIDE DEF lower, p
      <4> QED
        BY ONLY <2>2, <3>1, <4>1, MinOf, MinLeast
    <3> HIDE DEF p
    <3> QED
      BY <1>1, <3>2
  <2> QED
    BY <2>1, <2>2
<1>3. PlaceInOrder(list, t) = new
  BY DEF PlaceInOrder
<1>4. \A i \in 1 .. n : list[i] \in Task /\ k.prio[list[i]] = Base[list[i]] /\ Base[list[i]] \in Int
  BY <1>1, BaseIs DEF In
<1>5. Base[t] \in Int
  BY BaseIs
<1> HIDE DEF lower, p, n
<1>6. /\ \A i \in 1 .. n : i < p => Base[list[i]] >= Base[t]
      /\ \A i \in 1 .. n : i >= p => Base[list[i]] < Base[t]
  <2>1. \A i \in 1 .. n : i < p => Base[list[i]] >= Base[t]
    BY <1>2, <1>4, <1>5
  <2>2. ASSUME NEW i \in 1 .. n, i >= p
        PROVE  Base[list[i]] < Base[t]
    <3>1. p \in 1 .. n
      BY <1>1, <1>2, <2>2
    <3>2. Base[list[p]] >= Base[list[i]]
      BY <1>1, <2>2, <3>1 DEF Falling
    <3> QED
      BY <1>2, <1>4, <1>5, <3>1, <3>2
  <2> QED
    BY <2>1, <2>2
<1>7. DOMAIN new = 1 .. n + 1 /\ \A i \in 1 .. n + 1 :
          new[i] = IF i < p THEN list[i] ELSE IF i = p THEN t ELSE list[i - 1]
  <2>1. a \in Seq(Task) /\ Len(a) = p - 1 /\ \A i \in 1 .. p - 1 : a[i] = list[i]
    BY <1>1, <1>2, <1>4 DEF n
  <2>2. b \in Seq(Task) /\ Len(b) = n - p + 1
        /\ \A i \in 1 .. n - p + 1 : b[i] = list[p + i - 1]
    BY <1>1, <1>2, <1>4 DEF n
  <2>3. e \in Seq(Task) /\ Len(e) = 1 /\ e[1] = t
    OBVIOUS
  <2> HIDE DEF a, b, e
  <2>4. /\ c \in Seq(Task) /\ Len(c) = Len(a) + Len(e)
        /\ \A i \in 1 .. Len(a) : c[i] = a[i]
        /\ \A i \in 1 .. Len(a) + Len(e) : i > Len(a) => c[i] = e[i - Len(a)]
    BY ONLY <2>1, <2>3, JoinedItems DEF c
  <2>5. c \in Seq(Task) /\ Len(c) = p /\ c[p] = t /\ \A i \in 1 .. p - 1 : c[i] = list[i]
    <3>1. (p - 1) + 1 = p /\ p > p - 1 /\ p - (p - 1) = 1 /\ p \in 1 .. p
      BY ONLY <1>1, <1>2
    <3> QED
      BY ONLY ZenonT(40), <2>1, <2>3, <2>4, <3>1
  <2> HIDE DEF c
  <2>6. /\ new \in Seq(Task) /\ Len(new) = Len(c) + Len(b)
        /\ \A i \in 1 .. Len(c) : new[i] = c[i]
        /\ \A i \in 1 .. Len(c) + Len(b) : i > Len(c) => new[i] = b[i - Len(c)]
    BY ONLY <2>2, <2>5, JoinedItems DEF new
  <2> HIDE DEF new
  <2>7. Len(new) = n + 1 /\ DOMAIN new = 1 .. n + 1
    BY <1>1, <1>2, <2>2, <2>5, <2>6
  <2>8. ASSUME NEW i \in 1 .. n + 1
        PROVE  new[i] = IF i < p THEN list[i] ELSE IF i = p THEN t ELSE list[i - 1]
    <3>1. CASE i < p
      <4>1. i \in 1 .. p - 1 /\ i \in 1 .. p
        BY <1>1, <1>2, <3>1
      <4> QED
        BY <2>5, <2>6, <3>1, <4>1
    <3>2. CASE i = p
      BY <1>2, <2>5, <2>6, <3>2
    <3>3. CASE i > p
      <4>1. /\ i \in 1 .. p + (n - p + 1) /\ i - p \in 1 .. n - p + 1
            /\ p + (i - p) - 1 = i - 1
        BY <1>1, <1>2, <3>3
      <4> QED
        BY <2>2, <2>5, <2>6, <3>3, <4>1
    <3> QED
      BY <1>1, <1>2, <3>1, <3>2, <3>3
  <2> QED
    BY <2>7, <2>8
<1> HIDE DEF new
<1>8. Falling(new)
  <2> SUFFICES ASSUME NEW i \in 1 .. n + 1, NEW j \in 1 .. n + 1, i <= j
               PROVE  Base[new[i]] >= Base[new[j]]
    BY <1>7 DEF Falling
  <2>1. \A x \in 1 .. n + 1 : /\ x < p => x \in 1 .. n
                              /\ x > p => x - 1 \in 1 .. n /\ x - 1 >= p
    BY <1>1, <1>2
  <2>0. \A x, y \in 1 .. n : x <= y => Base[list[x]] >= Base[list[y]]
    BY <1>1 DEF Falling
  <2>2. CASE j < p
    <3>1. i < p
      BY <1>2, <2>2
    <3>2. new[i] = list[i] /\ new[j] = list[j] /\ i \in 1 .. n /\ j \in 1 .. n
      BY <1>7, <2>1, <2>2, <3>1
    <3> QED
      BY <2>0, <3>2
  <2>3. CASE j = p
    BY <1>5, <1>6, <1>7, <2>1, <2>3
  <2>4. CASE j > p
    <3>1. CASE i < p
      <4>1. i \in 1 .. n /\ j - 1 \in 1 .. n /\ i <= j - 1
        BY <1>1, <1>2, <2>1, <2>4, <3>1
      <4>2. new[i] = list[i] /\ new[j] = list[j - 1]
        BY <1>2, <1>7, <2>4, <3>1
      <4> QED
        BY <2>0, <4>1, <4>2
    <3>2. CASE i = p
      BY <1>4, <1>5, <1>6, <1>7, <2>1, <2>4, <3>2
    <3>3. CASE i > p
      <4>1. i - 1 \in 1 .. n /\ j - 1 \in 1 .. n /\ i - 1 <= j - 1
        BY <1>1, <1>2, <2>1, <2>4, <3>3
      <4>2. new[i] = list[i - 1] /\ new[j] = list[j - 1]
        BY <1>2, <1>7, <2>4, <3>3
      <4> QED
        BY <2>0, <4>1, <4>2
    <3> QED
      BY <1>2, <3>1, <3>2, <3>3
  <2> QED
    BY <1>2, <2>2, <2>3, <2>4
<1> QED
  BY <1>3, <1>8

Uses(t, o) == \E c \in Calls[t] : c.obj = o

\* No task uses two mutexes
OneMutexEach == \A t \in Task : \A o, p \in Mutexes : Uses(t, o) /\ Uses(t, p) => o = p

Takes(t, o) == Op(t) = "take" /\ Obj(t) = o

\* A task that takes the mutex o, or goes to sleep again, or finds its time over
\* while somebody holds it
Looks(t, o) == Takes(t, o) /\ t \notin In(q[o].recv) /\ th[t].in.pc # "disinherit"

\* A task that has lent its priority, and takes it back before it gives up
Lends(in) == in.inherited /\ ~ (in.pc = "try" /\ in.left = 0)
Backs(t, o) == Takes(t, o) /\ Lends(th[t].in)

\* The holder h knows of the waiter t
Known(t, h) == k.prio[h] >= Base[t] /\ (Base[t] > Base[h] => th[t].in.inherited)

\* The waiters of a mutex stand in the order of their own priorities, with time
\* left.  Nobody holds it: an awake task is about to take it for each of them.
\* Somebody does: he runs at least at the priority of each and of the one about
\* to sleep, and if he is raised, at that of one that has lent its own
Group(o) ==
    LET h == q[o].holder  list == q[o].recv
    IN  /\ Falling(list) /\ \A s \in In(list) : th[s].in.left # 0
        /\ \A t \in Task : Takes(t, o) /\ th[t].in.pc \in {"inherit", "place"} => h # NULL
        /\ h = NULL => \A s \in In(list) : \E w \in Task : Looks(w, o) /\ Base[w] >= Base[s]
        /\ h # NULL =>
              /\ \A s \in In(list) : Known(s, h)
              /\ \A t \in Task : Takes(t, o) /\ th[t].in.pc = "place" => Known(t, h)
              /\ k.prio[h] > Base[h] => \E u \in Task : Backs(u, o) /\ Base[u] = k.prio[h]

Grouped == \A o \in Mutexes : Group(o)

\* A task is in one of its own calls, and holds what it uses, which is counted,
Owned ==
    /\ \A t \in Task : th[t].in.call \in Calls[t] \cup {NoCall}
    /\ \A o \in Mutexes : q[o].holder # NULL => Uses(q[o].holder, o)

Counted == \A t \in Task : k.held[t] = IF \E o \in Mutexes : q[o].holder = t THEN 1 ELSE 0

\* and runs above its own priority only then
Raised == \A t \in Task : /\ k.prio[t] >= Base[t]
                          /\ k.prio[t] # Base[t] => \E o \in Mutexes : q[o].holder = t

\* A call that will look again has time left; one that gives up its lock knows why
Lasting(in) ==
    /\ (in.pc = "yield" /\ in.call.op \in Queueing) \/ in.after \in {"block", "retry"}
           => in.left # 0
    /\ in.pc \in {"unlockTx", "unlockRx", "resume"} => in.after \in {"block", "retry", "expired"}

\* A task that has missed its switch is alone with its mutex
Missed ==
    missed => \A o \in Mutexes : Uses(k.cur, o) =>
        /\ q[o].holder \in {NULL, k.cur}
        /\ \A s \in In(q[o].recv) : Base[s] <= Base[k.cur]

Lending == /\ Owned /\ Counted /\ Raised
           /\ \A t \in Task : Lasting(th[t].in)
           /\ Grouped /\ Missed

MInv == Exclusive /\ Lean(k) /\ Lending

\* What task u does is no harm to the group of the mutex o
Follows(u, o) ==
    LET h == q[o].holder
    IN  /\ h = NULL /\ Looks(u, o) => Looks(u, o)'
        /\ u \in In(q'[o].recv) => /\ u \in In(q[o].recv)
                                   /\ th'[u].in.left = th[u].in.left
                                   /\ th'[u].in.inherited = th[u].in.inherited
        /\ Takes(u, o)' /\ th'[u].in.pc \in {"inherit", "place"} => h # NULL
        /\ Takes(u, o)' /\ th'[u].in.pc = "place" =>
              /\ Takes(u, o) /\ th[u].in.pc = "place"
              /\ th'[u].in.inherited = th[u].in.inherited
        /\ h # NULL /\ Base[u] > Base[h] /\ Backs(u, o) => Backs(u, o)'

\* A step in which the mutex o stays where it is, with its holder's priority,
\* and nobody new waits
LEMMA GroupStays ==
    ASSUME NEW o \in Mutexes, Group(o), q'[o].holder = q[o].holder,
           q[o].holder # NULL => k'.prio[q[o].holder] = k.prio[q[o].holder],
           q[o].holder \in Task \cup {NULL}, q[o].recv \in Seq(Task), q'[o].recv \in Seq(Task),
           k \in KState, Falling(q'[o].recv), \A u \in Task : Follows(u, o)
    PROVE  Group(o)'
<1> DEFINE h == q[o].holder
<1>0. /\ In(q[o].recv) \subseteq Task /\ In(q'[o].recv) \subseteq Task
      /\ \A t \in Task : Base[t] \in Int /\ k.prio[t] \in Int
  BY BaseIs, Comparable DEF In
<1>1. \A s \in In(q'[o].recv) : th'[s].in.left # 0
  BY <1>0 DEF Follows, Group
<1>2. \A t \in Task : Takes(t, o)' /\ th'[t].in.pc \in {"inherit", "place"} => h # NULL
  BY DEF Follows
<1>3. ASSUME h = NULL, NEW s \in In(q'[o].recv)
      PROVE  \E w \in Task : Looks(w, o)' /\ Base[w] >= Base[s]
  <2>1. s \in In(q[o].recv)
    BY <1>0 DEF Follows
  <2>2. PICK w \in Task : Looks(w, o) /\ Base[w] >= Base[s]
    BY <1>3, <2>1 DEF Group
  <2> QED
    BY <1>3, <2>2 DEF Follows
<1>4. ASSUME h # NULL
      PROVE  /\ \A s \in In(q'[o].recv) : Known(s, h)'
             /\ \A t \in Task : Takes(t, o)' /\ th'[t].in.pc = "place" => Known(t, h)'
             /\ k'.prio[h] > Base[h] => \E u \in Task : Backs(u, o)' /\ Base[u] = k'.prio[h]
  <2>1. h \in Task /\ k'.prio[h] = k.prio[h] /\ q'[o].holder = h
    BY <1>4
  <2>2. ASSUME NEW s \in In(q'[o].recv)
        PROVE  Known(s, h)'
    <3>1. s \in In(q[o].recv) /\ th'[s].in.inherited = th[s].in.inherited
      BY <1>0 DEF Follows
    <3>2. Known(s, h)
      BY <1>4, <3>1 DEF Group
    <3> QED
      BY <2>1, <3>1, <3>2 DEF Known
  <2>3. ASSUME NEW t \in Task, Takes(t, o)', th'[t].in.pc = "place"
        PROVE  Known(t, h)'
    <3>1. Takes(t, o) /\ th[t].in.pc = "place" /\ th'[t].in.inherited = th[t].in.inherited
      BY <2>3 DEF Follows
    <3>2. Known(t, h)
      BY <1>4, <3>1 DEF Group
    <3> QED
      BY <2>1, <3>1, <3>2 DEF Known
  <2>4. ASSUME k'.prio[h] > Base[h]
        PROVE  \E u \in Task : Backs(u, o)' /\ Base[u] = k'.prio[h]
    <3>1. PICK u \in Task : Backs(u, o) /\ Base[u] = k.prio[h]
      BY <1>4, <2>1, <2>4 DEF Group
    <3> QED
      BY <1>4, <2>1, <2>4, <3>1 DEF Follows
  <2> QED
    BY <2>2, <2>3, <2>4
<1> QED
  BY <1>1, <1>2, <1>3, <1>4 DEF Group

\* A call that goes on: it is not about to sleep, but for a mutex that is held,
\* and looks again with time left, but for one that is not
Way(in, in2, h) ==
    \/ in2.pc = in.pc /\ in2.left = in.left
    \/ /\ in2.pc # "place"
       /\ in2.pc \in {"inherit", "disinherit"} => h # NULL
       /\ in2.pc = "try" => in2.left # 0 \/ h = NULL

\* A task that goes on with its call does the group no harm
LEMMA GoesFollows ==
    ASSUME NEW o \in Mutexes, Group(o), NEW u \in Task,
           In(q'[o].recv) \subseteq In(q[o].recv),
           th'[u].in.call = th[u].in.call, th'[u].in.inherited = th[u].in.inherited,
           u \in In(q'[o].recv) => th'[u].in.left = th[u].in.left,
           Takes(u, o) => Way(th[u].in, th'[u].in, q[o].holder)
    PROVE  Follows(u, o)
<1>1. Takes(u, o)' <=> Takes(u, o)
  BY DEF Takes, Op, Obj
<1>2. Takes(u, o) /\ th[u].in.pc \in {"inherit", "place"} => q[o].holder # NULL
  BY DEF Group
<1> QED
  BY <1>1, <1>2 DEF Follows, Looks, Backs, Lends, Way

\* A task that has to do with other objects
LEMMA OthersFollow ==
    ASSUME NEW o \in Mutexes, NEW u \in Task, u \notin In(q'[o].recv), ~ Takes(u, o),
           ~ (Takes(u, o)' /\ th'[u].in.pc \in {"inherit", "place"})
    PROVE  Follows(u, o)
BY DEF Follows, Looks, Backs

\* and one that gives up, with nothing lent
LEMMA GivesUp ==
    ASSUME NEW o \in Mutexes, NEW u \in Task, u \notin In(q'[o].recv), ~ Takes(u, o)',
           Takes(u, o) => q[o].holder # NULL /\ ~ Lends(th[u].in)
    PROVE  Follows(u, o)
BY DEF Follows, Looks, Backs

---------------------------------------------------------------------------
(* Who waits, and at what priority *)

\* The waiters of a mutex are in their take
LEMMA WaitersTake ==
    ASSUME WInv, Owned, NEW o \in Mutexes, NEW s \in In(q[o].recv)
    PROVE  /\ s \in Task /\ Takes(s, o) /\ s \notin AwakeTasks(k) /\ WillLook(th[s].in)
           /\ o \in Object /\ q[o].recv \in Seq(Task)
<1>1. Types /\ o \in Object /\ q[o].recv \in Seq(Task)
  BY ObjectIs DEF WInv, Mutexes
<1>2. /\ s \in Task /\ s \notin AwakeTasks(k) /\ WillLook(th[s].in)
      /\ th[s].in.call.obj = o /\ th[s].in.call.op \in Receiving
  BY <1>1, ListsOf
<1>3. th[s].in.call # NoCall
  BY <1>2 DEF NoCall, Receiving
<1>4. th[s].in.call \in Calls[s]
  BY <1>2, <1>3 DEF Owned
<1>5. th[s].in.call.op \in {"take", "send"}
  BY <1>1, <1>2, <1>4, MutexAssumption DEF Mutexes
<1> QED
  BY <1>1, <1>2, <1>5 DEF Takes, Op, Obj, Receiving

\* A task that takes a mutex waits for it or is awake
LEMMA TakersAwake ==
    ASSUME WInv, NEW o \in Mutexes, NEW t \in Task, Takes(t, o), t \notin In(q[o].recv)
    PROVE  t \in AwakeTasks(k)
<1>1. o \in Object
  BY DEF Mutexes
<1>2. Side(Phases(th, o, Receiving), AwakeTasks(k), q[o].recv, q[o].msgs, Count(q[o].txLock))
  BY <1>1 DEF WInv, Sides, Recv, SideOf
<1>3. Phases(th, o, Receiving)[t] # "out"
  <2>1. Phase(th[t].in, o, Receiving) # "out"
    BY PhaseIs DEF Takes, Op, Obj, Receiving
  <2> QED
    BY <2>1 DEF Phases
<1> QED
  BY <1>2, <1>3 DEF Side

\* A task that takes its mutex holds none, and has its own priority
LEMMA TakersOwn ==
    ASSUME OneMutexEach, HeldByOthers, Owned, Raised, NEW o \in Mutexes, NEW t \in Task,
           Takes(t, o)
    PROVE  /\ k.prio[t] = Base[t] /\ q[o].holder # t /\ Uses(t, o)
           /\ \A p \in Mutexes : q[p].holder # t
<1>1. th[t].in.call \in Calls[t]
  BY DEF Owned, Takes, Op, NoCall
<1>2. Uses(t, o)
  BY <1>1 DEF Uses, Takes, Obj
<1>3. q[o].holder # t
  BY DEF HeldByOthers, Takes, Op, Obj, Receiving, Mutexes
<1>4. \A p \in Mutexes : q[p].holder # t
  <2> SUFFICES ASSUME NEW p \in Mutexes, q[p].holder = t
               PROVE  FALSE
    OBVIOUS
  <2>1. Uses(t, p)
    BY KernelAssumption DEF Owned
  <2>2. p = o
    BY <1>2, <2>1 DEF OneMutexEach
  <2> QED
    BY <1>3, <2>2
<1> QED
  BY <1>2, <1>3, <1>4 DEF Raised

\* Nobody holds two mutexes
LEMMA OneHolder ==
    ASSUME OneMutexEach, Owned, NEW o \in Mutexes, NEW p \in Mutexes,
           q[o].holder = q[p].holder, q[o].holder \in Task
    PROVE  o = p
<1>1. Uses(q[o].holder, o) /\ Uses(q[o].holder, p)
  BY KernelAssumption DEF Owned
<1> QED
  BY <1>1 DEF OneMutexEach

\* A task in another call does not wait
LEMMA NotWaiting ==
    ASSUME WInv', NEW o \in Mutexes, NEW t \in Task,
           ~ (th'[t].in.call.obj = o /\ th'[t].in.call.op \in Receiving)
    PROVE  t \notin In(q'[o].recv)
<1>1. Side(Phases(th', o, Receiving), AwakeTasks(k'), q'[o].recv, q'[o].msgs,
           Count(q'[o].txLock))
  BY DEF WInv, Sides, Recv, SideOf, Mutexes
<1>2. Phases(th', o, Receiving)[t] = Phase(th'[t].in, o, Receiving)
  BY DEF Phases
<1>3. Phase(th'[t].in, o, Receiving) # "look"
  BY PhaseIs
<1> QED
  BY <1>1, <1>2, <1>3 DEF Side

---------------------------------------------------------------------------
(* The parts of a step, for the mutexes *)

\* The mutex o stays with its holder, and nobody new waits
Within(o) ==
    /\ q'[o].holder = q[o].holder
    /\ In(q'[o].recv) \subseteq In(q[o].recv)
    /\ Falling(q[o].recv) => Falling(q'[o].recv)

\* Task u is in one of its calls, and its step does no harm
Proper(u) == /\ th'[u].in.call \in Calls[u] \cup {NoCall}
             /\ Lasting(th'[u].in)
             /\ \A o \in Mutexes : Follows(u, o)

Harmless == (\A o \in Mutexes : Within(o)) /\ \A u \in Task : Proper(u)

Same(in, in2) == /\ in2.call = in.call /\ in2.pc = in.pc /\ in2.left = in.left
                 /\ in2.inherited = in.inherited /\ in2.after = in.after

\* The mutexes, while nobody's priority changes
LEMMA LendingStays ==
    ASSUME WInv, WInv', Lending, Harmless, k'.prio = k.prio, k'.held = k.held,
           missed' => missed /\ k'.cur = k.cur
    PROVE  Lending'
<1>1. /\ k \in KState /\ DOMAIN q = Object
      /\ \A o \in Mutexes : /\ q[o].recv \in Seq(Task) /\ q'[o].recv \in Seq(Task)
                            /\ q[o].holder \in Task \cup {NULL}
  BY DEF WInv, Types, Mutexes, QState
<1>2. \A o \in Mutexes : q'[o].holder = q[o].holder /\ Within(o)
  BY DEF Within, Harmless
<1>3. Owned'
  BY <1>2 DEF Lending, Owned, Proper, Harmless
<1>4. Counted' /\ Raised'
  BY <1>2 DEF Lending, Counted, Raised
<1>5. \A u \in Task : Lasting(th'[u].in)
  BY DEF Proper, Harmless
<1>6. ASSUME NEW o \in Mutexes
      PROVE  Group(o)'
  <2>1. Group(o) /\ Within(o)
    BY <1>2 DEF Lending, Grouped
  <2>2. Falling(q'[o].recv)
    BY <2>1 DEF Group, Within
  <2>3. \A u \in Task : Follows(u, o)
    BY DEF Proper, Harmless
  <2> QED
    BY <1>1, <1>2, <2>1, <2>2, <2>3, GroupStays
<1>7. Missed'
  BY <1>2 DEF Lending, Missed, Within
<1> QED
  BY <1>3, <1>4, <1>5, <1>6, <1>7 DEF Lending, Grouped

\* A task that does nothing
LEMMA SameProper ==
    ASSUME Lending, NEW u \in Task, Same(th[u].in, th'[u].in), \A o \in Mutexes : Within(o)
    PROVE  Proper(u)
<1>1. th'[u].in.call \in Calls[u] \cup {NoCall} /\ Lasting(th'[u].in)
  BY DEF Lending, Owned, Lasting, Same
<1>2. ASSUME NEW o \in Mutexes
      PROVE  Follows(u, o)
  <2>1. Group(o) /\ In(q'[o].recv) \subseteq In(q[o].recv)
    BY DEF Lending, Grouped, Within
  <2>2. Way(th[u].in, th'[u].in, q[o].holder)
    BY DEF Way, Same
  <2> QED
    BY <2>1, <2>2, GoesFollows DEF Same
<1> QED
  BY <1>1, <1>2 DEF Proper

\* A task that goes on in its call
LEMMA GoesProper ==
    ASSUME Lending, NEW u \in Task, \A o \in Mutexes : Within(o),
           th'[u].in.call = th[u].in.call, th'[u].in.inherited = th[u].in.inherited,
           Lasting(th'[u].in),
           \A o \in Mutexes :
              /\ u \in In(q'[o].recv) => th'[u].in.left = th[u].in.left
              /\ Takes(u, o) => Way(th[u].in, th'[u].in, q[o].holder)
    PROVE  Proper(u)
<1>1. th'[u].in.call \in Calls[u] \cup {NoCall}
  BY DEF Lending, Owned
<1>2. ASSUME NEW o \in Mutexes
      PROVE  Follows(u, o)
  <2>1. Group(o) /\ In(q'[o].recv) \subseteq In(q[o].recv)
    BY DEF Lending, Grouped, Within
  <2> QED
    BY <2>1, GoesFollows
<1> QED
  BY <1>1, <1>2 DEF Proper

\* A call that returns
LEMMA OutProper ==
    ASSUME WInv', NEW u \in Task, th'[u].in = Outside,
           \A o \in Mutexes : Takes(u, o) => q[o].holder # NULL /\ ~ Lends(th[u].in)
    PROVE  Proper(u)
<1> DEFINE in == Outside
<1>0. in.call = NoCall /\ in.call.op = "none" /\ in.pc = "run" /\ in.after = ""
  <2>1. in.call = NoCall /\ in.call.op = "none" /\ in.pc = "run"
    BY DEF Outside, NoCall
  <2>2. in.after = ""
    BY Zenon DEF Outside
  <2> QED
    BY <2>1, <2>2
<1> HIDE DEF in
<1>1. /\ th'[u].in.call = NoCall /\ th'[u].in.call.op = "none"
      /\ th'[u].in.after = "" /\ th'[u].in.pc = "run"
  BY <1>0 DEF in
<1>2. th'[u].in.call \in Calls[u] \cup {NoCall} /\ Lasting(th'[u].in)
  BY <1>1 DEF Lasting
<1>3. ASSUME NEW o \in Mutexes
      PROVE  Follows(u, o)
  <2>1. ~ Takes(u, o)' /\ th'[u].in.call.op \notin Receiving
    BY <1>1 DEF Takes, Op, Receiving
  <2>2. u \notin In(q'[o].recv)
    BY <2>1, NotWaiting
  <2> QED
    BY <2>1, <2>2, GivesUp
<1> QED
  BY <1>2, <1>3 DEF Proper

\* The lists stay, or lose some of the tasks
LEMMA SameWithin ==
    ASSUME \A o \in Mutexes : q'[o].holder = q[o].holder /\ q'[o].recv = q[o].recv
    PROVE  \A o \in Mutexes : Within(o)
BY DEF Within

\* An event list from which some are taken gets nobody new
LEMMA LessWithin ==
    ASSUME NEW o, q'[o].holder = q[o].holder, q[o].recv \in Seq(Task), NEW ts,
           q'[o].recv = Without(q[o].recv, ts)
    PROVE  Within(o)
<1> DEFINE list == q[o].recv
<1>1. list \in Seq(Task) /\ q'[o].recv = Without(list, ts)
  OBVIOUS
<1> HIDE DEF list
<1>2. In(Without(list, ts)) = In(list) \ ts
  BY <1>1, WithoutIs
<1>3. Falling(list) => Falling(Without(list, ts))
  BY <1>1, FallingWithout
<1> QED
  BY <1>1, <1>2, <1>3 DEF Within, list

\* A task's place in its call changes
LEMMA GotoIs ==
    ASSUME Types, NEW t \in Task, NEW p, Goto(t, p)
    PROVE  /\ th'[t].in.pc = p /\ th'[t].in.call = th[t].in.call
           /\ th'[t].in.left = th[t].in.left /\ th'[t].in.inherited = th[t].in.inherited
           /\ th'[t].in.after = th[t].in.after
           /\ \A u \in Task : u # t => Same(th[u].in, th'[u].in)
<1>1. th[t] \in Thread /\ th[t].in \in ThreadType /\ th \in [Task -> Thread]
  BY ThreadIs DEF Types
<1>2. th' = [th EXCEPT ![t].in.pc = p]
  BY DEF Goto
<1> QED
  BY <1>1, <1>2 DEF Thread, ThreadType, Same

\* or the whole of it
LEMMA InBecomes ==
    ASSUME Types, NEW t \in Task, NEW in2, th' = [th EXCEPT ![t].in = in2]
    PROVE  /\ th'[t].in = in2
           /\ \A u \in Task : u # t => Same(th[u].in, th'[u].in)
<1>1. th[t] \in Thread /\ th \in [Task -> Thread]
  BY ThreadIs DEF Types
<1> QED
  BY <1>1 DEF Thread, Same

\* A call that can not go on finds a mutex held
LEMMA BlockedHeld ==
    ASSUME Exclusive, NEW t \in Task, NEW o \in Mutexes, Takes(t, o), Blocked(t)
    PROVE  q[o].holder # NULL
<1>1. Empty(o)
  BY DEF Blocked, Takes
<1> QED
  BY <1>1 DEF Exclusive, Empty

---------------------------------------------------------------------------
(* Steps that leave the mutexes alone *)

\* A mutex is an object; the lists of the others stay when one object changes
LEMMA MutexIs ==
    ASSUME Types, NEW o \in Mutexes
    PROVE  /\ o \in Object /\ Type[o] = "mutex" /\ q[o].recv \in Seq(Task)
           /\ q[o] \in QState(o) /\ q[o].holder \in Task \cup {NULL}
BY ObjectIs DEF Mutexes, QState

\* The running task, in a call on a mutex, gives it back or takes it
LEMMA CallOnMutex ==
    ASSUME Owned, NEW t \in Task, Obj(t) \in Mutexes, Op(t) # "none"
    PROVE  Op(t) \in {"take", "send"} /\ Uses(t, Obj(t))
<1>1. th[t].in.call # NoCall
  BY DEF Op, NoCall
<1>2. th[t].in.call \in Calls[t]
  BY <1>1 DEF Owned
<1> QED
  BY <1>2, MutexAssumption DEF Mutexes, Op, Obj, Uses

\* A call begins, and has lent nothing
LEMMA CallLends ==
    ASSUME WInv, WInv', TInv, Lending, NEW t \in Task, NEW c \in Calls[t], Call(t, c)
    PROVE  Harmless
<1> DEFINE in == th[t].in
<1>1. /\ Types /\ At(t, "run") /\ q' = q
      /\ th' = [th EXCEPT ![t].in.call = c, ![t].in.left = c.ticks,
                          ![t].in.pc = IF c.op # "delay" THEN "try"
                                         ELSE IF c.ticks = 0 THEN "yield" ELSE "suspend"]
  BY DEF WInv, Call
<1>2. \A o \in Mutexes : Within(o)
  BY <1>1, SameWithin
<1>3. in.pc = "run" /\ in = Outside
  BY <1>1, AtIs DEF TInv, TaskTime, CallTime
<1>4. th[t] \in Thread /\ in \in ThreadType /\ th \in [Task -> Thread]
  BY <1>1, ThreadIs DEF Types
<1>5. /\ th'[t].in.call = c /\ th'[t].in.after = in.after
      /\ th'[t].in.pc = IF c.op # "delay" THEN "try"
                        ELSE IF c.ticks = 0 THEN "yield" ELSE "suspend"
      /\ \A u \in Task : u # t => Same(th[u].in, th'[u].in)
  BY <1>1, <1>4 DEF Thread, ThreadType, Same
<1>6. /\ in.call.op = "none" /\ in.after \notin {"block", "retry"}
  BY <1>3, OutsideTime
<1>7. Lasting(th'[t].in)
  BY <1>5, <1>6 DEF Lasting, Queueing, Receiving, Sending
<1>8. ASSUME NEW o \in Mutexes
      PROVE  Follows(t, o)
  <2>1. ~ Takes(t, o)
    BY <1>6 DEF Takes, Op
  <2>2. t \notin In(q'[o].recv)
    BY <1>1, <2>1, WaitersTake DEF Lending
  <2> QED
    BY <1>5, <2>1, <2>2, OthersFollow
<1>9. Proper(t)
  BY <1>5, <1>7, <1>8 DEF Proper
<1> QED
  BY <1>2, <1>5, <1>9, SameProper DEF Harmless

\* A return, with the mutexes left alone, from a call that does not take one
LEMMA ReturnLends ==
    ASSUME WInv, WInv', Lending, NEW t \in Task, Return(t),
           \A o \in Mutexes : Within(o), \A o \in Mutexes : ~ Takes(t, o)
    PROVE  Harmless
<1>1. th'[t].in = Outside /\ \A u \in Task : u # t => Same(th[u].in, th'[u].in)
  BY InBecomes DEF WInv, Return
<1>2. Proper(t)
  BY <1>1, OutProper
<1> QED
  BY <1>1, <1>2, SameProper DEF Harmless

\* A peek is no take of a mutex,
LEMMA PeekLends ==
    ASSUME WInv, WInv', Lending, NEW t \in Task, Peek(t)
    PROVE  Harmless
<1>1. Op(t) = "peek" /\ Return(t) /\ q' = [q EXCEPT ![Obj(t)].recv = Rest(@)]
  BY DEF Peek
<1>2. Obj(t) \notin Mutexes
  BY <1>1, CallOnMutex DEF Lending
<1>3. \A o \in Mutexes : q'[o].holder = q[o].holder /\ q'[o].recv = q[o].recv
  BY <1>1, <1>2, MutexIs DEF WInv, Types
<1> QED
  BY <1>1, <1>3, SameWithin, ReturnLends DEF Takes

\* nor is a receive from something else,
LEMMA ReceiveLends ==
    ASSUME WInv, WInv', Lending, NEW t \in Task, Receive(t), Obj(t) \notin Mutexes
    PROVE  Harmless
<1>1. /\ Return(t)
      /\ q' = [q EXCEPT ![Obj(t)].msgs = @ - 1, ![Obj(t)].send = Rest(@),
                        ![Obj(t)].holder = IF Type[Obj(t)] = "mutex" THEN t ELSE NULL]
  BY DEF Receive
<1>2. \A o \in Mutexes : q'[o].holder = q[o].holder /\ q'[o].recv = q[o].recv
  BY <1>1, MutexIs DEF WInv, Types
<1> QED
  BY <1>1, <1>2, SameWithin, ReturnLends DEF Takes

\* nor a send to it a giving back
LEMMA SendLends ==
    ASSUME WInv, WInv', Lending, NEW t \in Task, Send(t), Obj(t) \notin Mutexes
    PROVE  Harmless
<1>1. /\ Return(t)
      /\ q' = [q EXCEPT ![Obj(t)].msgs = @ + 1, ![Obj(t)].recv = Rest(@),
                        ![Obj(t)].holder = NULL]
  BY DEF Send
<1>2. \A o \in Mutexes : q'[o].holder = q[o].holder /\ q'[o].recv = q[o].recv
  BY <1>1, MutexIs DEF WInv, Types
<1> QED
  BY <1>1, <1>2, SameWithin, ReturnLends DEF Takes

\* Nothing to take: a mutex is held
LEMMA NotNowLends ==
    ASSUME WInv, WInv', TInv, Exclusive, Lending, NEW t \in Task, NotNow(t)
    PROVE  Harmless
<1> DEFINE in == th[t].in
<1>1. Types /\ At(t, "try") /\ in.pc = "try" /\ Blocked(t) /\ q' = q
  BY AtIs DEF WInv, NotNow
<1>2. \A o \in Mutexes : Within(o)
  BY <1>1, SameWithin
<1>3. \A o \in Mutexes : Takes(t, o) => q[o].holder # NULL
  BY <1>1, BlockedHeld
<1>4. CASE in.left = 0
  <2>1. Return(t)
    BY <1>4 DEF NotNow
  <2>2. th'[t].in = Outside /\ \A u \in Task : u # t => Same(th[u].in, th'[u].in)
    BY <1>1, <2>1, InBecomes DEF Return
  <2>3. Proper(t)
    BY <1>1, <1>3, <1>4, <2>2, OutProper DEF Lends
  <2> QED
    BY <1>2, <2>2, <2>3, SameProper DEF Harmless
<1>5. CASE in.left # 0
  <2>1. th' = [th EXCEPT ![t].in.pc = "suspend", ![t].in.timed = TRUE,
                         ![t].in.at = IF th[t].in.timed THEN @ ELSE k.tick]
    BY <1>5 DEF NotNow
  <2>2. th[t] \in Thread /\ in \in ThreadType /\ th \in [Task -> Thread]
    BY <1>1, ThreadIs DEF Types
  <2>3. /\ th'[t].in.call = in.call /\ th'[t].in.pc = "suspend" /\ th'[t].in.left = in.left
        /\ th'[t].in.inherited = in.inherited /\ th'[t].in.after = in.after
        /\ \A u \in Task : u # t => Same(th[u].in, th'[u].in)
    BY <2>1, <2>2 DEF Thread, ThreadType, Same
  <2>4. Lasting(th'[t].in)
    BY <1>5, <2>3 DEF Lasting
  <2>5. \A h : Way(in, th'[t].in, h)
    BY <2>3 DEF Way
  <2>6. Proper(t)
    BY <1>2, <2>3, <2>4, <2>5, GoesProper
  <2> QED
    BY <1>2, <2>3, <2>6, SameProper DEF Harmless
<1> QED
  BY <1>4, <1>5

\* A step to another place of the call
LEMMA GotoLends ==
    ASSUME WInv, Lending, NEW t \in Task, NEW p, Goto(t, p),
           \A o \in Mutexes : Within(o),
           p = "yield" => th[t].in.left # 0,
           p \in {"unlockTx", "unlockRx", "resume"} => th[t].in.pc \in {"unlockTx", "unlockRx"},
           \A o \in Mutexes : Takes(t, o) =>
              /\ p # "place"
              /\ p \in {"inherit", "disinherit"} => q[o].holder # NULL
              /\ p = "try" => th[t].in.left # 0 \/ q[o].holder = NULL
    PROVE  Harmless
<1>1. /\ th'[t].in.pc = p /\ th'[t].in.call = th[t].in.call
      /\ th'[t].in.left = th[t].in.left /\ th'[t].in.inherited = th[t].in.inherited
      /\ th'[t].in.after = th[t].in.after
      /\ \A u \in Task : u # t => Same(th[u].in, th'[u].in)
  BY GotoIs DEF WInv
<1>2. Lasting(th'[t].in)
  BY <1>1 DEF Lasting, Lending
<1>3. \A o \in Mutexes : Takes(t, o) => Way(th[t].in, th'[t].in, q[o].holder)
  BY <1>1 DEF Way
<1>4. Proper(t)
  BY <1>1, <1>2, <1>3, GoesProper
<1> QED
  BY <1>1, <1>4, SameProper DEF Harmless

\* Suspending the scheduler
LEMMA SuspendLends ==
    ASSUME WInv, Lending, NEW t \in Task, Suspend(t)
    PROVE  Harmless
<1> DEFINE p == IF Op(t) = "delay" THEN "place" ELSE "lock"
<1>1. q' = q /\ Goto(t, p)
  BY DEF Suspend
<1>2. \A o \in Mutexes : Takes(t, o) => p = "lock"
  BY DEF Takes
<1>3. p \in {"place", "lock"} /\ p \notin {"unlockTx", "unlockRx", "resume"}
  OBVIOUS
<1> HIDE DEF p
<1> QED
  BY <1>1, <1>2, <1>3, SameWithin, GotoLends

\* Locking the queue: the call goes on to look at its time
LEMMA LockLends ==
    ASSUME WInv, Lending, NEW t \in Task, prvLockQueue(t)
    PROVE  Harmless
<1> DEFINE p == "check"
<1>1. /\ Goto(t, p)
      /\ q' = [q EXCEPT ![Obj(t)].txLock = 0, ![Obj(t)].rxLock = 0]
  BY DEF prvLockQueue
<1>2. \A o \in Mutexes : q'[o].holder = q[o].holder /\ q'[o].recv = q[o].recv
  BY <1>1, MutexIs DEF WInv, Types, QState
<1>3. p \notin {"yield", "place", "inherit", "disinherit", "try", "unlockTx", "unlockRx", "resume"}
  OBVIOUS
<1> HIDE DEF p
<1>4. \A o \in Mutexes : Within(o)
  BY <1>2, SameWithin
<1> QED
  BY <1>1, <1>3, <1>4, GotoLends

\* Going on after a switch
LEMMA YieldLends ==
    ASSUME WInv, Lending, NEW t \in Task, Yield(t)
    PROVE  Harmless
<1> DEFINE p == Again(t)
<1>1. At(t, "yield") /\ q' = q /\ Goto(t, p)
  BY DEF Yield
<1>2. th[t].in.pc = "yield" /\ p \in {"woken", "try"}
  BY <1>1, AtIs DEF Again
<1>3. \A o \in Mutexes : Takes(t, o) => th[t].in.left # 0
  BY <1>2 DEF Takes, Op, Lending, Lasting, Queueing, Receiving
<1> HIDE DEF p
<1> QED
  BY <1>1, <1>2, <1>3, SameWithin, GotoLends

\* The last look: a mutex that is not there is held
LEMMA ExpiredLends ==
    ASSUME WInv, WInv', Exclusive, Lending, NEW t \in Task, Expired(t)
    PROVE  Harmless
<1>1. q' = q /\ \A o \in Mutexes : Within(o)
  BY SameWithin DEF Expired
<1>2. \A o \in Mutexes : Takes(t, o) => (Empty(Obj(t)) <=> q[o].holder # NULL)
  BY DEF Takes, Empty, Exclusive
<1>3. CASE Goto(t, "try") /\ ~ Empty(Obj(t))
  BY <1>1, <1>2, <1>3, GotoLends
<1>4. CASE Goto(t, "disinherit") /\ Empty(Obj(t))
  BY <1>1, <1>2, <1>4, GotoLends
<1>5. CASE Return(t) /\ Empty(Obj(t)) /\ ~ th[t].in.inherited
  <2>1. th'[t].in = Outside /\ \A u \in Task : u # t => Same(th[u].in, th'[u].in)
    BY <1>5, InBecomes DEF WInv, Return
  <2>2. Proper(t)
    BY <1>2, <1>5, <2>1, OutProper DEF Lends
  <2> QED
    BY <1>1, <2>1, <2>2, SameProper DEF Harmless
<1> QED
  BY <1>3, <1>4, <1>5 DEF Expired

---------------------------------------------------------------------------
(* and those inside a wait, with the passing of time *)

\* Where no mutex is waited for, what is left may change
LEMMA CheckLends ==
    ASSUME WInv, TInv, Lending, NEW t \in Task, xTaskCheckForTimeOut(t)
    PROVE  Harmless
<1> DEFINE in == th[t].in
           elapsed == (k.tick - in.at) % TickMod
           forever == in.left = portMAX_DELAY
           lapped  == in.wrapped /\ k.tick >= in.at
           in2 == CASE forever -> [in EXCEPT !.pc = "recheck"]
                    [] ~ forever /\ lapped ->
                          [in EXCEPT !.pc = "unlockTx", !.after = "expired"]
                    [] ~ forever /\ ~ lapped /\ elapsed < in.left ->
                          [Restarted(in, elapsed) EXCEPT !.pc = "recheck"]
                    [] OTHER -> [in EXCEPT !.pc = "unlockTx", !.after = "expired",
                                           !.left = 0]
<1>1. Types /\ At(t, "check") /\ q' = q /\ th' = [th EXCEPT ![t].in = in2]
  BY DEF WInv, xTaskCheckForTimeOut
<1>2. in.pc = "check" /\ CallTime(in) /\ in \in ThreadType
  BY <1>1, AtIs, ThreadIs DEF TInv, TaskTime
<1>3. \A o \in Mutexes : Within(o)
  BY <1>1, SameWithin
<1>4. /\ in2.call = in.call /\ in2.inherited = in.inherited
      /\ in2.pc \in {"recheck", "unlockTx"} /\ in2.after \in {in.after, "expired"}
      /\ in2.pc = "unlockTx" => in2.after = "expired"
  <2>1. CASE forever
    BY <1>2, <2>1 DEF ThreadType
  <2>2. CASE ~ forever /\ lapped
    BY <1>2, <2>2 DEF ThreadType
  <2>3. CASE ~ forever /\ ~ lapped /\ elapsed < in.left
    <3>1. in2 = [Restarted(in, elapsed) EXCEPT !.pc = "recheck"]
      BY <2>3
    <3> HIDE DEF in2, elapsed
    <3> QED
      BY <1>2, <3>1 DEF Restarted, ThreadType
  <2>4. CASE ~ forever /\ ~ lapped /\ ~ (elapsed < in.left)
    BY <1>2, <2>4 DEF ThreadType
  <2> QED
    BY <2>1, <2>2, <2>3, <2>4
<1> HIDE DEF in2
<1>5. in.after \notin {"block", "retry"}
  BY <1>2 DEF CallTime
<1>6. th'[t].in = in2 /\ \A u \in Task : u # t => Same(th[u].in, th'[u].in)
  BY <1>1, InBecomes
<1>7. Lasting(in2)
  BY <1>4, <1>5 DEF Lasting
<1>8. ASSUME NEW o \in Mutexes
      PROVE  t \notin In(q'[o].recv) /\ Way(in, in2, q[o].holder)
  <2>1. ~ WillLook(in)
    BY <1>2 DEF WillLook
  <2>2. t \notin In(q[o].recv)
    BY <2>1, WaitersTake DEF Lending
  <2> QED
    BY <1>1, <1>4, <2>2 DEF Way
<1>9. Proper(t)
  BY <1>3, <1>4, <1>6, <1>7, <1>8, GoesProper
<1> QED
  BY <1>3, <1>6, <1>9, SameProper DEF Harmless

\* The mutex is still held, or the call looks again
LEMMA RecheckLends ==
    ASSUME WInv, TInv, Exclusive, Lending, NEW t \in Task, Recheck(t)
    PROVE  Harmless
<1> DEFINE in == th[t].in
<1>1. Types /\ At(t, "recheck") /\ q' = q
  BY DEF WInv, Recheck
<1>2. in.pc = "recheck" /\ CallTime(in) /\ th[t] \in Thread /\ in \in ThreadType
      /\ th \in [Task -> Thread]
  BY <1>1, AtIs, ThreadIs DEF TInv, TaskTime, Types
<1>3. \A o \in Mutexes : Within(o)
  BY <1>1, SameWithin
<1>4. CASE ~ Blocked(t)
  <2>1. th' = [th EXCEPT ![t].in.pc = "unlockTx", ![t].in.after = "retry"]
    BY <1>4 DEF Recheck
  <2>2. /\ th'[t].in.call = in.call /\ th'[t].in.pc = "unlockTx" /\ th'[t].in.left = in.left
        /\ th'[t].in.inherited = in.inherited /\ th'[t].in.after = "retry"
        /\ \A u \in Task : u # t => Same(th[u].in, th'[u].in)
    BY <1>2, <2>1 DEF Thread, ThreadType, Same
  <2>3. Lasting(th'[t].in)
    BY <1>2, <2>2 DEF Lasting, CallTime
  <2>4. \A h : Way(in, th'[t].in, h)
    BY <2>2 DEF Way
  <2>5. Proper(t)
    BY <1>3, <2>2, <2>3, <2>4, GoesProper
  <2> QED
    BY <1>3, <2>2, <2>5, SameProper DEF Harmless
<1>5. CASE Blocked(t)
  <2> DEFINE p == IF Type[Obj(t)] = "mutex" THEN "inherit" ELSE "place"
  <2>1. Goto(t, p)
    BY <1>5 DEF Recheck
  <2>2. \A o \in Mutexes : Takes(t, o) => p = "inherit" /\ q[o].holder # NULL
    BY <1>5, BlockedHeld DEF Mutexes, Takes
  <2>3. p \in {"inherit", "place"}
    OBVIOUS
  <2> HIDE DEF p
  <2> QED
    BY <1>3, <2>1, <2>2, <2>3, GotoLends
<1> QED
  BY <1>4, <1>5

\* Unlocking one side of the queue takes some from an event list,
LEMMA UnlockTxLends ==
    ASSUME WInv, Lending, NEW t \in Task, UnlockTx(t)
    PROVE  Harmless
<1> DEFINE o == Obj(t)  ts == Woken(q[o].recv, q[o].txLock)  p == "unlockRx"
<1>1. /\ Types /\ Goto(t, p) /\ At(t, "unlockTx")
      /\ q' = [q EXCEPT ![o].txLock = UNLOCKED, ![o].recv = Without(@, ts)]
  BY DEF WInv, UnlockTx
<1> HIDE DEF ts
<1>2. \A m \in Mutexes : Within(m)
  <2> SUFFICES ASSUME NEW m \in Mutexes
               PROVE  Within(m)
    OBVIOUS
  <2>1. m \in Object /\ q[m].recv \in Seq(Task) /\ DOMAIN q = Object /\ q[m] \in QState(m)
    BY <1>1, MutexIs DEF Types
  <2>2. CASE m # o
    BY <1>1, <2>1, <2>2 DEF Within
  <2>3. CASE m = o
    <3>1. q'[m].holder = q[m].holder /\ q'[m].recv = Without(q[m].recv, ts)
      BY <1>1, <2>1, <2>3 DEF QState
    <3> QED
      BY <2>1, <3>1, LessWithin
  <2> QED
    BY <2>2, <2>3
<1>3. p \notin {"yield", "place", "inherit", "disinherit", "try"} /\ th[t].in.pc = "unlockTx"
  BY <1>1, AtIs
<1> HIDE DEF p
<1> QED
  BY <1>1, <1>2, <1>3, GotoLends

\* and so does the other
LEMMA UnlockRxLends ==
    ASSUME WInv, Lending, NEW t \in Task, UnlockRx(t)
    PROVE  Harmless
<1> DEFINE o == Obj(t)  ts == Woken(q[o].send, q[o].rxLock)  p == "resume"
<1>1. /\ Types /\ Goto(t, p) /\ At(t, "unlockRx")
      /\ q' = [q EXCEPT ![o].rxLock = UNLOCKED, ![o].send = Without(@, ts)]
  BY DEF WInv, UnlockRx
<1> HIDE DEF ts
<1>2. \A m \in Mutexes : q'[m].holder = q[m].holder /\ q'[m].recv = q[m].recv
  BY <1>1, MutexIs DEF Types, QState
<1>3. p \notin {"yield", "place", "inherit", "disinherit", "try"} /\ th[t].in.pc = "unlockRx"
  BY <1>1, AtIs
<1> HIDE DEF p
<1>4. \A m \in Mutexes : Within(m)
  BY <1>2, SameWithin
<1> QED
  BY <1>1, <1>3, <1>4, GotoLends

\* Those that are ready leave the lists
LEMMA ListedWithin ==
    ASSUME Types, q' = Listed(k')
    PROVE  \A o \in Mutexes : Within(o)
<1> SUFFICES ASSUME NEW o \in Mutexes
             PROVE  Within(o)
  OBVIOUS
<1> DEFINE ts == InList(k', "ready")
<1>1. o \in Object /\ q[o].recv \in Seq(Task) /\ q[o] \in QState(o)
  BY MutexIs
<1>2. q'[o] = [q[o] EXCEPT !.recv = Without(@, ts), !.send = Without(@, ts)]
  BY <1>1 DEF Listed
<1> HIDE DEF ts
<1>3. q'[o].holder = q[o].holder /\ q'[o].recv = Without(q[o].recv, ts)
  BY <1>1, <1>2 DEF QState
<1> QED
  BY <1>1, <1>3, LessWithin

\* A call as time passes
LEMMA OlderSame ==
    ASSUME Types, NEW u \in Task, NEW k1, NEW d, NEW x, x = Elapsed(k1, d)[u]
    PROVE  Same(th[u].in, x.in)
<1> DEFINE lapped == th[u].in.timed /\ (th[u].in.wrapped \/ k1.tick < k.tick)
           waited == IF Timed(u) THEN th[u].in.waited + d ELSE th[u].in.waited
           in2 == [th[u].in EXCEPT !.wrapped = lapped, !.waited = waited]
<1>1. th[u] \in Thread /\ th[u].in \in ThreadType
  BY ThreadIs
<1>2. x = [th[u] EXCEPT !.in.wrapped = lapped, !.in.waited = waited]
  BY <1>1 DEF Elapsed, Thread, ThreadType
<1> HIDE DEF lapped, waited
<1>3. x = [th[u] EXCEPT !.in = in2]
  BY <1>1, <1>2 DEF Thread, ThreadType
<1>4. /\ in2.call = th[u].in.call /\ in2.pc = th[u].in.pc /\ in2.left = th[u].in.left
      /\ in2.inherited = th[u].in.inherited /\ in2.after = th[u].in.after
  BY <1>1 DEF ThreadType
<1> HIDE DEF in2
<1>5. x.in = in2
  BY <1>1, <1>3 DEF Thread
<1> QED
  BY <1>4, <1>5 DEF Same

\* A tick takes tasks out of the lists
LEMMA SysTickLends ==
    ASSUME WInv, Lending, SysTick
    PROVE  Harmless
<1>1. Types /\ q' = Listed(k') /\ th' = Elapsed(k', 1)
  BY DEF WInv, SysTick
<1>2. \A u \in Task : Same(th[u].in, th'[u].in)
  BY <1>1, OlderSame
<1> QED
  BY <1>1, <1>2, ListedWithin, SameProper DEF Harmless

\* The scheduler runs again: a call goes on, or has no time left
LEMMA ResumeLends ==
    ASSUME WInv, WInv', TInv, Lending, NEW t \in Task, Resume(t)
    PROVE  Harmless
<1> DEFINE in == th[t].in
           out == in.after = "expired" /\ Op(t) = "send"
           p == CASE in.after = "expired" -> "expired"
                  [] in.after = "block" /\ ~ k'.yieldPending -> "yield"
                  [] OTHER -> Again(t)
           none == 0
           x == Elapsed(k', none)[t].in
           in2 == IF out THEN Outside ELSE [x EXCEPT !.after = "", !.pc = p]
<1>1. /\ Types /\ At(t, "resume") /\ q' = Listed(k')
      /\ th' = [Elapsed(k', none) EXCEPT ![t].in = in2]
  BY DEF WInv, Resume
<1>2. in.pc = "resume" /\ CallTime(in) /\ CallPc(in)
  BY <1>1, AtIs DEF TInv, TaskTime
<1>3. Same(in, x)
  BY <1>1, OlderSame
<1>4. Elapsed(k', none) \in [Task -> Thread]
  <2>1. \A u \in Task : th[u].in.waited + none \in 0 .. portMAX_DELAY
    BY <1>1, InIs
  <2>2. none \in Nat
    OBVIOUS
  <2> HIDE DEF none
  <2> QED
    BY <1>1, <2>1, <2>2, ElapsedIs
<1>5. x \in ThreadType
  BY <1>4 DEF Thread
<1>6. th'[t].in = in2 /\ \A u \in Task : u # t => th'[u] = Elapsed(k', none)[u]
  BY <1>1, <1>4 DEF Thread
<1> HIDE DEF x, none
<1>7. \A u \in Task : u # t => Same(th[u].in, th'[u].in)
  BY <1>1, <1>6, OlderSame
<1>8. \A o \in Mutexes : Within(o)
  BY <1>1, ListedWithin
<1>9. CASE out
  <2>1. \A o \in Mutexes : ~ Takes(t, o)
    BY <1>9 DEF Takes
  <2>2. Proper(t)
    BY <1>6, <1>9, <2>1, OutProper
  <2> QED
    BY <1>7, <1>8, <2>2, SameProper DEF Harmless
<1>10. CASE ~ out
  <2>1. in2 = [x EXCEPT !.after = "", !.pc = p]
    BY <1>10
  <2>2. /\ p \in {"expired", "yield", "woken", "try"}
        /\ p \in {"yield", "try"} => in.after # "expired"
    BY DEF Again
  <2> HIDE DEF p, in2
  <2>3. /\ in2.call = in.call /\ in2.inherited = in.inherited /\ in2.left = in.left
        /\ in2.pc = p /\ in2.after = ""
    BY <1>3, <1>5, <2>1 DEF ThreadType, Same
  <2>4. Op(t) \in Queueing /\ p \in {"yield", "try"} => in.left # 0
    <3>1. in.after \in {"block", "retry", "expired"}
      BY <1>2 DEF Lending, Lasting
    <3> QED
      BY <2>2, <3>1 DEF Lending, Lasting
  <2>5. Lasting(in2)
    <3>1. in2.after \notin {"block", "retry"} /\ p \notin {"unlockTx", "unlockRx", "resume"}
      BY ONLY Zenon, <2>2, <2>3
    <3>2. in2.call.op = Op(t)
      BY <2>3 DEF Op
    <3> QED
      BY ONLY <2>3, <2>4, <3>1, <3>2 DEF Lasting
  <2>6. ASSUME NEW o \in Mutexes, Takes(t, o)
        PROVE  Way(in, in2, q[o].holder)
    <3>1. Op(t) \in Queueing
      BY <2>6 DEF Takes, Queueing, Receiving
    <3>2. p \notin {"place", "inherit", "disinherit"} /\ (p = "try" => in.left # 0)
      BY ONLY <2>2, <2>4, <3>1
    <3> QED
      BY <2>3, <3>2 DEF Way
  <2>7. Proper(t)
    BY <1>6, <1>8, <2>3, <2>5, <2>6, GoesProper
  <2> QED
    BY <1>7, <1>8, <2>7, SameProper DEF Harmless
<1> QED
  BY <1>9, <1>10

---------------------------------------------------------------------------
(* and those of delays, notifications and interrupts *)

\* Waiting for a notification has to do with no mutex,
LEMMA NotifyTakeLends ==
    ASSUME WInv, Lending, NEW t \in Task, NotifyTake(t)
    PROVE  Harmless
<1> DEFINE in == th[t].in
<1>1. /\ Types /\ Op(t) = "notifyTake" /\ q' = q
      /\ th' = [th EXCEPT ![t].in.pc = "woken",
                          ![t].waiting = (th[t].notified = 0) \/ @]
  BY DEF WInv, NotifyTake
<1>2. th[t] \in Thread /\ in \in ThreadType /\ th \in [Task -> Thread]
  BY <1>1, ThreadIs DEF Types
<1>3. /\ th'[t].in.call = in.call /\ th'[t].in.pc = "woken" /\ th'[t].in.left = in.left
      /\ th'[t].in.inherited = in.inherited /\ th'[t].in.after = in.after
      /\ \A u \in Task : u # t => Same(th[u].in, th'[u].in)
  BY <1>1, <1>2 DEF Thread, ThreadType, Same
<1>4. Lasting(th'[t].in)
  BY <1>3 DEF Lasting, Lending
<1>5. \A o \in Mutexes : Within(o) /\ ~ Takes(t, o)
  BY <1>1, SameWithin DEF Takes
<1>6. Proper(t)
  BY <1>3, <1>4, <1>5, GoesProper
<1> QED
  BY <1>3, <1>5, <1>6, SameProper DEF Harmless

\* nor has the end of a delay,
LEMMA DelayedLends ==
    ASSUME WInv, WInv', Lending, NEW t \in Task, Delayed(t)
    PROVE  Harmless
<1>1. \A o \in Mutexes : Within(o) /\ ~ Takes(t, o)
  BY SameWithin DEF Delayed, Takes
<1> QED
  BY <1>1, ReturnLends DEF Delayed

\* nor that of the wait
LEMMA NotifiedLends ==
    ASSUME WInv, WInv', Lending, NEW t \in Task, Notified(t)
    PROVE  Harmless
<1>1. /\ Types /\ Op(t) = "notifyTake" /\ q' = q
      /\ th' = [th EXCEPT ![t].in = Outside, ![t].notified = 0, ![t].waiting = FALSE]
  BY DEF WInv, Notified
<1>2. th[t] \in Thread /\ th \in [Task -> Thread]
  BY <1>1, ThreadIs DEF Types
<1>3. th'[t].in = Outside /\ \A u \in Task : u # t => Same(th[u].in, th'[u].in)
  BY <1>1, <1>2 DEF Thread, Same
<1>4. \A o \in Mutexes : Within(o) /\ ~ Takes(t, o)
  BY <1>1, SameWithin DEF Takes
<1>5. Proper(t)
  BY <1>3, <1>4, OutProper
<1> QED
  BY <1>3, <1>4, <1>5, SameProper DEF Harmless

\* Going to sleep, but not for a mutex
LEMMA PlaceLends ==
    ASSUME WInv, TInv, Lending, NEW t \in Task, Place(t), \A o \in Mutexes : ~ Takes(t, o)
    PROVE  Harmless
<1> DEFINE in == th[t].in
<1>1. Types /\ At(t, "place")
  BY DEF WInv, Place
<1>2. in.pc = "place" /\ CallTime(in) /\ CallPc(in)
  BY <1>1, AtIs DEF TInv, TaskTime
<1>3. th[t] \in Thread /\ in \in ThreadType /\ th \in [Task -> Thread]
  BY <1>1, ThreadIs DEF Types
<1>4. th' = [th EXCEPT ![t].in.pc = IF Op(t) = "delay" THEN "resume" ELSE "unlockTx",
                       ![t].in.after = "block"]
  BY DEF Place
<1>5. /\ th'[t].in.call = in.call /\ th'[t].in.pc \in {"resume", "unlockTx"}
      /\ th'[t].in.left = in.left
      /\ th'[t].in.inherited = in.inherited /\ th'[t].in.after = "block"
      /\ \A u \in Task : u # t => Same(th[u].in, th'[u].in)
  BY <1>3, <1>4 DEF Thread, ThreadType, Same
<1>6. Lasting(th'[t].in)
  BY <1>2, <1>5 DEF Lasting, CallTime
<1>7. \A o \in Mutexes : q'[o].holder = q[o].holder /\ q'[o].recv = q[o].recv
  <2>1. CASE Op(t) = "delay"
    BY <2>1 DEF Place
  <2>2. CASE Op(t) = "send"
    <3>1. q' = [q EXCEPT ![Obj(t)].send = PlaceInOrder(@, t)]
      BY <2>2 DEF Place
    <3> QED
      BY <1>1, <3>1, MutexIs DEF Types, QState
  <2>3. CASE Op(t) \in Receiving
    <3>1. q' = [q EXCEPT ![Obj(t)].recv = PlaceInOrder(@, t)]
      BY <2>3 DEF Place, Receiving
    <3>2. Obj(t) \notin Mutexes
      <4>1. Obj(t) \in Mutexes => Op(t) \in {"take", "send"}
        BY <2>3, CallOnMutex DEF Lending, Receiving
      <4> QED
        BY <2>3, <4>1 DEF Takes, Receiving
    <3> QED
      BY <1>1, <3>1, <3>2, MutexIs DEF Types
  <2> QED
    BY <1>2, <2>1, <2>2, <2>3 DEF CallPc, Op, Queueing, Sending
<1>8. \A o \in Mutexes : Within(o)
  BY <1>7, SameWithin
<1>9. Proper(t)
  BY <1>5, <1>6, <1>8, GoesProper
<1> QED
  BY <1>5, <1>8, <1>9, SameProper DEF Harmless

\* Interrupts do not use mutexes
LEMMA IsrLends ==
    ASSUME WInv, Lending, Isr
    PROVE  Harmless
<1>1. PICK c \in IsrCalls : \/ c.op = "send" /\ SendFromISR(c.obj)
                            \/ c.op = "receive" /\ ReceiveFromISR(c.obj)
                            \/ c.op = "notify" /\ vTaskNotifyGiveFromISR(c.obj)
  BY DEF Isr
<1>2. Types /\ c \in IsrCallSet /\ c.obj \notin Mutexes
  BY <1>1, KernelAssumption DEF WInv, Mutexes
<1>3. CASE c.op # "notify"
  <2>1. th' = th /\ \E y : q' = [q EXCEPT ![c.obj] = y]
    BY <1>1, <1>3 DEF SendFromISR, ReceiveFromISR
  <2>2. \A o \in Mutexes : q'[o].holder = q[o].holder /\ q'[o].recv = q[o].recv
    BY <1>2, <2>1, MutexIs DEF Types
  <2>3. \A u \in Task : Same(th[u].in, th'[u].in)
    BY <2>1 DEF Same
  <2> QED
    BY <2>2, <2>3, SameWithin, SameProper DEF Harmless
<1>4. CASE c.op = "notify"
  <2>1. q' = q /\ th' = [th EXCEPT ![c.obj].notified = @ + 1, ![c.obj].waiting = FALSE]
    BY <1>1, <1>4 DEF vTaskNotifyGiveFromISR
  <2>2. \A u \in Task : th[u] \in Thread /\ th \in [Task -> Thread]
    BY <1>2, ThreadIs DEF Types
  <2>3. \A u \in Task : Same(th[u].in, th'[u].in)
    BY <2>1, <2>2 DEF Thread, Same
  <2> QED
    BY <2>1, <2>3, SameWithin, SameProper DEF Harmless
<1> QED
  BY <1>3, <1>4

---------------------------------------------------------------------------
(* A mutex changes hands *)

\* A task outside any call
LEMMA OutIs ==
    ASSUME NEW t \in Task, th'[t].in = Outside
    PROVE  /\ th'[t].in.call = NoCall /\ th'[t].in.call.op = "none"
           /\ Lasting(th'[t].in) /\ \A o : ~ Takes(t, o)'
<1> DEFINE in == Outside
<1>1. in.call = NoCall /\ in.call.op = "none" /\ in.pc = "run"
  BY DEF Outside, NoCall
<1>2. in.after = ""
  BY Zenon DEF Outside
<1> HIDE DEF in
<1>3. th'[t].in = in
  BY DEF in
<1>4. th'[t].in.after = "" /\ th'[t].in.pc = "run"
  BY <1>1, <1>2, <1>3
<1>5. Lasting(th'[t].in)
  BY ONLY <1>4 DEF Lasting
<1> QED
  BY <1>1, <1>3, <1>5 DEF Takes, Op

\* When one task moves, all are still in calls of their own
LEMMA CallsStay ==
    ASSUME Lending, NEW t \in Task, th'[t].in.call \in Calls[t] \cup {NoCall},
           Lasting(th'[t].in), \A u \in Task : u # t => Same(th[u].in, th'[u].in)
    PROVE  \A u \in Task : th'[u].in.call \in Calls[u] \cup {NoCall} /\ Lasting(th'[u].in)
BY DEF Lending, Owned, Lasting, Same

\* and the other mutexes stay as they are
LEMMA OtherGroup ==
    ASSUME WInv, WInv', Lending, NEW t \in Task,
           th'[t].in = Outside \/ th'[t].in.call = th[t].in.call,
           \A u \in Task : u # t => Same(th[u].in, th'[u].in),
           NEW p \in Mutexes, p # Obj(t), q'[p] = q[p],
           q[p].holder # NULL => k'.prio[q[p].holder] = k.prio[q[p].holder]
    PROVE  Group(p)'
<1>1. Types /\ k \in KState /\ Group(p) /\ q[p].recv \in Seq(Task) /\ q[p].holder \in Task \cup {NULL}
  BY MutexIs DEF WInv, Types, Lending, Grouped
<1>2. th'[t].in.call.op \notin Receiving \/ th'[t].in.call.obj # p
  <2>1. CASE th'[t].in = Outside
    BY <2>1, OutIs DEF Receiving
  <2>2. CASE th'[t].in.call = th[t].in.call
    BY <2>2 DEF Obj
  <2> QED
    BY <2>1, <2>2
<1>3. t \notin In(q'[p].recv) /\ ~ Takes(t, p) /\ ~ Takes(t, p)'
  BY <1>2, NotWaiting DEF Takes, Op, Obj, Receiving
<1>4. ASSUME NEW u \in Task
      PROVE  Follows(u, p)
  <2>1. CASE u = t
    BY <1>3, <2>1, OthersFollow
  <2>2. CASE u # t
    <3>1. Same(th[u].in, th'[u].in)
      BY <2>2
    <3>2. Way(th[u].in, th'[u].in, q[p].holder)
      BY <3>1 DEF Way, Same
    <3> QED
      BY <1>1, <3>1, <3>2, GoesFollows DEF Same
  <2> QED
    BY <2>1, <2>2
<1>5. Falling(q'[p].recv)
  BY <1>1 DEF Group
<1> QED
  BY <1>1, <1>4, <1>5, GroupStays

\* Whoever takes a mutex is the first to come to it of those who want it
LEMMA TakesFirst ==
    ASSUME OneMutexEach, WInv, HeldByOthers, Ranking, Exclusive, Lending,
           NEW t \in Task, At(t, "try"), NEW o \in Mutexes, Takes(t, o),
           q[o].holder = NULL, NEW s \in In(q[o].recv)
    PROVE  Base[s] <= Base[t]
<1>1. /\ Types /\ k \in KState /\ t = k.cur /\ ~ k.pendSV /\ ~ k.suspended
      /\ k.pendingReady = {}
  BY AtIs DEF WInv, Types, Inside
<1>2. k.prio[t] = Base[t] /\ Uses(t, o)
  BY TakersOwn DEF Lending
<1>3. CASE missed
  BY <1>1, <1>2, <1>3 DEF Lending, Missed
<1>4. CASE ~ missed
  <2>1. Top(k)
    BY <1>1, <1>4 DEF Ranking, Settled
  <2>2. PICK w \in Task : Looks(w, o) /\ Base[w] >= Base[s]
    BY DEF Lending, Grouped, Group
  <2>3. k.list[w] = "ready"
    BY <1>1, <2>2, TakersAwake DEF Looks, AwakeTasks, ReadyTasks
  <2>4. k.prio[w] = Base[w]
    BY <2>2, TakersOwn DEF Lending, Looks
  <2>5. s \in Task
    BY WaitersTake DEF Lending
  <2> QED
    BY <1>1, <1>2, <2>1, <2>2, <2>3, <2>4, <2>5, BaseIs DEF Top
<1> QED
  BY <1>3, <1>4

\* A mutex is taken by a task that finds it free
LEMMA ReceiveMutex ==
    ASSUME OneMutexEach, WInv, WInv', HeldByOthers, Ranking, Exclusive, Lending,
           NEW t \in Task, Receive(t), NEW o \in Mutexes, Obj(t) = o, missed' = missed
    PROVE  Lending'
<1> DEFINE list == q[o].recv
<1>1. /\ Types /\ k \in KState /\ At(t, "try") /\ Return(t) /\ ~ Empty(o)
      /\ Op(t) \in {"receive", "take"}
      /\ q' = [q EXCEPT ![o].msgs = @ - 1, ![o].send = Rest(@),
                        ![o].holder = IF Type[o] = "mutex" THEN t ELSE NULL]
  BY DEF WInv, Types, Receive
<1>2. t = k.cur /\ \A u \in Task : th[u].in.pc \notin Inside
  BY <1>1, AtIs DEF Inside
<1>3. /\ o \in Object /\ Type[o] = "mutex" /\ Takes(t, o) /\ q[o].holder = NULL
      /\ list \in Seq(Task) /\ t # NULL
  <2>1. Op(t) = "take"
    BY <1>1, CallOnMutex DEF Lending
  <2> QED
    BY <1>1, <2>1, MutexIs, KernelAssumption DEF Takes, Exclusive, Empty
<1>4. k.prio[t] = Base[t] /\ Uses(t, o) /\ \A p \in Mutexes : q[p].holder # t
  BY <1>3, TakersOwn DEF Lending
<1>5. th'[t].in = Outside /\ \A u \in Task : u # t => Same(th[u].in, th'[u].in)
  BY <1>1, InBecomes DEF Return
<1>6. /\ q'[o].holder = t /\ q'[o].recv = list
      /\ \A p \in Mutexes : p # o => q'[p] = q[p]
  BY <1>1, <1>3, MutexIs DEF Types, QState
<1>7. k'.prio = k.prio /\ k'.cur = k.cur /\ k'.held = [k.held EXCEPT ![k.cur] = @ + 1]
  BY <1>3, TakenSettles
<1>8. \A s \in In(list) : s \in Task /\ s # t /\ Base[s] <= Base[t]
  BY <1>1, <1>3, <1>6, TakesFirst, WaitersTake, OutIs, <1>5, NotWaiting DEF Lending, Receiving
<1>9. \A u \in Task : th'[u].in.call \in Calls[u] \cup {NoCall} /\ Lasting(th'[u].in)
  BY <1>5, OutIs, CallsStay
<1> HIDE DEF list
<1>10. Owned'
  BY <1>4, <1>6, <1>9 DEF Owned, Lending
<1>11. Counted'
  <2>1. \A u \in Task : k'.held[u] = IF u = t THEN k.held[u] + 1 ELSE k.held[u]
    BY <1>1, <1>2, <1>7, FieldsOf
  <2>2. k.held[t] = 0
    BY <1>4 DEF Lending, Counted
  <2>3. ASSUME NEW u \in Task
        PROVE  (\E p \in Mutexes : q'[p].holder = u) <=>
               (u = t \/ \E p \in Mutexes : q[p].holder = u)
    BY <1>3, <1>6, KernelAssumption
  <2> QED
    BY <2>1, <2>2, <2>3 DEF Lending, Counted
<1>12. Raised'
  <2>1. ASSUME NEW u \in Task, k.prio[u] # Base[u]
        PROVE  \E p \in Mutexes : q'[p].holder = u
    <3>1. PICK p \in Mutexes : q[p].holder = u
      BY <2>1 DEF Lending, Raised
    <3>2. p # o
      BY <1>3, <3>1, KernelAssumption
    <3> QED
      BY <1>6, <3>1, <3>2
  <2> QED
    BY <1>7, <2>1 DEF Lending, Raised
<1>13. Group(o)'
  <2>1. Group(o)
    BY DEF Lending, Grouped
  <2>2. Falling(q'[o].recv)
    BY <1>6, <2>1 DEF Group, list
  <2>3. \A s \in In(q'[o].recv) : th'[s].in.left # 0
    BY <1>5, <1>6, <1>8, <2>1 DEF Group, Same, list
  <2>4. \A u \in Task : ~ (Takes(u, o)' /\ th'[u].in.pc = "place")
    BY <1>2, <1>5, OutIs DEF Same, Inside
  <2>5. \A s \in In(q'[o].recv) : Known(s, t)'
    BY <1>4, <1>6, <1>7, <1>8, BaseIs DEF Known
  <2>6. ~ (k'.prio[t] > Base[t])
    BY <1>4, <1>7, BaseIs
  <2> QED
    BY <1>3, <1>6, <2>2, <2>3, <2>4, <2>5, <2>6 DEF Group
<1>14. Grouped'
  <2>1. ASSUME NEW p \in Mutexes, p # o
        PROVE  Group(p)'
    BY <1>5, <1>6, <1>7, <2>1, OtherGroup
  <2> QED
    BY <1>13, <2>1 DEF Grouped
<1>15. Missed'
  <2> SUFFICES ASSUME missed, NEW p \in Mutexes, Uses(t, p)
               PROVE  /\ q'[p].holder = t
                      /\ \A s \in In(q'[p].recv) : Base[s] <= Base[t]
    BY <1>2, <1>7 DEF Missed
  <2>1. p = o
    BY <1>4 DEF OneMutexEach
  <2> QED
    BY <1>6, <1>8, <2>1
<1> QED
  BY <1>9, <1>10, <1>11, <1>12, <1>14, <1>15 DEF Lending

\* The first that waits for a mutex is the next to look for it, for all the others
LEMMA NextLooks ==
    ASSUME WInv, Lending, NEW o \in Mutexes, NEW w, q[o].recv # << >>, w = Head(q[o].recv),
           q'[o].recv = Rest(q[o].recv),
           Same(th[w].in, th'[w].in)
    PROVE  /\ w \in Task /\ w \in In(q[o].recv) /\ Looks(w, o)' /\ Falling(q'[o].recv)
           /\ In(q'[o].recv) \subseteq In(q[o].recv)
           /\ \A s \in In(q[o].recv) : Base[w] >= Base[s]
<1> DEFINE list == q[o].recv
<1>1. list \in Seq(Task) /\ Falling(list) /\ Once(list) /\ list # << >>
  <2>1. Recv(k, th, o, q[o]) /\ Group(o)
    BY DEF WInv, Sides, Mutexes, Lending, Grouped
  <2> QED
    BY <2>1, MutexIs DEF WInv, Recv, SideOf, Side, Group
<1>2. /\ In(Tail(list)) = In(list) \ {w} /\ w \in In(list) /\ w \in Task /\ Falling(Tail(list))
      /\ \A s \in In(list) : Base[w] >= Base[s]
  BY <1>1, Shifted, FallingHead
<1>3. q'[o].recv = Tail(list)
  BY <1>1 DEF Rest
<1>4. Takes(w, o) /\ WillLook(th[w].in)
  BY <1>2, WaitersTake DEF Lending
<1>5. Takes(w, o)' /\ th'[w].in.pc # "disinherit"
  BY <1>4 DEF Takes, Op, Obj, Same, WillLook
<1> HIDE DEF list
<1>6. Looks(w, o)'
  BY <1>2, <1>3, <1>5 DEF Looks
<1> QED
  BY <1>2, <1>3, <1>6 DEF list

\* A switch that the giving back drops is to a task no higher
LEMMA DroppedSwitch ==
    ASSUME WInv, Lending, NEW t \in Task, Send(t), NEW o \in Mutexes, Obj(t) = o,
           Disinherits(k), ~ k'.pendSV, NEW s \in In(q[o].recv)
    PROVE  Base[s] <= Base[t]
<1> DEFINE list == q[o].recv
           k1 == xTaskPriorityDisinherit(k)
<1>1. Types /\ k \in KState /\ At(t, "try") /\ Type[o] = "mutex" /\ list \in Seq(Task)
  BY MutexIs DEF WInv, Types, Send
<1>2. t = k.cur
  BY <1>1, AtIs
<1>3. k' = IF list = << >> THEN portYIELD(k1) ELSE WakeFirst(k1, list)
  BY <1>1 DEF Send
<1>4. /\ k1 \in KState /\ k1.cur = t
      /\ \A u \in Task : k1.prio[u] = IF u = t THEN Base[u] ELSE k.prio[u]
  BY <1>1, <1>2, DisinheritRanks
<1>5. list # << >>
  BY DEF In
<1>6. Falling(list)
  BY DEF Lending, Grouped, Group
<1>7. Head(list) \in Task /\ Base[Head(list)] >= Base[s] /\ s \in Task
  BY <1>1, <1>5, <1>6, FallingHead DEF In
<1> HIDE DEF k1, list
<1>8. ~ Preempts(k1, {Head(list)})
  <2> SUFFICES ASSUME Preempts(k1, {Head(list)})
               PROVE  k'.pendSV
    OBVIOUS
  <2> DEFINE k2 == xTaskRemoveFromEventList(k1, {Head(list)})
             hs == {Head(list)}
  <2>1. k' = portYIELD(k2)
    BY <1>3, <1>5 DEF WakeFirst
  <2>2. hs \in SUBSET Task /\ k2 = xTaskRemoveFromEventList(k1, hs)
    BY <1>7
  <2> HIDE DEF k2, hs
  <2>3. k2 \in KState
    BY <1>4, <2>2, RemovalRanks DEF Ranked
  <2> QED
    BY <2>1, <2>3, YieldRanks
<1>9. k1.prio[Head(list)] <= Base[t]
  BY <1>4, <1>7, <1>8, Comparable DEF Preempts
<1>10. k1.prio[Head(list)] >= Base[Head(list)]
  BY <1>4, <1>7, BaseIs DEF Lending, Raised
<1> QED
  BY <1>4, <1>7, <1>9, <1>10, BaseIs, Comparable

\* A mutex is given back, and who is called next looks for all who wait
LEMMA SendMutex ==
    ASSUME OneMutexEach, WInv, WInv', HeldByOthers, Exclusive, Lending,
           NEW t \in Task, Send(t), NEW o \in Mutexes, Obj(t) = o
    PROVE  Lending'
<1> DEFINE list == q[o].recv
<1>1. /\ Types /\ k \in KState /\ At(t, "try") /\ Return(t) /\ Op(t) = "send"
      /\ q' = [q EXCEPT ![o].msgs = @ + 1, ![o].recv = Rest(@), ![o].holder = NULL]
  BY DEF WInv, Types, Send
<1>2. t = k.cur /\ \A u \in Task : th[u].in.pc \notin Inside
  BY <1>1, AtIs DEF Inside
<1>3. o \in Object /\ Type[o] = "mutex" /\ q[o].holder = t /\ list \in Seq(Task) /\ t # NULL
  BY <1>1, MutexIs, KernelAssumption DEF Exclusive
<1>4. Uses(t, o) /\ \A p \in Mutexes : p # o => q[p].holder # t
  BY <1>3, OneHolder DEF Lending, Owned
<1>5. th'[t].in = Outside /\ \A u \in Task : u # t => Same(th[u].in, th'[u].in)
  BY <1>1, InBecomes DEF Return
<1>6. /\ q'[o].holder = NULL /\ q'[o].recv = Rest(list)
      /\ \A p \in Mutexes : p # o => q'[p] = q[p]
  BY <1>1, <1>3, MutexIs DEF Types, QState
<1>7. /\ k'.cur = k.cur
      /\ \A u \in Task : k'.held[u] = IF u = t THEN k.held[u] - 1 ELSE k.held[u]
      /\ \A u \in Task : k'.prio[u] = IF u = t /\ Disinherits(k) THEN Base[u] ELSE k.prio[u]
  <2>1. Type[Obj(t)] = "mutex"
    BY <1>3
  <2> QED
    BY <1>2, <2>1, SendSettles
<1>8. k.held[t] = 1 /\ k'.prio[t] = Base[t] /\ \A u \in Task : u # t => k'.prio[u] = k.prio[u]
  <2>1. k.held[t] = 1
    BY <1>3 DEF Lending, Counted
  <2> QED
    BY <1>2, <1>7, <2>1 DEF Disinherits
<1>9. \A u \in Task : th'[u].in.call \in Calls[u] \cup {NoCall} /\ Lasting(th'[u].in)
  BY <1>5, OutIs, CallsStay
<1>10. \A s \in In(list) : s \in Task /\ s # t
  BY <1>1, WaitersTake DEF Lending, Takes
<1>11. In(q'[o].recv) \subseteq In(list)
  <2>1. CASE list = << >>
    BY <1>6, <2>1 DEF Rest
  <2>2. CASE list # << >>
    <3>1. Head(list) \in In(list)
      BY <1>3, <2>2, FallingHead DEF Lending, Grouped, Group
    <3> QED
      BY <1>5, <1>6, <1>10, <2>2, <3>1, NextLooks
  <2> QED
    BY <2>1, <2>2
<1> HIDE DEF list
<1>12. Owned'
  BY <1>6, <1>9 DEF Owned, Lending
<1>13. Counted'
  <2>1. \A p \in Mutexes : q'[p].holder # t
    BY <1>3, <1>4, <1>6
  <2>2. ASSUME NEW u \in Task, u # t
        PROVE  (\E p \in Mutexes : q'[p].holder = u) <=> (\E p \in Mutexes : q[p].holder = u)
    BY <1>3, <1>6, <2>2, KernelAssumption
  <2> QED
    BY <1>7, <1>8, <2>1, <2>2 DEF Lending, Counted
<1>14. Raised'
  <2>1. ASSUME NEW u \in Task, u # t, k.prio[u] # Base[u]
        PROVE  \E p \in Mutexes : q'[p].holder = u
    BY <1>3, <1>6, <2>1 DEF Lending, Raised
  <2> QED
    BY <1>8, <2>1, BaseIs DEF Lending, Raised
<1>15. Group(o)'
  <2>1. Group(o)
    BY DEF Lending, Grouped
  <2>2. \A s \in In(q'[o].recv) : th'[s].in.left # 0
    BY <1>5, <1>10, <1>11, <2>1 DEF Group, Same, list
  <2>3. \A u \in Task : ~ (Takes(u, o)' /\ th'[u].in.pc \in {"inherit", "place"})
    BY <1>2, <1>5, OutIs DEF Same, Inside
  <2>4. CASE list = << >>
    <3>1. q'[o].recv = << >>
      BY <1>6, <2>4 DEF Rest
    <3> QED
      BY <1>6, <2>2, <2>3, <3>1 DEF Group, Falling, In
  <2>5. CASE list # << >>
    <3>1. PICK w \in In(list) : w = Head(list)
      BY <1>3, <2>1, <2>5, FallingHead DEF Group, list
    <3>2. Same(th[w].in, th'[w].in)
      BY <1>5, <1>10, <3>1
    <3>3. /\ w \in Task /\ Looks(w, o)' /\ Falling(q'[o].recv)
          /\ \A s \in In(list) : Base[w] >= Base[s]
      BY <1>6, <2>5, <3>1, <3>2, NextLooks DEF list
    <3> QED
      BY <1>6, <1>11, <2>2, <2>3, <3>3 DEF Group
  <2> QED
    BY <2>4, <2>5
<1>16. Grouped'
  <2>1. ASSUME NEW p \in Mutexes, p # o
        PROVE  Group(p)'
    <3>1. q[p].holder # NULL => k'.prio[q[p].holder] = k.prio[q[p].holder]
      BY <1>1, <1>4, <1>8, <2>1, MutexIs
    <3> QED
      BY <1>5, <1>6, <2>1, <3>1, OtherGroup
  <2> QED
    BY <1>15, <2>1 DEF Grouped
<1>17. Missed'
  <2> SUFFICES ASSUME missed', NEW p \in Mutexes, Uses(t, p)
               PROVE  /\ q'[p].holder = NULL
                      /\ \A s \in In(q'[p].recv) : Base[s] <= Base[t]
    BY <1>2, <1>7 DEF Missed
  <2>1. p = o
    BY <1>4 DEF OneMutexEach
  <2>2. missed \/ (Disinherits(k) /\ ~ k'.pendSV)
    BY DEF Send
  <2>3. CASE missed
    BY <1>2, <1>4, <1>6, <1>11, <2>1, <2>3 DEF Lending, Missed, list
  <2>4. CASE Disinherits(k) /\ ~ k'.pendSV
    BY <1>6, <1>11, <2>1, <2>4, DroppedSwitch DEF list
  <2> QED
    BY <2>2, <2>3, <2>4
<1> QED
  BY <1>9, <1>12, <1>13, <1>14, <1>16, <1>17 DEF Lending

---------------------------------------------------------------------------
(* A task goes to sleep for a mutex *)

\* In a call on another object nothing is lent
LEMMA InheritLends ==
    ASSUME WInv, HeldByOthers, Exclusive, Lending, NEW t \in Task, Inherit(t),
           \A o \in Mutexes : ~ Takes(t, o)
    PROVE  Harmless /\ k' = k
<1> DEFINE lent == Inherits(k, q[Obj(t)].holder)  in == th[t].in
<1>1. /\ Types /\ k \in KState /\ At(t, "inherit") /\ q' = q
      /\ k' = xTaskPriorityInherit(k, q[Obj(t)].holder)
      /\ th' = [th EXCEPT ![t].in.pc = "place", ![t].in.inherited = lent]
  BY DEF WInv, Types, Inherit
<1> HIDE DEF lent
<1>2. t = k.cur /\ Op(t) \in Queueing /\ Obj(t) \in Object
  BY <1>1, AtIs, ThreadIs DEF CallPc, Op, Inside
<1>3. k' = k
  <2>1. CASE Obj(t) \in Mutexes
    <3>1. Op(t) = "send"
      BY <1>2, <2>1, CallOnMutex DEF Takes, Queueing, Receiving, Sending, Lending
    <3>2. q[Obj(t)].holder = k.cur
      BY <1>2, <2>1, <3>1 DEF Exclusive
    <3>3. ~ (k.prio[k.cur] < k.prio[k.cur])
      BY <1>1, Comparable
    <3> QED
      BY <1>1, <3>2, <3>3 DEF xTaskPriorityInherit
  <2>2. CASE Obj(t) \notin Mutexes
    <3>1. q[Obj(t)].holder = NULL
      BY <1>2, <2>2 DEF HeldByOthers, Mutexes
    <3> QED
      BY <1>1, <3>1, KernelAssumption DEF xTaskPriorityInherit
  <2> QED
    BY <2>1, <2>2
<1>4. th[t] \in Thread /\ in \in ThreadType /\ th \in [Task -> Thread]
  BY <1>1, ThreadIs DEF Types
<1>5. /\ th'[t].in.call = in.call /\ th'[t].in.pc = "place" /\ th'[t].in.after = in.after
      /\ th'[t].in.left = in.left
      /\ \A u \in Task : u # t => Same(th[u].in, th'[u].in)
  BY <1>1, <1>4 DEF Thread, ThreadType, Same
<1>6. th'[t].in.call \in Calls[t] \cup {NoCall} /\ Lasting(th'[t].in)
  BY <1>5 DEF Lending, Owned, Lasting
<1>7. ASSUME NEW o \in Mutexes
      PROVE  Follows(t, o)
  <2>1. t \notin In(q'[o].recv)
    BY <1>1, WaitersTake DEF Lending
  <2>2. ~ Takes(t, o)'
    BY <1>5 DEF Takes, Op, Obj
  <2> QED
    BY <2>1, <2>2, OthersFollow
<1>8. \A o \in Mutexes : Within(o)
  BY <1>1, SameWithin
<1>9. Proper(t)
  BY <1>6, <1>7 DEF Proper
<1> QED
  BY <1>3, <1>5, <1>8, <1>9, SameProper DEF Harmless

\* The holder is lent the priority of a task about to sleep
LEMMA InheritMutex ==
    ASSUME OneMutexEach, WInv, WInv', HeldByOthers, Exclusive, Lending,
           NEW t \in Task, Inherit(t), NEW o \in Mutexes, Takes(t, o), missed' = missed
    PROVE  Lending'
<1> DEFINE in == th[t].in
<1>1. /\ Types /\ k \in KState /\ At(t, "inherit") /\ q' = q /\ Obj(t) = o
      /\ k' = xTaskPriorityInherit(k, q[o].holder)
      /\ th' = [th EXCEPT ![t].in.pc = "place", ![t].in.inherited = Inherits(k, q[o].holder)]
  BY DEF WInv, Types, Inherit, Takes
<1>2. t = k.cur /\ in.pc = "inherit"
  BY <1>1, AtIs
<1>3. Group(o) /\ q[o].recv \in Seq(Task)
  BY <1>1, MutexIs DEF Lending, Grouped
<1>4. PICK h \in Task : q[o].holder = h /\ h # NULL
  BY <1>1, <1>2, <1>3, MutexIs DEF Group
<1>5. k.prio[t] = Base[t] /\ h # t /\ Uses(t, o) /\ \A p \in Mutexes : q[p].holder # t
  BY <1>4, TakersOwn DEF Lending
<1>6. th[t] \in Thread /\ in \in ThreadType /\ th \in [Task -> Thread]
  BY <1>1, ThreadIs DEF Types
<1>7. /\ th'[t].in.call = in.call /\ th'[t].in.pc = "place" /\ th'[t].in.after = in.after
      /\ th'[t].in.inherited = Inherits(k, h) /\ th'[t].in.left = in.left
      /\ \A u \in Task : u # t => Same(th[u].in, th'[u].in)
  BY <1>1, <1>4, <1>6 DEF Thread, ThreadType, Same
<1>8. th'[t].in.inherited <=> Base[h] < Base[t]
  BY <1>2, <1>4, <1>5, <1>7 DEF Inherits
<1>9. /\ k'.held = k.held
      /\ k'.prio[h] = IF k.prio[h] < Base[t] THEN Base[t] ELSE k.prio[h]
      /\ \A u \in Task : u # h => k'.prio[u] = k.prio[u]
  BY <1>1, <1>2, <1>4, <1>5, InheritRanks
<1>10. \A u \in Task : k.prio[u] \in Int /\ Base[u] \in Int
  BY <1>1, BaseIs, Comparable
<1>11. \A u \in Task : th'[u].in.call \in Calls[u] \cup {NoCall} /\ Lasting(th'[u].in)
  <2>1. th'[t].in.call \in Calls[t] \cup {NoCall} /\ Lasting(th'[t].in)
    BY <1>7 DEF Lending, Owned, Lasting
  <2> QED
    BY <1>7, <2>1, CallsStay
<1>12. Owned' /\ Counted'
  BY <1>1, <1>9, <1>11 DEF Lending, Owned, Counted
<1>13. Raised'
  <2>1. k.prio[h] >= Base[h]
    BY DEF Lending, Raised
  <2>2. k'.prio[h] >= Base[h]
    BY <1>9, <1>10, <2>1
  <2> QED
    BY <1>1, <1>4, <1>9, <2>2 DEF Lending, Raised
<1>14. Group(o)'
  <2>1. \A s \in In(q[o].recv) : s \in Task /\ s # t
    <3>1. t \notin In(q[o].recv)
      BY <1>2, WaitersTake DEF Lending, WillLook
    <3> QED
      BY <3>1, WaitersTake DEF Lending
  <2>2. k'.prio[h] >= k.prio[h] /\ k'.prio[h] >= Base[t]
    BY <1>9, <1>10
  <2>3. \A s \in In(q'[o].recv) : th'[s].in.left # 0 /\ Known(s, h)'
    <3> TAKE s \in In(q'[o].recv)
    <3>1. s \in Task /\ s # t /\ Same(th[s].in, th'[s].in) /\ th[s].in.left # 0 /\ Known(s, h)
      BY <1>1, <1>3, <1>4, <1>7, <2>1 DEF Group
    <3>2. k'.prio[h] >= Base[s]
      BY <1>9, <1>10, <2>2, <3>1 DEF Known
    <3> QED
      BY <3>1, <3>2 DEF Known, Same
  <2>4. ASSUME NEW u \in Task, Takes(u, o)', th'[u].in.pc = "place"
        PROVE  Known(u, h)'
    <3>1. CASE u = t
      BY <1>8, <2>2, <3>1 DEF Known
    <3>2. CASE u # t
      <4>1. Takes(u, o) /\ th[u].in.pc = "place" /\ Same(th[u].in, th'[u].in)
        BY <1>7, <2>4, <3>2 DEF Same, Takes, Op, Obj
      <4>2. Known(u, h)
        BY <1>3, <1>4, <4>1 DEF Group
      <4>3. k'.prio[h] >= Base[u]
        BY <1>9, <1>10, <2>2, <4>2 DEF Known
      <4> QED
        BY <4>1, <4>2, <4>3 DEF Known, Same
    <3> QED
      BY <3>1, <3>2
  <2>5. ASSUME k'.prio[h] > Base[h]
        PROVE  \E u \in Task : Backs(u, o)' /\ Base[u] = k'.prio[h]
    <3>1. Takes(t, o)'
      BY <1>7 DEF Takes, Op, Obj
    <3>2. Base[h] < Base[t] => Backs(t, o)'
      BY <1>7, <1>8, <3>1 DEF Backs, Lends
    <3>3. CASE k.prio[h] < Base[t]
      BY <1>9, <2>5, <3>2, <3>3
    <3>4. CASE ~ (k.prio[h] < Base[t])
      <4>1. PICK u \in Task : Backs(u, o) /\ Base[u] = k.prio[h]
        BY <1>3, <1>4, <1>9, <2>5, <3>4 DEF Group
      <4>2. CASE u = t
        BY <1>9, <2>5, <3>2, <3>4, <4>1, <4>2
      <4>3. CASE u # t
        <5>1. Backs(u, o)'
          BY <1>7, <4>1, <4>3 DEF Backs, Same, Takes, Op, Obj, Lends
        <5> QED
          BY <1>9, <3>4, <4>1, <5>1
      <4> QED
        BY <4>2, <4>3
    <3> QED
      BY <3>3, <3>4
  <2>6. Falling(q'[o].recv) /\ q'[o].holder = h /\ h # NULL
    BY <1>1, <1>3, <1>4 DEF Group
  <2> QED
    BY <2>3, <2>4, <2>5, <2>6 DEF Group
<1>15. Grouped'
  <2>1. ASSUME NEW p \in Mutexes, p # o
        PROVE  Group(p)'
    <3>1. q[p].holder # h
      BY <1>4, <2>1, OneHolder DEF Lending
    <3>2. q[p].holder # NULL => k'.prio[q[p].holder] = k.prio[q[p].holder]
      BY <1>1, <1>9, <3>1, MutexIs
    <3> QED
      BY <1>1, <1>7, <2>1, <3>2, OtherGroup
  <2> QED
    BY <1>14, <2>1 DEF Grouped
<1>16. Missed'
  <2>1. ~ missed
    BY <1>2, <1>4, <1>5 DEF Lending, Missed
  <2> QED
    BY <2>1 DEF Missed
<1> QED
  BY <1>11, <1>12, <1>13, <1>15, <1>16 DEF Lending

\* and the task takes its place among those who wait
LEMMA PlaceMutex ==
    ASSUME OneMutexEach, WInv, WInv', TInv, HeldByOthers, Exclusive, Lending,
           NEW t \in Task, Place(t), NEW o \in Mutexes, Takes(t, o), missed' = missed
    PROVE  Lending'
<1> DEFINE in == th[t].in  list == q[o].recv
<1>1. /\ Types /\ k \in KState /\ At(t, "place") /\ Obj(t) = o /\ Op(t) = "take"
      /\ q' = [q EXCEPT ![o].recv = PlaceInOrder(@, t)]
      /\ th' = [th EXCEPT ![t].in.pc = "unlockTx", ![t].in.after = "block"]
  BY DEF WInv, Types, Place, Takes
<1>2. t = k.cur /\ in.pc = "place" /\ in.left # 0
  BY <1>1, AtIs DEF TInv, TaskTime, CallTime
<1>3. Group(o) /\ list \in Seq(Task) /\ o \in Object
  BY <1>1, MutexIs DEF Lending, Grouped
<1>4. PICK h \in Task : q[o].holder = h /\ h # NULL
  BY <1>1, <1>2, <1>3, MutexIs DEF Group
<1>5. k.prio[t] = Base[t] /\ h # t /\ Uses(t, o)
  BY <1>4, TakersOwn DEF Lending
<1>6. th[t] \in Thread /\ in \in ThreadType /\ th \in [Task -> Thread]
  BY <1>1, ThreadIs DEF Types
<1>7. /\ th'[t].in.call = in.call /\ th'[t].in.pc = "unlockTx" /\ th'[t].in.after = "block"
      /\ th'[t].in.inherited = in.inherited /\ th'[t].in.left = in.left
      /\ \A u \in Task : u # t => Same(th[u].in, th'[u].in)
  BY <1>1, <1>6 DEF Thread, ThreadType, Same
<1>8. k'.prio = k.prio /\ k'.held = k.held
  BY PlaceSettles DEF Steady
<1>9. \A u \in Task : th'[u].in.call \in Calls[u] \cup {NoCall} /\ Lasting(th'[u].in)
  <2>1. th'[t].in.call \in Calls[t] \cup {NoCall} /\ Lasting(th'[t].in)
    BY <1>2, <1>7 DEF Lending, Owned, Lasting
  <2> QED
    BY <1>7, <2>1, CallsStay
<1>10. /\ q'[o].holder = q[o].holder /\ q'[o].recv = PlaceInOrder(list, t)
       /\ \A p \in Mutexes : p # o => q'[p] = q[p]
  BY <1>1, <1>3, MutexIs DEF Types, QState
<1>11. \A p \in Mutexes : q'[p].holder = q[p].holder
  BY <1>10
<1>12. Owned' /\ Counted' /\ Raised'
  BY <1>8, <1>9, <1>11 DEF Lending, Owned, Counted, Raised
<1>13. \A s \in In(list) : s \in Task /\ s # t /\ k.prio[s] = Base[s]
  <2>1. t \notin In(list)
    BY <1>2, WaitersTake DEF Lending, WillLook
  <2> QED
    BY <2>1, WaitersTake, TakersOwn DEF Lending
<1> HIDE DEF list
<1>14. Falling(q'[o].recv) /\ In(q'[o].recv) = In(list) \cup {t}
  <2>1. Falling(list)
    BY <1>3 DEF Group, list
  <2> QED
    BY <1>1, <1>3, <1>5, <1>10, <1>13, <2>1, FallingPlaced, Placed
<1>15. Group(o)'
  <2>1. Known(t, h) /\ \A s \in In(list) : th[s].in.left # 0 /\ Known(s, h)
    BY <1>2, <1>3, <1>4 DEF Group, list
  <2>2. \A s \in In(q'[o].recv) : th'[s].in.left # 0 /\ Known(s, h)'
    <3> TAKE s \in In(q'[o].recv)
    <3>1. CASE s = t
      BY <1>2, <1>7, <1>8, <2>1, <3>1 DEF Known
    <3>2. CASE s # t
      BY <1>7, <1>8, <1>13, <1>14, <2>1, <3>2 DEF Known, Same
    <3> QED
      BY <3>1, <3>2
  <2>3. ASSUME NEW u \in Task, Takes(u, o)', th'[u].in.pc = "place"
        PROVE  Known(u, h)'
    <3>1. u # t
      BY <1>7, <2>3
    <3>2. Takes(u, o) /\ th[u].in.pc = "place" /\ Same(th[u].in, th'[u].in)
      BY <1>7, <2>3, <3>1 DEF Same, Takes, Op, Obj
    <3>3. Known(u, h)
      BY <1>3, <1>4, <3>2 DEF Group
    <3> QED
      BY <1>8, <3>2, <3>3 DEF Known, Same
  <2>4. ASSUME k'.prio[h] > Base[h]
        PROVE  \E u \in Task : Backs(u, o)' /\ Base[u] = k'.prio[h]
    <3>1. PICK u \in Task : Backs(u, o) /\ Base[u] = k.prio[h]
      BY <1>3, <1>4, <1>8, <2>4 DEF Group
    <3>2. Backs(u, o)'
      BY <1>7, <3>1 DEF Backs, Same, Takes, Op, Obj, Lends
    <3> QED
      BY <1>8, <3>1, <3>2
  <2> QED
    BY <1>4, <1>10, <1>14, <2>2, <2>3, <2>4 DEF Group
<1>16. Grouped'
  <2>1. ASSUME NEW p \in Mutexes, p # o
        PROVE  Group(p)'
    BY <1>1, <1>7, <1>8, <1>10, <2>1, OtherGroup
  <2> QED
    BY <1>15, <2>1 DEF Grouped
<1>17. Missed'
  <2>1. ~ missed
    BY <1>2, <1>4, <1>5 DEF Lending, Missed
  <2> QED
    BY <2>1 DEF Missed
<1> QED
  BY <1>9, <1>12, <1>16, <1>17 DEF Lending

---------------------------------------------------------------------------
(* A task gives up its wait for a mutex *)

\* Nobody holds it, or it is none
LEMMA DisinheritLends ==
    ASSUME WInv, WInv', Lending, NEW t \in Task, Disinherit(t), q[Obj(t)].holder = NULL
    PROVE  Harmless /\ k' = k /\ (missed' => missed)
<1>1. /\ Types /\ k \in KState /\ At(t, "disinherit") /\ Return(t) /\ q' = q
      /\ missed' = (missed \/ \E u \in Task : k'.prio[u] > k.prio[u])
  BY DEF WInv, Types, Disinherit
<1>2. k' = k
  BY KernelAssumption DEF Disinherit, vTaskPriorityDisinheritAfterTimeout
<1>3. missed' => missed
  <2>1. \A u \in Task : ~ (k'.prio[u] > k.prio[u])
    BY <1>1, <1>2, Comparable
  <2> QED
    BY <1>1, <2>1
<1>4. th[t].in.pc = "disinherit"
  BY <1>1, AtIs
<1>5. th'[t].in = Outside /\ \A u \in Task : u # t => Same(th[u].in, th'[u].in)
  BY <1>1, InBecomes DEF Return
<1>6. \A p \in Mutexes : Within(p)
  BY <1>1, SameWithin
<1>7. ASSUME NEW p \in Mutexes
      PROVE  Follows(t, p)
  <2>1. Takes(t, p) => q[p].holder = NULL
    BY DEF Takes
  <2>2. ~ Takes(t, p)' /\ t \notin In(q'[p].recv)
    BY <1>5, OutIs, NotWaiting DEF Receiving
  <2> QED
    BY <1>4, <2>1, <2>2 DEF Follows, Looks, Backs
<1>8. Proper(t)
  BY <1>5, <1>7, OutIs DEF Proper
<1> QED
  BY <1>2, <1>3, <1>5, <1>6, <1>8, SameProper DEF Harmless

\* A raised holder stands among the ready tasks of the one that raised him
LEMMA BackedAwake ==
    ASSUME OneMutexEach, WInv, HeldByOthers, Lending, NEW o \in Mutexes, NEW h \in Task,
           q[o].holder = h, NEW u \in Task, Backs(u, o), Base[u] = k.prio[h],
           u \notin In(q[o].recv), k.pendingReady = {}
    PROVE  NotAlone(k, h)
<1>1. u \in AwakeTasks(k)
  BY TakersAwake DEF Backs
<1>2. k.list[u] = "ready" /\ k.prio[u] = k.prio[h] /\ u # h
  BY <1>1, TakersOwn DEF AwakeTasks, ReadyTasks, Backs, Lending
<1> QED
  BY <1>2 DEF NotAlone

\* The holder comes down to the first that still waits, or to himself
LEMMA DisinheritMutex ==
    ASSUME OneMutexEach, WInv, WInv', HeldByOthers, Exclusive, Lending,
           NEW t \in Task, Disinherit(t), NEW o \in Mutexes, Obj(t) = o, q[o].holder # NULL
    PROVE  Lending' /\ (Lean(k) => Lean(k'))
<1> DEFINE in == th[t].in  list == q[o].recv  w == HighestWaiting(o)
<1>1. /\ Types /\ k \in KState /\ At(t, "disinherit") /\ Return(t) /\ q' = q
      /\ k' = vTaskPriorityDisinheritAfterTimeout(k, q[o].holder, w)
      /\ missed' = (missed \/ \E u \in Task : k'.prio[u] > k.prio[u])
  BY DEF WInv, Types, Disinherit
<1>2. /\ t = k.cur /\ in.pc = "disinherit" /\ k.pendingReady = {} /\ CallPc(in)
      /\ \A u \in Task : th[u].in.pc \notin Inside
  BY <1>1, AtIs DEF Inside
<1>3. Takes(t, o)
  <2>1. Op(t) \in Receiving
    BY <1>2 DEF CallPc, Op, Queueing, Sending
  <2>2. Op(t) = "take"
    BY <2>1, CallOnMutex DEF Lending, Receiving
  <2> QED
    BY <2>2 DEF Takes
<1>4. Group(o) /\ list \in Seq(Task) /\ o \in Object
  BY <1>1, MutexIs DEF Lending, Grouped
<1>5. PICK h \in Task : q[o].holder = h /\ h # NULL
  BY <1>1, MutexIs
<1>6. k.prio[t] = Base[t] /\ h # t /\ Uses(t, o)
  BY <1>3, <1>5, TakersOwn DEF Lending
<1>7. th'[t].in = Outside /\ \A u \in Task : u # t => Same(th[u].in, th'[u].in)
  BY <1>1, InBecomes DEF Return
<1>8. \A u \in Task : k.prio[u] \in Int /\ Base[u] \in Int
  BY <1>1, BaseIs, Comparable
<1>9. k.held[h] = 1 /\ k.prio[h] >= Base[h]
  BY <1>5 DEF Lending, Counted, Raised
<1>10. \A s \in In(list) : s \in Task /\ s # t /\ Takes(s, o) /\ k.prio[s] = Base[s]
  <2>1. t \notin In(list)
    BY <1>2, WaitersTake DEF Lending, WillLook
  <2> QED
    BY <2>1, WaitersTake, TakersOwn DEF Lending
<1>11. PICK m : m = IF Base[h] >= w THEN Base[h] ELSE w
  OBVIOUS
<1>12. /\ w \in Priority
       /\ m \in Int /\ Base[h] <= m /\ m <= k.prio[h]
       /\ \A s \in In(list) : m >= Base[s]
       /\ m # Base[h] => \E s \in In(list) : Base[s] = m
  <2>1. CASE list = << >>
    <3>1. w = 0 /\ In(list) = {}
      BY <2>1 DEF HighestWaiting, In
    <3> QED
      BY <1>8, <1>9, <1>11, <3>1, Numbers, SchedulerAssumption
  <2>2. CASE list # << >>
    <3>1. /\ Head(list) \in In(list) /\ Head(list) \in Task
          /\ \A s \in In(list) : Base[Head(list)] >= Base[s]
      BY <1>4, <2>2, FallingHead DEF Group
    <3>2. w = Base[Head(list)]
      BY <1>10, <2>2, <3>1 DEF HighestWaiting
    <3>3. k.prio[h] >= Base[Head(list)]
      BY <1>4, <1>5, <3>1 DEF Group, Known
    <3> QED
      BY <1>8, <1>9, <1>10, <1>11, <3>1, <3>2, <3>3, BaseIs
  <2> QED
    BY <2>1, <2>2
<1> HIDE DEF w
<1>13. /\ k'.held = k.held /\ k'.prio[h] = m
       /\ \A u \in Task : u # h => k'.prio[u] = k.prio[u]
       /\ NotAlone(k, h) \/ k.prio[h] = m => (Lean(k) => Lean(k'))
  BY <1>1, <1>5, <1>9, <1>11, <1>12, TimeoutMoves
<1>14. \A u \in Task : th'[u].in.call \in Calls[u] \cup {NoCall} /\ Lasting(th'[u].in)
  BY <1>7, OutIs, CallsStay
<1> HIDE DEF list
<1>15. Owned' /\ Counted'
  BY <1>1, <1>13, <1>14 DEF Lending, Owned, Counted
<1>16. Raised'
  <2>1. k'.prio[h] >= Base[h]
    BY <1>8, <1>12, <1>13
  <2> QED
    BY <1>1, <1>5, <1>13, <2>1 DEF Lending, Raised
<1>17. Group(o)'
  <2>1. \A s \in In(list) : th[s].in.left # 0 /\ Known(s, h)
    BY <1>4, <1>5 DEF Group, list
  <2>2. \A s \in In(q'[o].recv) : th'[s].in.left # 0 /\ Known(s, h)'
    BY <1>1, <1>7, <1>10, <1>12, <1>13, <2>1 DEF Known, Same, list
  <2>3. \A u \in Task : ~ (Takes(u, o)' /\ th'[u].in.pc = "place")
    BY <1>2, <1>7, OutIs DEF Same, Inside
  <2>4. ASSUME k'.prio[h] > Base[h]
        PROVE  \E u \in Task : Backs(u, o)' /\ Base[u] = k'.prio[h]
    <3>1. PICK s \in In(list) : Base[s] = m
      BY <1>8, <1>12, <1>13, <2>4
    <3>2. s \in Task /\ s # t /\ Takes(s, o) /\ th[s].in.inherited /\ th[s].in.left # 0
      BY <1>10, <1>13, <2>1, <2>4, <3>1 DEF Known
    <3>3. Backs(s, o)'
      BY <1>7, <3>2 DEF Backs, Lends, Same, Takes, Op, Obj
    <3> QED
      BY <1>13, <3>1, <3>2, <3>3
  <2>5. Falling(q'[o].recv) /\ q'[o].holder = h /\ h # NULL
    BY <1>1, <1>4, <1>5 DEF Group
  <2> QED
    BY <2>2, <2>3, <2>4, <2>5 DEF Group
<1>18. Grouped'
  <2>1. ASSUME NEW p \in Mutexes, p # o
        PROVE  Group(p)'
    <3>1. q[p].holder # h
      BY <1>5, <2>1, OneHolder DEF Lending
    <3>2. q[p].holder # NULL => k'.prio[q[p].holder] = k.prio[q[p].holder]
      BY <1>1, <1>13, <3>1, MutexIs
    <3> QED
      BY <1>1, <1>7, <2>1, <3>2, OtherGroup
  <2> QED
    BY <1>17, <2>1 DEF Grouped
<1>19. Missed'
  <2>1. ~ missed
    BY <1>2, <1>5, <1>6 DEF Lending, Missed
  <2>2. \A u \in Task : ~ (k'.prio[u] > k.prio[u])
    BY <1>8, <1>12, <1>13
  <2>3. ~ missed'
    BY <1>1, <2>1, <2>2
  <2> QED
    BY <2>3 DEF Missed
<1>20. Lean(k) => Lean(k')
  <2>1. CASE k.prio[h] = m
    BY <1>13, <2>1
  <2>2. CASE k.prio[h] # m
    <3>1. k.prio[h] > Base[h] /\ \A s \in In(list) : Base[s] # k.prio[h]
      BY <1>8, <1>10, <1>12, <2>2
    <3>2. PICK u \in Task : Backs(u, o) /\ Base[u] = k.prio[h]
      BY <1>4, <1>5, <3>1 DEF Group
    <3>3. u \notin In(q[o].recv)
      BY <3>1, <3>2 DEF list
    <3>4. NotAlone(k, h)
      BY <1>2, <1>5, <3>2, <3>3, BackedAwake
    <3> QED
      BY <1>13, <3>4
  <2> QED
    BY <2>1, <2>2
<1> QED
  BY <1>14, <1>15, <1>16, <1>18, <1>19, <1>20 DEF Lending

---------------------------------------------------------------------------
(* Everything the system does, for the mutexes *)

\* A step harmless to the mutexes that changes no priority keeps what is lent
LEMMA HarmlessLends ==
    ASSUME WInv, WInv', Lending, Harmless, Steady(k, k'), missed' => missed
    PROVE  Lending'
BY LendingStays DEF Steady

\* A step of a task in its call
LEMMA StepLends ==
    ASSUME OneMutexEach, WInv, WInv', TInv, HeldByOthers, Ranking, Exclusive, Lending,
           NEW t \in Task, Step(t), missed' = missed
    PROVE  Lending'
<1>1. CASE Receive(t)
  <2>1. CASE Obj(t) \in Mutexes
    BY <1>1, <2>1, ReceiveMutex
  <2>2. CASE Obj(t) \notin Mutexes
    <3>1. Obj(t) \in Object
      BY <1>1, ThreadIs DEF WInv, Receive, Queueing, Receiving
    <3>2. Type[Obj(t)] # "mutex"
      BY <2>2, <3>1 DEF Mutexes
    <3>3. Steady(k, k')
      BY <1>1, <3>2, TakenSettles DEF Steady
    <3> QED
      BY <1>1, <2>2, <3>3, ReceiveLends, HarmlessLends
  <2> QED
    BY <2>1, <2>2
<1>2. CASE Inherit(t)
  <2>1. CASE \E o \in Mutexes : Takes(t, o)
    BY <1>2, <2>1, InheritMutex
  <2>2. CASE \A o \in Mutexes : ~ Takes(t, o)
    BY <1>2, <2>2, InheritLends, HarmlessLends DEF Steady
  <2> QED
    BY <2>1, <2>2
<1>3. CASE Place(t)
  <2>1. CASE \E o \in Mutexes : Takes(t, o)
    BY <1>3, <2>1, PlaceMutex
  <2>2. CASE \A o \in Mutexes : ~ Takes(t, o)
    BY <1>3, <2>2, PlaceLends, PlaceSettles, HarmlessLends
  <2> QED
    BY <2>1, <2>2
<1>4. CASE ~ Receive(t) /\ ~ Inherit(t) /\ ~ Place(t)
  <2>1. Steady(k, k')
    BY <1>4, StepSettles
  <2>2. CASE \/ Peek(t) \/ NotNow(t) \/ Suspend(t) \/ prvLockQueue(t)
             \/ xTaskCheckForTimeOut(t) \/ Recheck(t)
    BY <2>1, <2>2, PeekLends, NotNowLends, SuspendLends, LockLends, CheckLends,
       RecheckLends, HarmlessLends
  <2>3. CASE \/ UnlockTx(t) \/ UnlockRx(t) \/ Resume(t) \/ Yield(t) \/ Delayed(t)
             \/ Expired(t) \/ NotifyTake(t) \/ Notified(t)
    BY <2>1, <2>3, UnlockTxLends, UnlockRxLends, ResumeLends, YieldLends, DelayedLends,
       ExpiredLends, NotifyTakeLends, NotifiedLends, HarmlessLends
  <2> QED
    BY <1>4, <2>2, <2>3 DEF Step
<1> QED
  BY <1>1, <1>2, <1>3, <1>4

\* A wait is given up, or a mutex given back
LEMMA EndLends ==
    ASSUME OneMutexEach, WInv, WInv', HeldByOthers, Exclusive, Lending, Lean(k),
           NEW t \in Task, Send(t) \/ Disinherit(t)
    PROVE  Lending' /\ Lean(k')
<1>0. Types /\ k \in KState
  BY DEF WInv, Types
<1>1. CASE Send(t)
  <2>1. Lean(k')
    BY <1>1, SendSettles
  <2>2. CASE Obj(t) \in Mutexes
    BY <1>1, <2>1, <2>2, SendMutex
  <2>3. CASE Obj(t) \notin Mutexes
    <3>1. Obj(t) \in Object
      BY <1>0, <1>1, ThreadIs DEF Send, Queueing, Sending
    <3>2. Type[Obj(t)] # "mutex"
      BY <2>3, <3>1 DEF Mutexes
    <3>3. Harmless /\ (missed' => missed)
      BY <1>1, <2>3, <3>2, SendLends DEF Send
    <3>4. k' = WakeFirst(k, q[Obj(t)].recv)
      BY <1>1, <3>2 DEF Send
    <3>5. Steady(k, k')
      BY <1>0, <3>1, <3>4, ObjectIs, WakeFirstRanks DEF Ranked, Steady
    <3> QED
      BY <2>1, <3>3, <3>5, HarmlessLends
  <2> QED
    BY <2>2, <2>3
<1>2. CASE Disinherit(t)
  <2>1. CASE q[Obj(t)].holder = NULL
    BY <1>2, <2>1, DisinheritLends, HarmlessLends DEF Steady
  <2>2. CASE q[Obj(t)].holder # NULL
    <3>1. At(t, "disinherit")
      BY <1>2 DEF Disinherit
    <3>2. Op(t) \in Queueing
      BY <3>1, AtIs DEF CallPc, Op
    <3>3. Obj(t) \in Mutexes
      BY <1>0, <2>2, <3>2, ThreadIs DEF HeldByOthers, Mutexes
    <3> QED
      BY <1>2, <2>2, <3>3, DisinheritMutex
  <2> QED
    BY <2>1, <2>2
<1> QED
  BY <1>1, <1>2

\* Nothing but the scheduler moves
LEMMA NothingLends ==
    ASSUME WInv, Lending, q' = q, th' = th
    PROVE  Harmless
<1>1. \A o \in Mutexes : Within(o)
  BY SameWithin
<1>2. \A u \in Task : Same(th[u].in, th'[u].in)
  BY DEF Same
<1> QED
  BY <1>1, <1>2, SameProper DEF Harmless

\* Every step keeps what is lent in order, and the bits lean
LEMMA LendingNext ==
    ASSUME OneMutexEach, WInv, WInv', TInv, RInv, Exclusive, Lending, Lean(k), [Next]_vars
    PROVE  Lending' /\ Lean(k')
<1>0. k \in KState /\ HeldByOthers /\ Ranking
  BY DEF WInv, Types, RInv
<1>1. CASE \E t \in Task : Send(t) \/ Disinherit(t)
  BY <1>0, <1>1, EndLends
<1>2. CASE PendSV
  <2>1. PICK t \in Highest(k) : k' = vTaskSwitchContext(k, t)
    BY <1>2 DEF PendSV
  <2>2. Lean(k') /\ k'.prio = k.prio /\ k'.held = k.held
    BY <1>0, <2>1, SwitchRanks DEF Ranking
  <2>3. missed' => missed /\ k'.cur = k.cur
    BY <1>0, <1>2, <2>1 DEF PendSV, vTaskSwitchContext, KState
  <2>4. Harmless
    BY <1>2, NothingLends DEF PendSV
  <2> QED
    BY <2>2, <2>3, <2>4, LendingStays
<1>3. CASE missed' = missed /\ \E t \in Task : Step(t)
  BY <1>0, <1>3, StepLends, StepSettles DEF Keeps
<1>4. CASE missed' = missed /\ \E t \in Task : \E c \in Calls[t] : Call(t, c)
  <2>1. k' = k
    BY <1>4 DEF Call
  <2>2. Harmless
    BY <1>4, CallLends
  <2> QED
    BY <1>4, <2>1, <2>2, HarmlessLends DEF Steady
<1>5. CASE missed' = missed /\ Isr
  BY <1>5, IsrLends, IsrSettles, HarmlessLends DEF Keeps
<1>6. CASE missed' = missed /\ SysTick
  <2>1. k' = xTaskIncrementTick(k)
    BY <1>6 DEF SysTick
  <2>2. Keeps(k, k') /\ Steady(k, k')
    <3>1. k' \in KState
      BY DEF WInv, Types
    <3> QED
      BY <1>0, <2>1, <3>1, IncrementRanks, RankedSettles
  <2> QED
    BY <1>6, <2>2, SysTickLends, HarmlessLends DEF Keeps
<1>7. CASE UNCHANGED vars
  BY <1>7, NothingLends, HarmlessLends DEF vars, Steady
<1> QED
  BY <1>1, <1>2, <1>3, <1>4, <1>5, <1>6, <1>7 DEF Next

\* The invariant of the mutexes is inductive, on top of the others
LEMMA MutexNext ==
    ASSUME OneMutexEach, WInv, TInv, RInv, MInv, [Next]_vars
    PROVE  MInv'
<1>1. WInv' /\ Types /\ Types'
  BY InvNext DEF WInv
<1>2. Exclusive'
  BY <1>1, NextIsSeen, ExclusiveStays DEF MInv
<1>3. Lending' /\ Lean(k')
  BY <1>1, LendingNext DEF MInv
<1> QED
  BY <1>2, <1>3 DEF MInv

\* In the beginning nobody holds a mutex
LEMMA MutexInit ==
    ASSUME Init
    PROVE  MInv
<1>1. /\ \A o \in Mutexes : q[o].msgs = 1 /\ q[o].holder = NULL /\ q[o].recv = << >>
      /\ \A t \in Task : th[t].in = Outside
      /\ missed = FALSE /\ k = InitialState
  BY DEF Init, Mutexes
<1> DEFINE in == Outside
<1>2. in.call = NoCall /\ in.call.op = "none" /\ in.pc = "run"
  BY DEF Outside, NoCall
<1>3. in.after = ""
  BY Zenon DEF Outside
<1> HIDE DEF in
<1>4. Lasting(in)
  BY ONLY <1>2, <1>3 DEF Lasting
<1>5. \A t \in Task : /\ th[t].in.call = NoCall /\ Op(t) = "none" /\ Lasting(th[t].in)
  BY <1>1, <1>2, <1>4 DEF Op, in
<1>6. /\ k.prio = Base /\ k.bits = Priority /\ \A t \in Task : k.held[t] = 0
      /\ \A t \in Task : k.list[t] = "ready"
  BY <1>1 DEF InitialState
<1>7. NULL \notin Task
  BY KernelAssumption
<1>8. Exclusive
  BY <1>1, <1>5 DEF Exclusive
<1>9. Lean(k)
  BY <1>6 DEF Lean, Priority
<1>10. Owned /\ Counted /\ Raised
  BY <1>1, <1>5, <1>6, <1>7, BaseIs DEF Owned, Counted, Raised
<1>11. Grouped
  BY <1>1, <1>5 DEF Grouped, Group, Falling, In, Takes
<1> QED
  BY <1>1, <1>5, <1>8, <1>9, <1>10, <1>11 DEF MInv, Lending, Missed

\* What the invariant says of the bits
LEMMA BitsAre ==
    ASSUME WInv, RInv, MInv
    PROVE  ReadyBitsExact
<1>1. Covered(k) /\ Lean(k)
  BY DEF RInv, Ranking, MInv
<1> QED
  BY <1>1 DEF ReadyBitsExact, Covered, Lean, InList

\* and of the priorities
LEMMA Inherited ==
    ASSUME WInv, RInv, MInv
    PROVE  Inheritance
<1>0. Types /\ k \in KState /\ Lending
  BY DEF WInv, Types, MInv
<1>1. HolderInherits
  <2> SUFFICES ASSUME NEW o \in Object, q[o].holder # NULL, NEW i \in DOMAIN q[o].recv
               PROVE  k.prio[q[o].holder] >= Base[q[o].recv[i]]
    BY DEF HolderInherits
  <2>1. o \in Mutexes /\ q[o].recv[i] \in In(q[o].recv)
    BY DEF RInv, HeldByOthers, Mutexes, In
  <2>2. Group(o)
    BY <1>0, <2>1 DEF Lending, Grouped
  <2> QED
    BY <2>1, <2>2 DEF Group, Known
<1>2. RaisedForAWaiter
  <2> SUFFICES ASSUME NEW t \in Task, k.prio[t] > Base[t]
               PROVE  \E u \in Task : /\ Op(u) = "take" /\ q[Obj(u)].holder = t
                                      /\ Base[u] >= k.prio[t]
    BY DEF RaisedForAWaiter
  <2>1. k.prio[t] \in Int /\ Base[t] \in Int
    BY <1>0, Comparable, BaseIs
  <2>2. PICK o \in Mutexes : q[o].holder = t
    BY <1>0, <2>1 DEF Lending, Raised
  <2>3. Group(o) /\ t # NULL
    BY <1>0, KernelAssumption DEF Lending, Grouped
  <2>4. PICK u \in Task : Backs(u, o) /\ Base[u] = k.prio[t]
    BY <2>2, <2>3 DEF Group
  <2>5. Op(u) = "take" /\ q[Obj(u)].holder = t /\ Base[u] >= k.prio[t]
    BY <2>1, <2>2, <2>4 DEF Backs, Takes
  <2> QED
    BY <2>5
<1> QED
  BY <1>1, <1>2 DEF Inheritance

---------------------------------------------------------------------------
(* The theorems *)

\* The priorities of the ready tasks, the bits and who holds what agree, whatever
\* the tasks call and the interrupts do
THEOREM Priorities == Spec => [](WInv /\ TInv /\ RInv)
<1>1. Init => WInv /\ TInv /\ RInv
  BY InvInit, TimeInit, RankingInit
<1>2. ASSUME WInv /\ TInv /\ RInv, [Next]_vars
      PROVE  (WInv /\ TInv /\ RInv)'
  <2>1. WInv' /\ TInv'
    BY <1>2, InvNext, TimeNext
  <2>2. Ranking'
    BY <1>2, RankingNext DEF RInv
  <2>3. HeldByOthers'
    BY <1>2, <2>1, NextIsSeen, HeldStays DEF RInv, WInv
  <2> QED
    BY <2>1, <2>2, <2>3 DEF RInv
<1> QED
  BY <1>1, <1>2, PTL DEF Spec

\* No wake-up by a task, an interrupt, a tick or the end of a suspension
\* forgets its switch: the running task is one of the highest (RunsHighest)
THEOREM HighestRuns == Spec => []RunsHighest
<1>1. WInv /\ RInv => RunsHighest
  BY RanksHighest DEF WInv
<1> QED
  BY <1>1, Priorities, PTL
\* Where each task takes one mutex, the priorities it lends and gets back stay in
\* step with the lists, the bits and the mutexes
THEOREM Lendings == ASSUME OneMutexEach
                    PROVE  Spec => [](WInv /\ TInv /\ RInv /\ MInv)
<1>1. Init => WInv /\ TInv /\ RInv /\ MInv
  BY InvInit, TimeInit, RankingInit, MutexInit
<1>2. WInv /\ TInv /\ RInv /\ MInv /\ [Next]_vars => MInv'
  BY MutexNext
<1> QED
  BY <1>1, <1>2, Priorities, PTL DEF Spec

\* Where each task takes one mutex, the bits of the priorities are those of the
\* ready tasks: a raised holder and one that falls back leave no bit behind that
\* the search would stop at (ReadyBitsExact)
THEOREM ExactBits == ASSUME OneMutexEach
                     PROVE  Spec => []ReadyBitsExact
<1>1. WInv /\ RInv /\ MInv => ReadyBitsExact
  BY BitsAre
<1> QED
  BY <1>1, Lendings, PTL

\* Where each task takes one mutex, its holder runs at least at the priority of
\* each task that waits for it, and above its own only for one that does
\* (Inheritance)
THEOREM PrioritiesInherited == ASSUME OneMutexEach
                               PROVE  Spec => []Inheritance
<1>1. WInv /\ RInv /\ MInv => Inheritance
  BY Inherited
<1> QED
  BY <1>1, Lendings, PTL
=============================================================================
