----------------------------- MODULE Scheduler -----------------------------
(***************************************************************************)
(* The scheduler of the FreeRTOS V10.0.0 kernel (FreeRTOS/src/tasks.c) in  *)
(* the configuration of FreeRTOSConfig.h: preemption, time slicing, the    *)
(* port's ready-priority bits, mutexes, INCLUDE_vTaskSuspend.              *)
(*                                                                         *)
(* The static variables of tasks.c and the fields of the task control      *)
(* blocks are one record, k, and each function that runs inside one        *)
(* critical section is an operator from a record to the next one, so that  *)
(* module Kernel can compose them the way queue.c calls them.              *)
(*                                                                         *)
(* Ready tasks of one priority are a set: the order in which list.c hands  *)
(* them out is left open.  Times are TickMod ticks wide, the way the       *)
(* kernel's are 2^32 ticks wide, and wrap.                                 *)
(***************************************************************************)
EXTENDS Integers, Sequences, FiniteSets, FiniteSetsExt

CONSTANTS Task,         \* the tasks, the idle task among them
          Idle,
          Base,         \* [Task -> Nat]: pxTCB->uxBasePriority
          TickMod,      \* number of values of a TickType_t
          MaxPended     \* bound on the ticks while the scheduler is suspended

ASSUME SchedulerAssumption ==
    /\ Idle \in Task /\ Base \in [Task -> Nat] /\ Base[Idle] = 0
    /\ TickMod \in Nat \ {0, 1} /\ MaxPended \in Nat

\* portMAX_DELAY: no time at all as a wake time, for ever as a waiting time
portMAX_DELAY == TickMod - 1

Priority == {Base[t] : t \in Task}

\* The list xStateListItem is in; the two delayed lists swap roles
Lists == {"ready", "delayed", "overflow", "suspended"}

State == [cur : Task,               \* pxCurrentTCB
          list : [Task -> Lists],   \* xStateListItem
          wake : [Task -> 0 .. TickMod - 1],    \* its item value
          prio : [Task -> Priority],            \* uxPriority
          held : [Task -> Nat],                 \* uxMutexesHeld
          bits : SUBSET Priority,               \* uxTopReadyPriority
          pendingReady : SUBSET Task,           \* xPendingReadyList
          suspended : BOOLEAN,                  \* uxSchedulerSuspended
          yieldPending : BOOLEAN,               \* xYieldPending
          pended : 0 .. MaxPended,              \* uxPendedTicks
          tick : 0 .. TickMod - 1,              \* xTickCount
          next : 0 .. TickMod - 1,              \* xNextTaskUnblockTime
          pendSV : BOOLEAN]                     \* the PendSV exception

\* The scheduler has been started: every task is ready, the highest one runs
InitialState ==
    [cur |-> CHOOSE t \in Task : \A u \in Task : Base[t] >= Base[u],
     list |-> [t \in Task |-> "ready"], wake |-> [t \in Task |-> 0],
     prio |-> Base, held |-> [t \in Task |-> 0], bits |-> Priority,
     pendingReady |-> {}, suspended |-> FALSE, yieldPending |-> FALSE,
     pended |-> 0, tick |-> 0, next |-> portMAX_DELAY, pendSV |-> FALSE]

---------------------------------------------------------------------------
(* Lists *)

InList(k, l) == {t \in Task : k.list[t] = l}
Ready(k, p)  == {t \in InList(k, "ready") : k.prio[t] = p}

prvAddTasksToReadyList(k, ts) ==
    [k EXCEPT !.list = [t \in Task |-> IF t \in ts THEN "ready" ELSE @[t]],
              !.bits = @ \cup {k.prio[t] : t \in ts}]

taskRESET_READY_PRIORITY(k, p) ==
    [k EXCEPT !.bits = IF Ready(k, p) = {} THEN @ \ {p} ELSE @]

prvResetNextTaskUnblockTime(k) ==
    [k EXCEPT !.next = IF InList(k, "delayed") = {} THEN portMAX_DELAY
                       ELSE Min({k.wake[t] : t \in InList(k, "delayed")})]

portYIELD(k) == [k EXCEPT !.pendSV = TRUE]

\* mutant: a wake time after the wrap goes to the list of this round
prvAddCurrentTaskToDelayedList_NoOverflow(k, ticks, canBlockForever) ==
    LET wake == (k.tick + ticks) % TickMod
        to   == IF ticks = portMAX_DELAY /\ canBlockForever THEN "suspended"
                ELSE "delayed"
        k1 == taskRESET_READY_PRIORITY([k EXCEPT !.list[k.cur] = to], k.prio[k.cur])
    IN  [k1 EXCEPT !.wake[k.cur] = IF to = "suspended" THEN 0 ELSE wake,
                   !.next = IF to = "delayed" /\ wake < @ THEN wake ELSE @]

\* prvAddCurrentTaskToDelayedList
prvAddCurrentTaskToDelayedList(k, ticks, canBlockForever) ==
    LET wake == (k.tick + ticks) % TickMod
        to   == IF ticks = portMAX_DELAY /\ canBlockForever THEN "suspended"
                ELSE IF wake < k.tick THEN "overflow" ELSE "delayed"
        k1 == taskRESET_READY_PRIORITY([k EXCEPT !.list[k.cur] = to], k.prio[k.cur])
    IN  [k1 EXCEPT !.wake[k.cur] = IF to = "suspended" THEN 0 ELSE wake,
                   !.next = IF to = "delayed" /\ wake < @ THEN wake ELSE @]

---------------------------------------------------------------------------
(* Waking tasks *)

\* xTaskRemoveFromEventList and the notify functions: the tasks become ready,
\* or are held back while the scheduler is suspended
Unblock(k, ts) ==
    IF k.suspended THEN [k EXCEPT !.pendingReady = @ \cup ts]
    ELSE prvAddTasksToReadyList(k, ts)

\* One of ts has a priority above the running task's
Preempts(k, ts) == \E t \in ts : k.prio[t] > k.prio[k.cur]

\* xTaskRemoveFromEventList, once for each of ts
xTaskRemoveFromEventList(k, ts) ==
    [Unblock(k, ts) EXCEPT !.yieldPending = @ \/ Preempts(k, ts)]

taskSWITCH_DELAYED_LISTS(k) ==
    prvResetNextTaskUnblockTime(
        [k EXCEPT !.list = [t \in Task |-> CASE @[t] = "delayed"  -> "overflow"
                                             [] @[t] = "overflow" -> "delayed"
                                             [] OTHER -> @[t]]])

\* mutant: one tick too early
Due_Early(k) == IF k.tick < k.next - 1 THEN {}
                ELSE {t \in InList(k, "delayed") : k.wake[t] <= k.tick + 1}

\* The tasks whose time has come at the tick of k
Due(k) == IF k.tick < k.next THEN {}
          ELSE {t \in InList(k, "delayed") : k.wake[t] <= k.tick}

\* One tick while the scheduler runs, as a step of the record
Tick(k) ==
    LET k1 == [k EXCEPT !.tick = (@ + 1) % TickMod]
        k2 == IF k1.tick = 0 THEN taskSWITCH_DELAYED_LISTS(k1) ELSE k1
        k3 == prvAddTasksToReadyList(k2, Due(k2))
    IN  IF k2.tick < k2.next THEN k3 ELSE prvResetNextTaskUnblockTime(k3)

\* mutant: a woken task waits for its turn
SwitchRequired_SliceOnly(k, k1) ==
    \/ Cardinality(Ready(k1, k.prio[k.cur])) > 1
    \/ k.yieldPending

\* What xTaskIncrementTick returns, its tick having led from k to k1
SwitchRequired(k, k1) ==
    \/ \E t \in InList(k1, "ready") \ InList(k, "ready") : k.prio[t] >= k.prio[k.cur]
    \/ Cardinality(Ready(k1, k.prio[k.cur])) > 1
    \/ k.yieldPending

xTaskIncrementTick(k) ==
    IF k.suspended
    THEN [k EXCEPT !.pended = @ + 1, !.pendSV = @ \/ k.yieldPending]
    ELSE [Tick(k) EXCEPT !.pendSV = @ \/ SwitchRequired(k, Tick(k))]

vTaskSuspendAll(k) == [k EXCEPT !.suspended = TRUE]

\* The pended ticks, one after the other, each with its verdict
PendedTicks(k) ==
    LET after[n \in 0 .. MaxPended] ==
            IF n = 0 THEN k
            ELSE LET k1 == Tick(after[n - 1])
                 IN  [k1 EXCEPT !.yieldPending = SwitchRequired(after[n - 1], k1)]
    IN  [after[k.pended] EXCEPT !.pended = 0]

\* xTaskResumeAll up to its return value, which is yieldPending
xTaskResumeAll(k) ==
    LET k1 == [prvAddTasksToReadyList(k, k.pendingReady) EXCEPT
                   !.suspended = FALSE, !.pendingReady = {},
                   !.yieldPending = @ \/ \E t \in k.pendingReady :
                                             k.prio[t] >= k.prio[k.cur]]
        k2 == IF k.pendingReady = {} THEN k1 ELSE prvResetNextTaskUnblockTime(k1)
        k3 == PendedTicks(k2)
    IN  [k3 EXCEPT !.pendSV = @ \/ k3.yieldPending]

\* vTaskSwitchContext: the tasks it may choose
Highest(k) == Ready(k, Max(k.bits))

vTaskSwitchContext(k, t) ==
    IF k.suspended THEN [k EXCEPT !.yieldPending = TRUE, !.pendSV = FALSE]
    ELSE [k EXCEPT !.yieldPending = FALSE, !.pendSV = FALSE, !.cur = t]

---------------------------------------------------------------------------
(* Priority inheritance *)

\* pvTaskIncrementMutexHeldCount, in a take that may be of a mutex
pvTaskIncrementMutexHeldCount(k, mutex) ==
    IF mutex THEN [k EXCEPT !.held[k.cur] = @ + 1] ELSE k

\* mutant: the bit of the list left behind stays
MoveTo_NoReset(k, t, p, reset) ==
    IF k.list[t] = "ready" THEN prvAddTasksToReadyList([k EXCEPT !.prio[t] = p], {t})
    ELSE [k EXCEPT !.prio[t] = p]

\* The holder's priority changes from the one whose ready list it may be in
\* to p; reset names the ready list found empty
MoveTo(k, t, p, reset) ==
    LET k1 == [k EXCEPT !.prio[t] = p]
    IN  IF k.list[t] = "ready"
        THEN prvAddTasksToReadyList(taskRESET_READY_PRIORITY(
                 [k1 EXCEPT !.list[t] = "suspended"], reset), {t})
        ELSE k1

\* mutant: the holder keeps its own priority
xTaskPriorityInherit_None(k, holder) == k

\* xTaskPriorityInherit for the current task, and its return value
xTaskPriorityInherit(k, holder) ==
    IF holder \in Task /\ k.prio[holder] < k.prio[k.cur]
    THEN MoveTo(k, holder, k.prio[k.cur], k.prio[holder]) ELSE k

Inherits(k, holder) == holder \in Task /\ Base[holder] < k.prio[k.cur]

\* xTaskPriorityDisinherit of the current task, which gives a mutex back
xTaskPriorityDisinherit(k) ==
    LET t == k.cur  k1 == [k EXCEPT !.held[t] = @ - 1]
    IN  IF k.prio[t] # Base[t] /\ k1.held[t] = 0
        THEN MoveTo(k1, t, Base[t], k.prio[t]) ELSE k1

Disinherits(k) == k.prio[k.cur] # Base[k.cur] /\ k.held[k.cur] = 1

\* mutant: the time-out of a waiter leaves the holder where it is
vTaskPriorityDisinheritAfterTimeout_None(k, holder, highestWaiting) == k

\* vTaskPriorityDisinheritAfterTimeout; the list it resets is that of the new
\* priority, not the one the holder leaves
vTaskPriorityDisinheritAfterTimeout(k, holder, highestWaiting) ==
    IF holder \notin Task THEN k
    ELSE LET p == Max({Base[holder], highestWaiting})
         IN  IF k.prio[holder] # p /\ k.held[holder] = 1
             THEN MoveTo(k, holder, p, p) ELSE k
=============================================================================
