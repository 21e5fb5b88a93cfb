------------------------------- MODULE Kernel -------------------------------
(***************************************************************************)
(* FreeRTOS tasks and the blocking calls they make: the queues, semaphores *)
(* and mutexes of FreeRTOS/src/queue.c, vTaskDelay and ulTaskNotifyTake of *)
(* tasks.c, with the interrupt handlers and the tick.                      *)
(*                                                                         *)
(* One core.  An action of a task is one critical section, or one stretch  *)
(* of code between two of them under a suspended scheduler; interrupts     *)
(* come between any two actions, other tasks where the scheduler lets      *)
(* them.  What is sent is left out, how many items wait is kept.           *)
(***************************************************************************)
EXTENDS Scheduler

CONSTANTS Object,       \* queues, semaphores and mutexes
          Type,         \* [Object -> {"queue", "semaphore", "mutex"}]
          Length,       \* [Object -> Nat \ {0}]: uxLength
          Calls,        \* [Task -> the calls it may make]
          IsrCalls,     \* the calls interrupt handlers make
          MaxNotified,  \* bound on ulNotifiedValue
          MaxLock,      \* bound on the interrupts' calls while a queue is locked
          NULL

CallSet == [op : {"send", "receive", "peek", "take"}, obj : Object,
            ticks : 0 .. portMAX_DELAY]
           \cup [op : {"delay", "notifyTake"}, obj : {NULL},
                 ticks : 0 .. portMAX_DELAY]

IsrCallSet == [op : {"send", "receive"}, obj : Object]
              \cup [op : {"notify"}, obj : Task]

ASSUME KernelAssumption ==
    /\ Type \in [Object -> {"queue", "semaphore", "mutex"}]
    /\ Length \in [Object -> Nat \ {0}]
    /\ \A o \in Object : Type[o] = "mutex" => Length[o] = 1
    /\ Calls \in [Task -> SUBSET CallSet]
    /\ Calls[Idle] = {}             \* the idle task never blocks
    /\ IsrCalls \subseteq IsrCallSet
    /\ \A c \in IsrCalls : c.obj \in Object => Type[c.obj] # "mutex"
    /\ MaxNotified \in Nat \ {0} /\ MaxLock \in Nat
    /\ NULL \notin Task \cup Object \cup CallSet
    /\ IsFiniteSet(Task) /\ IsFiniteSet(Object)

\* For a mutex semphr.h has calls to take and to give it, none to receive or peek
ASSUME MutexAssumption ==
    \A t \in Task : \A c \in Calls[t] :
        (c.obj \in Object /\ Type[c.obj] = "mutex") => c.op \in {"take", "send"}

UNLOCKED == -1                      \* queueUNLOCKED

VARIABLES k,        \* the scheduler
          q,        \* the objects: Queue_t
          th,       \* the tasks' calls: locals of the function each is in
          missed    \* history: a priority changed without its switch

vars == <<k, q, th, missed>>

NoCall == [op |-> "none", obj |-> NULL, ticks |-> 0]

\* A task outside any call
Outside == [pc |-> "run", call |-> NoCall,
            left |-> 0,             \* xTicksToWait
            timed |-> FALSE,        \* xEntryTimeSet
            at |-> 0,               \* xTimeOut.xTimeOnEntering
            wrapped |-> FALSE,      \* xNumOfOverflows # xTimeOut.xOverflowCount
            inherited |-> FALSE,    \* xInheritanceOccurred
            after |-> "",           \* why the queue is being unlocked
            waited |-> 0]           \* history: ticks since the wait began

Init ==
    /\ k = InitialState
    /\ q = [o \in Object |->
               [msgs |-> IF Type[o] = "mutex" THEN 1 ELSE 0,
                holder |-> NULL,                \* pxMutexHolder
                recv |-> << >>, send |-> << >>, \* xTasksWaitingTo...
                txLock |-> UNLOCKED, rxLock |-> UNLOCKED]]
    /\ th = [t \in Task |-> [in |-> Outside, notified |-> 0, waiting |-> FALSE]]
    /\ missed = FALSE

---------------------------------------------------------------------------
(* Helpers *)

\* The running task's next step
At(t, pc) == k.cur = t /\ ~ k.pendSV /\ th[t].in.pc = pc
Op(t)  == th[t].in.call.op
Obj(t) == th[t].in.call.obj

Goto(t, pc)  == th' = [th EXCEPT ![t].in.pc = pc]
Return(t)    == th' = [th EXCEPT ![t].in = Outside]

\* An event list without the tasks of ts
Without(list, ts) ==
    LET rest[i \in 0 .. Len(list)] ==
            IF i = 0 THEN << >>
            ELSE IF list[i] \in ts THEN rest[i - 1] ELSE Append(rest[i - 1], list[i])
    IN  rest[Len(list)]

\* Tasks a tick or the end of a suspension made ready leave the event lists
Listed(k1) == [o \in Object |->
    [q[o] EXCEPT !.recv = Without(@, InList(k1, "ready")),
                 !.send = Without(@, InList(k1, "ready"))]]

\* The wait of t has begun, and ends by itself
Timed(t) ==
    /\ th[t].in.call.ticks # 0
    /\ \/ Op(t) = "delay" /\ th[t].in.pc # "suspend"
       \/ /\ th[t].in.call.ticks # portMAX_DELAY
          /\ th[t].in.timed \/ th[t].in.pc = "woken"

\* Time passes: every running time-out sees the overflow of the tick count
Elapsed(k1, ticks) == [t \in Task |->
    [th[t] EXCEPT !.in.wrapped = th[t].in.timed /\ (@ \/ k1.tick < k.tick),
                  !.in.waited = IF Timed(t) THEN @ + ticks ELSE @]]

\* vListInsert on an event list: before the first task of a lower priority
PlaceInOrder(list, t) ==
    LET lower == {i \in DOMAIN list : k.prio[list[i]] < k.prio[t]}
        i == IF lower = {} THEN Len(list) + 1 ELSE Min(lower)
    IN  SubSeq(list, 1, i - 1) \o <<t>> \o SubSeq(list, i, Len(list))

\* The head of an event list is woken, and preempts at once if it may
WakeFirst(k0, list) ==
    IF list = << >> THEN k0
    ELSE LET k1 == xTaskRemoveFromEventList(k0, {Head(list)})
         IN  IF Preempts(k0, {Head(list)}) THEN portYIELD(k1) ELSE k1

Rest(list) == IF list = << >> THEN list ELSE Tail(list)

Full(o)  == q[o].msgs = Length[o]
Empty(o) == q[o].msgs = 0

---------------------------------------------------------------------------
(* Starting a call.  Only its holder gives a mutex back; a delay of no time *)
(* is a yield                                                              *)

MayCall(t, c) ==
    /\ c.obj \in Object /\ Type[c.obj] = "mutex" =>
          (c.op = "send") = (q[c.obj].holder = t)

Call(t, c) ==
    /\ At(t, "run")
    /\ MayCall(t, c)
    /\ th' = [th EXCEPT ![t].in.call = c, ![t].in.left = c.ticks,
                        ![t].in.pc = IF c.op # "delay" THEN "try"
                                       ELSE IF c.ticks = 0 THEN "yield" ELSE "suspend"]
    /\ UNCHANGED <<k, q>>

---------------------------------------------------------------------------
(* The first critical section of each function *)

\* xQueueGenericSend with room; a mutex is given back.  The yield of the
\* disinheritance is only looked at when nobody waits
Send(t) ==
    LET o == Obj(t)
        mutex == Type[o] = "mutex"
        k1 == IF mutex THEN xTaskPriorityDisinherit(k) ELSE k
        k2 == IF q[o].recv = << >> /\ mutex /\ Disinherits(k)
              THEN portYIELD(k1) ELSE WakeFirst(k1, q[o].recv)
    IN  /\ At(t, "try") /\ Op(t) = "send" /\ ~ Full(o)
        /\ missed' = (missed \/ (mutex /\ Disinherits(k) /\ ~ k2.pendSV))
        /\ k' = k2
        /\ q' = [q EXCEPT ![o].msgs = @ + 1, ![o].recv = Rest(@),
                          ![o].holder = NULL]
        /\ Return(t)

\* xQueueReceive, xQueueSemaphoreTake with something to take
Receive(t) ==
    LET o == Obj(t)
        mutex == Type[o] = "mutex"
        k1 == pvTaskIncrementMutexHeldCount(k, mutex)
    IN  /\ At(t, "try") /\ Op(t) \in {"receive", "take"} /\ ~ Empty(o)
        /\ k' = WakeFirst(k1, q[o].send)
        /\ q' = [q EXCEPT ![o].msgs = @ - 1, ![o].send = Rest(@),
                          ![o].holder = IF mutex THEN t ELSE NULL]
        /\ Return(t)

\* xQueuePeek: the item stays, so the next receiver is woken
Peek(t) ==
    LET o == Obj(t)
    IN  /\ At(t, "try") /\ Op(t) = "peek" /\ ~ Empty(o)
        /\ k' = WakeFirst(k, q[o].recv)
        /\ q' = [q EXCEPT ![o].recv = Rest(@)]
        /\ Return(t)

Blocked(t) == CASE Op(t) = "send" -> Full(Obj(t))
                [] Op(t) \in {"receive", "peek", "take"} -> Empty(Obj(t))
                [] OTHER -> FALSE

\* No room, or nothing there: return at once, or note the time, once
NotNow(t) ==
    /\ At(t, "try") /\ Blocked(t)
    /\ IF th[t].in.left = 0 THEN Return(t)
       ELSE th' = [th EXCEPT ![t].in.pc = "suspend", ![t].in.timed = TRUE,
                             ![t].in.at = IF th[t].in.timed THEN @ ELSE k.tick]
    /\ UNCHANGED <<k, q>>

---------------------------------------------------------------------------
(* The wait: under the suspended scheduler, with the queue locked *)

Suspend(t) ==
    /\ At(t, "suspend")
    /\ k' = vTaskSuspendAll(k)
    /\ Goto(t, IF Op(t) = "delay" THEN "place" ELSE "lock")
    /\ UNCHANGED q

prvLockQueue(t) ==
    /\ At(t, "lock")
    /\ q' = [q EXCEPT ![Obj(t)].txLock = 0, ![Obj(t)].rxLock = 0]
    /\ Goto(t, "check")
    /\ UNCHANGED k

\* mutant: the time already waited is counted again
Restarted_SameEntry(in, elapsed) == [in EXCEPT !.left = @ - elapsed]

\* vTaskInternalSetTimeOutState for the rest of the time
Restarted(in, elapsed) ==
    [in EXCEPT !.left = @ - elapsed, !.at = k.tick, !.wrapped = FALSE]

\* xTaskCheckForTimeOut
xTaskCheckForTimeOut(t) ==
    LET in == th[t].in
        elapsed == (k.tick - in.at) % TickMod
        forever == in.left = portMAX_DELAY
        lapped  == in.wrapped /\ k.tick >= in.at
    IN  /\ At(t, "check")
        /\ th' = [th EXCEPT ![t].in =
              CASE forever -> [in EXCEPT !.pc = "recheck"]
                [] ~ forever /\ lapped ->
                      [in EXCEPT !.pc = "unlockTx", !.after = "expired"]
                [] ~ forever /\ ~ lapped /\ elapsed < in.left ->
                      [Restarted(in, elapsed) EXCEPT !.pc = "recheck"]
                [] OTHER -> [in EXCEPT !.pc = "unlockTx", !.after = "expired",
                                       !.left = 0]]
        /\ UNCHANGED <<k, q>>

\* prvIsQueueFull, prvIsQueueEmpty with the queue locked
Recheck(t) ==
    /\ At(t, "recheck")
    /\ IF ~ Blocked(t)
       THEN th' = [th EXCEPT ![t].in.pc = "unlockTx", ![t].in.after = "retry"]
       ELSE Goto(t, IF Type[Obj(t)] = "mutex" THEN "inherit" ELSE "place")
    /\ UNCHANGED <<k, q>>

Inherit(t) ==
    LET holder == q[Obj(t)].holder
    IN  /\ At(t, "inherit")
        /\ k' = xTaskPriorityInherit(k, holder)
        /\ th' = [th EXCEPT ![t].in.pc = "place",
                            ![t].in.inherited = Inherits(k, holder)]
        /\ UNCHANGED q

\* vTaskPlaceOnEventList, and the delay of vTaskDelay
Place(t) ==
    /\ At(t, "place")
    /\ k' = prvAddCurrentTaskToDelayedList(k, th[t].in.left, Op(t) # "delay")
    /\ q' = IF Op(t) = "delay" THEN q
            ELSE IF Op(t) = "send"
            THEN [q EXCEPT ![Obj(t)].send = PlaceInOrder(@, t)]
            ELSE [q EXCEPT ![Obj(t)].recv = PlaceInOrder(@, t)]
    /\ th' = [th EXCEPT ![t].in.pc = IF Op(t) = "delay" THEN "resume" ELSE "unlockTx",
                        ![t].in.after = "block"]

\* mutant: what was sent while the queue was locked wakes nobody
Woken_None(list, lock) == {}

\* The tasks prvUnlockQueue wakes: one for each item, while there are any
Woken(list, lock) == {list[i] : i \in 1 .. Min({lock, Len(list)})}

\* prvUnlockQueue, its two critical sections
UnlockTx(t) ==
    LET o == Obj(t)  ts == Woken(q[o].recv, q[o].txLock)
    IN  /\ At(t, "unlockTx")
        /\ k' = xTaskRemoveFromEventList(k, ts)
        /\ q' = [q EXCEPT ![o].txLock = UNLOCKED,
                          ![o].recv = Without(@, ts)]
        /\ Goto(t, "unlockRx")

UnlockRx(t) ==
    LET o == Obj(t)  ts == Woken(q[o].send, q[o].rxLock)
    IN  /\ At(t, "unlockRx")
        /\ k' = xTaskRemoveFromEventList(k, ts)
        /\ q' = [q EXCEPT ![o].rxLock = UNLOCKED,
                          ![o].send = Without(@, ts)]
        /\ Goto(t, "resume")

\* Where a call goes on when its task runs again
Again(t) == IF Op(t) = "delay" THEN "woken" ELSE "try"

Resume(t) ==
    LET k1 == xTaskResumeAll(k)
        in == th[t].in
    IN  /\ At(t, "resume")
        /\ k' = k1 /\ q' = Listed(k1)
        /\ th' = [Elapsed(k1, 0) EXCEPT ![t].in =
                     IF in.after = "expired" /\ Op(t) = "send" THEN Outside
                     ELSE [@ EXCEPT !.after = "", !.pc =
                              CASE in.after = "expired" -> "expired"
                                [] in.after = "block" /\ ~ k1.yieldPending -> "yield"
                                [] OTHER -> Again(t)]]

\* The call yields when the resumption has not
Yield(t) ==
    /\ At(t, "yield")
    /\ k' = portYIELD(k)
    /\ Goto(t, Again(t))
    /\ UNCHANGED q

\* vTaskDelay returns
Delayed(t) ==
    /\ At(t, "woken") /\ Op(t) = "delay"
    /\ Return(t)
    /\ UNCHANGED <<k, q>>

\* The time is over: a last look
Expired(t) ==
    /\ At(t, "expired")
    /\ IF ~ Empty(Obj(t)) THEN Goto(t, "try")
       ELSE IF th[t].in.inherited THEN Goto(t, "disinherit")
       ELSE Return(t)
    /\ UNCHANGED <<k, q>>

\* prvGetDisinheritPriorityAfterTimeout and what follows it
HighestWaiting(o) ==
    IF q[o].recv = << >> THEN 0 ELSE k.prio[Head(q[o].recv)]

\* which may also raise the holder, to the priority that the first waiter
\* has itself inherited, and asks for no switch
Disinherit(t) ==
    LET k1 == vTaskPriorityDisinheritAfterTimeout(k, q[Obj(t)].holder,
                                                  HighestWaiting(Obj(t)))
    IN  /\ At(t, "disinherit")
        /\ missed' = (missed \/ \E u \in Task : k1.prio[u] > k.prio[u])
        /\ k' = k1
        /\ Return(t)
        /\ UNCHANGED q

---------------------------------------------------------------------------
(* ulTaskNotifyTake with xClearCountOnExit *)

NotifyTake(t) ==
    LET wait == th[t].notified = 0
    IN  /\ At(t, "try") /\ Op(t) = "notifyTake"
        /\ k' = IF wait /\ th[t].in.left > 0
                THEN portYIELD(prvAddCurrentTaskToDelayedList(k, th[t].in.left, TRUE))
                ELSE k
        /\ th' = [th EXCEPT ![t].in.pc = "woken", ![t].waiting = wait \/ @]
        /\ UNCHANGED q

Notified(t) ==
    /\ At(t, "woken") /\ Op(t) = "notifyTake"
    /\ th' = [th EXCEPT ![t].in = Outside, ![t].notified = 0, ![t].waiting = FALSE]
    /\ UNCHANGED <<k, q>>

---------------------------------------------------------------------------
(* Interrupts *)

\* xQueueGenericSendFromISR, xQueueGiveFromISR
SendFromISR(o) ==
    LET locked == q[o].txLock # UNLOCKED
    IN  /\ ~ Full(o) /\ q[o].txLock < MaxLock
        /\ k' = IF locked THEN k ELSE WakeFirst(k, q[o].recv)
        /\ q' = [q EXCEPT ![o].msgs = @ + 1,
                          ![o].txLock = IF locked THEN @ + 1 ELSE @,
                          ![o].recv = IF locked THEN @ ELSE Rest(@)]
        /\ UNCHANGED th

ReceiveFromISR(o) ==
    LET locked == q[o].rxLock # UNLOCKED
    IN  /\ ~ Empty(o) /\ q[o].rxLock < MaxLock
        /\ k' = IF locked THEN k ELSE WakeFirst(k, q[o].send)
        /\ q' = [q EXCEPT ![o].msgs = @ - 1,
                          ![o].rxLock = IF locked THEN @ + 1 ELSE @,
                          ![o].send = IF locked THEN @ ELSE Rest(@)]
        /\ UNCHANGED th

vTaskNotifyGiveFromISR(t) ==
    LET k1 == Unblock(k, {t})
    IN  /\ th[t].notified < MaxNotified
        /\ k' = IF ~ th[t].waiting THEN k
                ELSE IF Preempts(k, {t}) THEN portYIELD(k1) ELSE k1
        /\ th' = [th EXCEPT ![t].notified = @ + 1, ![t].waiting = FALSE]
        /\ UNCHANGED q

Isr == \E c \in IsrCalls : \/ c.op = "send" /\ SendFromISR(c.obj)
                           \/ c.op = "receive" /\ ReceiveFromISR(c.obj)
                           \/ c.op = "notify" /\ vTaskNotifyGiveFromISR(c.obj)

\* The bounds on ticks: none while the scheduler is suspended beyond MaxPended,
\* none that would keep a waiting task from running until the tick count has
\* gone all the way round
TickMayCome ==
    /\ k.suspended => k.pended < MaxPended
    /\ \A t \in Task : th[t].in.waited < TickMod - 1

\* xPortSysTickHandler
SysTick ==
    /\ TickMayCome
    /\ k' = xTaskIncrementTick(k)
    /\ q' = Listed(k')
    /\ th' = Elapsed(k', 1)

\* xPortPendSVHandler
PendSV ==
    /\ k.pendSV
    /\ \E t \in Highest(k) : k' = vTaskSwitchContext(k, t)
    /\ missed' = (missed /\ k.suspended)
    /\ UNCHANGED <<q, th>>

Step(t) ==
    \/ Receive(t) \/ Peek(t) \/ NotNow(t) \/ Suspend(t)
    \/ prvLockQueue(t) \/ xTaskCheckForTimeOut(t) \/ Recheck(t) \/ Inherit(t)
    \/ Place(t) \/ UnlockTx(t) \/ UnlockRx(t) \/ Resume(t) \/ Yield(t)
    \/ Delayed(t) \/ Expired(t) \/ NotifyTake(t) \/ Notified(t)

Next ==
    \/ \E t \in Task : Send(t) \/ Disinherit(t)
    \/ PendSV
    \/ /\ \/ \E t \in Task : Step(t) \/ \E c \in Calls[t] : Call(t, c)
          \/ Isr \/ SysTick
       /\ UNCHANGED missed

Spec == Init /\ [][Next]_vars

\* The core has something to do: exactly then Core is enabled
CoreBusy == k.pendSV \/ th[k.cur].in.pc # "run"
Core     == PendSV \/ Send(k.cur) \/ Disinherit(k.cur) \/ Step(k.cur)

\* The holder of a mutex gives it back
Give == \E t \in Task : \E c \in Calls[t] :
            c.op = "send" /\ Type[c.obj] = "mutex" /\ Call(t, c)

\* The core goes on and ticks come (weak fairness, with what enables the action
\* written out), and a task that holds a mutex and runs again and again gives
\* it back
FairSpec ==
    /\ Spec
    /\ []<>~CoreBusy \/ []<><<Core>>_vars
    /\ []<>~TickMayCome \/ []<><<SysTick>>_vars
    /\ SF_vars(Give /\ UNCHANGED missed)

---------------------------------------------------------------------------
(* Properties *)

ThreadType == [pc : {"run", "try", "suspend", "lock", "check", "recheck",
                     "inherit", "place", "unlockTx", "unlockRx", "resume",
                     "yield", "expired", "disinherit", "woken"},
               call : (UNION {Calls[t] : t \in Task}) \cup {NoCall},
               left : 0 .. portMAX_DELAY, timed : BOOLEAN,
               at : 0 .. TickMod - 1, wrapped : BOOLEAN, inherited : BOOLEAN,
               after : {"", "block", "retry", "expired"},
               waited : 0 .. portMAX_DELAY]

\* The types; among them that no task holds more mutexes than it took, so that
\* giving one back never takes uxMutexesHeld below zero
TypeOK ==
    /\ k \in State
    /\ th \in [Task -> [in : ThreadType, notified : 0 .. MaxNotified,
                        waiting : BOOLEAN]]
    /\ \A o \in Object :
          /\ q[o].msgs \in 0 .. Length[o]
          /\ q[o].holder \in Task \cup {NULL}
          /\ q[o].recv \in Seq(Task) /\ q[o].send \in Seq(Task)
          /\ {q[o].txLock, q[o].rxLock} \subseteq UNLOCKED .. MaxLock

InReady(t) == k.list[t] = "ready"

\* Whenever no switch is on its way the running task is one of the highest
\* ready ones: no wake-up by a task, an interrupt, a tick or the end of a
\* suspension forgets its yield.  Left out are the states, up to the next switch,
\* after a mutex was given back with a waiter of no higher priority, when the
\* yield xTaskPriorityDisinherit asks for is dropped (queue.c:778-793), and after
\* a time-out that raised the holder, which asks for none (tasks.c:3986-4040).
RunsHighest ==
    (~ k.suspended /\ ~ k.pendSV /\ InReady(k.cur) /\ ~ missed) =>
        \A t \in Task : InReady(t) => k.prio[t] <= k.prio[k.cur]

\* uxTopReadyPriority names the priorities that have a ready task, no other,
\* so that the switch never looks at an empty list: through every change of a
\* holder's priority, by waiters, time-outs and the giving back
ReadyBitsExact == k.bits = {k.prio[t] : t \in InList(k, "ready")}

\* A task in a delayed list has exactly the rest of its time before it, over
\* time-outs that start again after a vain wake-up, ticks held back under a
\* suspended scheduler and the wrap of the tick count
WaitsExactly ==
    \A t \in Task :
        (k.list[t] \in {"delayed", "overflow"} /\ ~ k.suspended) =>
            (k.wake[t] - k.tick) % TickMod = th[t].in.call.ticks - th[t].in.waited

\* The tasks in a call of ops on o that are awake, or will be at the end of
\* the suspension
Awake(o, ops) ==
    {t \in Task : /\ Obj(t) = o /\ Op(t) \in ops
                 /\ (InReady(t) \/ t \in k.pendingReady)}

\* No task sleeps next to what it waits for: when there are an item and a
\* waiting receiver, or room and a waiting sender, an awake one is about to
\* look, or the task that locked the queue is about to wake one
NoLostWakeup ==
    \A o \in Object :
        /\ (q[o].recv # << >> /\ ~ Empty(o)) =>
              q[o].txLock > 0 \/ Awake(o, {"receive", "peek", "take"}) # {}
        /\ (q[o].send # << >> /\ ~ Full(o)) =>
              q[o].rxLock > 0 \/ Awake(o, {"send"}) # {}

\* The holder of a mutex runs at least at the priority of every task that
\* waits for it, whichever of them have timed out
HolderInherits ==
    \A o \in Object : q[o].holder # NULL =>
        \A i \in DOMAIN q[o].recv : k.prio[q[o].holder] >= Base[q[o].recv[i]]

\* and a raised priority has its reason: a task of that priority still in its
\* take of a mutex the raised task holds
RaisedForAWaiter ==
    \A t \in Task : k.prio[t] > Base[t] =>
        \E u \in Task : /\ Op(u) = "take" /\ q[Obj(u)].holder = t
                        /\ Base[u] >= k.prio[t]

\* A task runs above its own priority when, and only when, one waits for it
\* (queue.c:1487-1509, tasks.c:3801-4063)
Inheritance == HolderInherits /\ RaisedForAWaiter

\* A call with a time that ends empty-handed has waited that time
NeverEarly ==
    [][\A t \in Task :
         (/\ th[t].in.pc \in {"expired", "disinherit", "woken", "resume"}
          /\ th'[t].in.pc = "run"
          /\ th[t].in.call.ticks # portMAX_DELAY
          /\ Op(t) = "notifyTake" => th[t].notified = 0)
           => th[t].in.waited >= th[t].in.call.ticks]_vars

\* The assertion in xQueueSemaphoreTake: no inheritance has occurred when a
\* take that has no time left finds the semaphore empty
TakeAssert ==
    \A t \in Task :
        At(t, "try") /\ Op(t) = "take" /\ Empty(Obj(t)) /\ th[t].in.left = 0
            => ~ th[t].in.inherited

Topmost == CHOOSE t \in Task : \A u \in Task : Base[u] <= Base[t]
WaitsFor(t, o) == th[t].in.call = [op |-> "take", obj |-> o, ticks |-> portMAX_DELAY]

\* Inheritance bounds the inversion: the highest task gets the mutex it waits
\* for although a task between it and the holder never stops running
TakeSucceeds == \A o \in Object : WaitsFor(Topmost, o) ~> q[o].holder = Topmost

\* Seen from outside the calls are atomic, exclusive and never early: the
\* requests of BlockingObjects, granted by the first critical section
Objects == INSTANCE BlockingObjects WITH
    Mutex <- {o \in Object : Type[o] = "mutex"},
    Forever <- portMAX_DELAY,
    Request <- UNION {Calls[t] : t \in Task},
    count <- [o \in Object |-> q[o].msgs],
    owner <- [o \in Object |-> q[o].holder],
    want <- [t \in Task |-> IF Op(t) \in {"none", "notifyTake"} THEN NULL
                            ELSE th[t].in.call],
    waited <- [t \in Task |-> IF Op(t) = "notifyTake" THEN 0 ELSE th[t].in.waited]

AtomicObjects == Objects!Spec
=============================================================================
