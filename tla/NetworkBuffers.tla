--------------------------- MODULE NetworkBuffers ---------------------------
(***************************************************************************)
(* The pool of network buffers of FreeRTOS+TCP                             *)
(* (portable/BufferManagement/BufferAllocation_1.c): a list of free        *)
(* descriptors guarded by critical sections, and a counting semaphore that *)
(* is given after the list grew and taken before the list shrinks.         *)
(*                                                                         *)
(* Tasks and interrupt handlers call it.  A task's call is cut at the      *)
(* semaphore operations and at the critical section; an interrupt          *)
(* handler's call is one step, for no task runs in between.                *)
(***************************************************************************)
EXTENDS Integers, Sequences, FiniteSets

CONSTANTS Tasks,        \* the callers, interrupt handlers aside
          ISR,          \* stands for the interrupt handlers
          NumBuffers,   \* ipconfigNUM_NETWORK_BUFFER_DESCRIPTORS
          Threshold     \* baINTERRUPT_BUFFER_GET_THRESHOLD

ASSUME PoolAssumption ==
    /\ NumBuffers \in Nat \ {0}
    /\ Threshold \in Nat
    /\ IsFiniteSet(Tasks)
    /\ ISR \notin Tasks

Buffers == 1 .. NumBuffers      \* xNetworkBuffers
NoBuffer == 0
Callers == Tasks \cup {ISR}

VARIABLES
    xFreeBuffersList,       \* the free buffers, head first
    semaphore,              \* the count of xNetworkBufferSemaphore
    uxMinimumFree,          \* uxMinimumFreeNetworkBuffers
    pc,                     \* where each task is in its call
    arg,                    \* the buffer the call is about
    uxCount,                \* the list length a get has read, for the minimum
    held                    \* the buffers each caller owns

vars == <<xFreeBuffersList, semaphore, uxMinimumFree, pc, arg, uxCount, held>>

\* xNetworkBuffersInitialise
Init ==
    /\ xFreeBuffersList = [i \in 1 .. NumBuffers |-> i]
    /\ semaphore = NumBuffers
    /\ uxMinimumFree = NumBuffers
    /\ pc = [t \in Tasks |-> "idle"]
    /\ arg = [t \in Tasks |-> NoBuffer]
    /\ uxCount = [t \in Tasks |-> 0]
    /\ held = [c \in Callers |-> {}]

Free(b) == \E i \in DOMAIN xFreeBuffersList : xFreeBuffersList[i] = b

---------------------------------------------------------------------------
(* pxGetNetworkBufferWithDescriptor *)

\* mutant: a get that does not wait for the semaphore
GetTake_NoWait(t) ==
    /\ pc[t] = "idle"
    /\ semaphore' = semaphore - 1
    /\ pc' = [pc EXCEPT ![t] = "get"]
    /\ UNCHANGED <<xFreeBuffersList, uxMinimumFree, arg, uxCount, held>>

\* the semaphore; a time-out changes nothing and returns NULL
GetTake(t) ==
    /\ pc[t] = "idle"
    /\ semaphore > 0
    /\ semaphore' = semaphore - 1
    /\ pc' = [pc EXCEPT ![t] = "get"]
    /\ UNCHANGED <<xFreeBuffersList, uxMinimumFree, arg, uxCount, held>>

\* mutant: the head is returned and not unlinked
GetRemove_StaysLinked(t) ==
    /\ pc[t] = "get"
    /\ xFreeBuffersList # << >>
    /\ held' = [held EXCEPT ![t] = @ \cup {Head(xFreeBuffersList)}]
    /\ pc' = [pc EXCEPT ![t] = "count"]
    /\ UNCHANGED <<xFreeBuffersList, semaphore, uxMinimumFree, arg, uxCount>>

\* the critical section: unlink the head.  The owner of the head of an empty
\* list is no buffer of the list, and the call returns NULL
GetRemove(t) ==
    /\ pc[t] = "get"
    /\ IF xFreeBuffersList # << >>
       THEN /\ held' = [held EXCEPT ![t] = @ \cup {Head(xFreeBuffersList)}]
            /\ xFreeBuffersList' = Tail(xFreeBuffersList)
            /\ pc' = [pc EXCEPT ![t] = "count"]
       ELSE /\ pc' = [pc EXCEPT ![t] = "idle"]
            /\ UNCHANGED <<held, xFreeBuffersList>>
    /\ UNCHANGED <<semaphore, uxMinimumFree, arg, uxCount>>

\* the statistics, outside the critical section: read the length and compare,
\* then store
GetCount(t) ==
    /\ pc[t] = "count"
    /\ uxCount' = [uxCount EXCEPT ![t] = Len(xFreeBuffersList)]
    /\ pc' = [pc EXCEPT ![t] = IF uxMinimumFree > Len(xFreeBuffersList)
                               THEN "minimum" ELSE "idle"]
    /\ UNCHANGED <<xFreeBuffersList, semaphore, uxMinimumFree, arg, held>>

GetMinimum(t) ==
    /\ pc[t] = "minimum"
    /\ uxMinimumFree' = uxCount[t]
    /\ pc' = [pc EXCEPT ![t] = "idle"]
    /\ UNCHANGED <<xFreeBuffersList, semaphore, arg, uxCount, held>>

---------------------------------------------------------------------------
(* vReleaseNetworkBufferAndDescriptor *)

\* The caller releases a buffer it owns
Release(t) ==
    /\ pc[t] = "idle"
    /\ \E b \in held[t] : arg' = [arg EXCEPT ![t] = b]
    /\ pc' = [pc EXCEPT ![t] = "release"]
    /\ UNCHANGED <<xFreeBuffersList, semaphore, uxMinimumFree, uxCount, held>>

\* mutant: the buffer is not inserted
ReleaseInsert_Not(t) ==
    /\ pc[t] = "release"
    /\ held' = [held EXCEPT ![t] = @ \ {arg[t]}]
    /\ pc' = [pc EXCEPT ![t] = "give"]
    /\ UNCHANGED <<xFreeBuffersList, semaphore, uxMinimumFree, arg, uxCount>>

\* the critical section: a buffer that is in the list already stays there
ReleaseInsert(t) ==
    /\ pc[t] = "release"
    /\ IF Free(arg[t])
       THEN /\ pc' = [pc EXCEPT ![t] = "idle"]
            /\ UNCHANGED <<xFreeBuffersList, held>>
       ELSE /\ xFreeBuffersList' = Append(xFreeBuffersList, arg[t])
            /\ held' = [held EXCEPT ![t] = @ \ {arg[t]}]
            /\ pc' = [pc EXCEPT ![t] = "give"]
    /\ UNCHANGED <<semaphore, uxMinimumFree, arg, uxCount>>

ReleaseGive(t) ==
    /\ pc[t] = "give"
    /\ semaphore' = IF semaphore < NumBuffers THEN semaphore + 1 ELSE semaphore
    /\ pc' = [pc EXCEPT ![t] = "idle"]
    /\ UNCHANGED <<xFreeBuffersList, uxMinimumFree, arg, uxCount, held>>

---------------------------------------------------------------------------
(* pxNetworkBufferGetFromISR, vNetworkBufferReleaseFromISR *)

\* mutant: the handler's get takes a buffer and no unit of the semaphore
GetFromISR_NoTake ==
    /\ semaphore > Threshold /\ xFreeBuffersList # << >>
    /\ held' = [held EXCEPT ![ISR] = @ \cup {Head(xFreeBuffersList)}]
    /\ xFreeBuffersList' = Tail(xFreeBuffersList)
    /\ UNCHANGED <<semaphore, uxMinimumFree, pc, arg, uxCount>>

GetFromISR ==
    /\ semaphore > Threshold
    /\ semaphore' = semaphore - 1
    /\ held' = [held EXCEPT ![ISR] = @ \cup {Head(xFreeBuffersList)}]
    /\ xFreeBuffersList' = Tail(xFreeBuffersList)
    /\ UNCHANGED <<uxMinimumFree, pc, arg, uxCount>>

\* mutant: the semaphore is not given
ReleaseFromISR_NoGive ==
    /\ \E b \in held[ISR] :
          /\ xFreeBuffersList' = Append(xFreeBuffersList, b)
          /\ held' = [held EXCEPT ![ISR] = @ \ {b}]
    /\ UNCHANGED <<semaphore, uxMinimumFree, pc, arg, uxCount>>

ReleaseFromISR ==
    /\ \E b \in held[ISR] :
          /\ xFreeBuffersList' = Append(xFreeBuffersList, b)
          /\ held' = [held EXCEPT ![ISR] = @ \ {b}]
    /\ semaphore' = IF semaphore < NumBuffers THEN semaphore + 1 ELSE semaphore
    /\ UNCHANGED <<uxMinimumFree, pc, arg, uxCount>>

---------------------------------------------------------------------------
(* A buffer changes hands outside the pool, as an event of the IP task or  *)
(* in a DMA descriptor.                                                    *)
HandOver(c, d, b) ==
    /\ b \in held[c] /\ c # d
    /\ c \in Tasks => ~ (pc[c] = "release" /\ arg[c] = b)
    /\ held' = [held EXCEPT ![c] = @ \ {b}, ![d] = @ \cup {b}]
    /\ UNCHANGED <<xFreeBuffersList, semaphore, uxMinimumFree, pc, arg, uxCount>>

TaskStep(t) ==
    \/ GetTake(t) \/ GetRemove(t) \/ GetCount(t) \/ GetMinimum(t)
    \/ Release(t) \/ ReleaseInsert(t) \/ ReleaseGive(t)

Next ==
    \/ \E t \in Tasks : TaskStep(t)
    \/ GetFromISR
    \/ ReleaseFromISR
    \/ \E c, d \in Callers, b \in Buffers : HandOver(c, d, b)

Spec == Init /\ [][Next]_vars

---------------------------------------------------------------------------
(* The types of the state. *)
TypeOK ==
    /\ xFreeBuffersList \in Seq(Buffers)
    /\ semaphore \in 0 .. NumBuffers
    /\ uxMinimumFree \in 0 .. NumBuffers
    /\ pc \in [Tasks -> {"idle", "get", "count", "minimum", "release", "give"}]
    /\ arg \in [Tasks -> Buffers \cup {NoBuffer}]
    /\ uxCount \in [Tasks -> 0 .. NumBuffers]
    /\ held \in [Callers -> SUBSET Buffers]

\* the tasks between the two steps of a get or of a release, given where each is
Underway(at) == {t \in Tasks : at[t] \in {"get", "give"}}

(* The semaphore never runs ahead of the list: every unit of it, and every *)
(* task that took one and is on its way to the list, finds a buffer there. *)
(* A release in progress is in the list before it is in the semaphore.     *)
SemaphoreBacked ==
    semaphore + Cardinality(Underway(pc)) = Len(xFreeBuffersList)

(* No buffer is twice in the list, and none is free and owned or owned by  *)
(* two callers; what a task is releasing it still owns.                    *)
NoDoubleFree ==
    \A i, j \in DOMAIN xFreeBuffersList :
        i # j => xFreeBuffersList[i] # xFreeBuffersList[j]

OwnedOnce ==
    /\ \A c \in Callers : \A b \in held[c] : ~ Free(b)
    /\ \A c, d \in Callers : c # d => held[c] \cap held[d] = {}
    /\ \A t \in Tasks : pc[t] = "release" => arg[t] \in held[t]

(* No buffer is lost.                                                      *)
NoLeak == \A b \in Buffers : Free(b) \/ \E c \in Callers : b \in held[c]

(* A get whose semaphore was taken never finds the list empty.             *)
GetSucceeds == \A t \in Tasks : pc[t] = "get" => xFreeBuffersList # << >>

(* The inductive invariant.                                                *)
IInv == TypeOK /\ SemaphoreBacked /\ NoDoubleFree /\ OwnedOnce /\ NoLeak
=============================================================================
