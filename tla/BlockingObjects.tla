-------------------------- MODULE BlockingObjects --------------------------
(***************************************************************************)
(* What the queues, semaphores and mutexes of FreeRTOS promise, whatever   *)
(* the scheduler does: a request is granted in one step, when there is     *)
(* room or something to take; a mutex is granted to one task at a time and *)
(* given back by that task; and a request with a time is refused only      *)
(* after that time.                                                        *)
(***************************************************************************)
EXTENDS Integers

CONSTANTS Task, Object,
          Mutex,        \* SUBSET Object
          Length,       \* [Object -> Nat \ {0}]
          Forever,      \* the waiting time that never ends
          Request,      \* records [op, obj, ticks]
          NULL

VARIABLES count,        \* [Object -> items there]
          owner,        \* [Object -> the mutex's owner or NULL]
          want,         \* [Task -> its request or NULL]
          waited        \* [Task -> ticks it has waited, at least]

vars == <<count, owner, want, waited>>

Init ==
    /\ count = [o \in Object |-> IF o \in Mutex THEN 1 ELSE 0]
    /\ owner = [o \in Object |-> NULL]
    /\ want = [t \in Task |-> NULL]
    /\ waited = [t \in Task |-> 0]

Done(t) == want' = [want EXCEPT ![t] = NULL] /\ waited' = [waited EXCEPT ![t] = 0]

Ask(t) ==
    /\ want[t] = NULL
    /\ \E r \in Request :
          /\ r.obj \in Mutex => (r.op = "send") = (owner[r.obj] = t)
          /\ want' = [want EXCEPT ![t] = r]
    /\ UNCHANGED <<count, owner, waited>>

GrantSend(t) ==
    LET o == want[t].obj
    IN  /\ want[t] # NULL /\ want[t].op = "send" /\ count[o] < Length[o]
        /\ count' = [count EXCEPT ![o] = @ + 1]
        /\ owner' = [owner EXCEPT ![o] = NULL]
        /\ Done(t)

GrantTake(t) ==
    LET o == want[t].obj
    IN  /\ want[t] # NULL /\ want[t].op \in {"receive", "take"} /\ count[o] > 0
        /\ count' = [count EXCEPT ![o] = @ - 1]
        /\ owner' = [owner EXCEPT ![o] = IF o \in Mutex THEN t ELSE NULL]
        /\ Done(t)

GrantPeek(t) ==
    /\ want[t] # NULL /\ want[t].op = "peek" /\ count[want[t].obj] > 0
    /\ Done(t) /\ UNCHANGED <<count, owner>>

\* A delay is a request that only time answers
Refuse(t) ==
    /\ want[t] # NULL /\ (want[t].ticks # Forever \/ want[t].op = "delay")
    /\ waited[t] >= want[t].ticks
    /\ Done(t) /\ UNCHANGED <<count, owner>>

Interrupt ==
    /\ \E o \in Object \ Mutex : \E n \in {count[o] - 1, count[o] + 1} \cap 0 .. Length[o] :
          count' = [count EXCEPT ![o] = n]
    /\ UNCHANGED <<owner, want, waited>>

Tick ==
    /\ \E ts \in SUBSET {t \in Task : want[t] # NULL} :
          waited' = [t \in Task |-> IF t \in ts THEN waited[t] + 1 ELSE waited[t]]
    /\ UNCHANGED <<count, owner, want>>

Next ==
    \/ \E t \in Task : \/ Ask(t) \/ GrantSend(t) \/ GrantTake(t)
                       \/ GrantPeek(t) \/ Refuse(t)
    \/ Interrupt \/ Tick

Spec == Init /\ [][Next]_vars
=============================================================================
