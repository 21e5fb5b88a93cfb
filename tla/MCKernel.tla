------------------------------ MODULE MCKernel ------------------------------
EXTENDS Kernel, TLC

CONSTANTS idle, low, mid, high, A, Q

Priorities == idle :> 0 @@ low :> 1 @@ mid :> 2 @@ high :> 3

C(op, obj, ticks) == [op |-> op, obj |-> obj, ticks |-> ticks]

\* One mutex and three tasks; the middle one runs as long as it likes
MutexType   == A :> "mutex"
MutexLength == A :> 1
MutexCalls  ==
    idle :> {}
    @@ low :> {C("take", A, portMAX_DELAY), C("send", A, 0)}
    @@ mid :> {C("delay", NULL, 1), C("take", A, 1), C("send", A, 0)}
    @@ high :> {C("take", A, portMAX_DELAY), C("take", A, 1), C("send", A, 0),
                C("delay", NULL, 2)}

\* A queue of one item between two tasks and interrupt handlers, and delays, of
\* no time and of the longest one among them
QueuePriorities == idle :> 0 @@ low :> 1 @@ mid :> 2
QueueType   == Q :> "queue"
QueueLength == Q :> 1
QueueCalls  ==
    idle :> {}
    @@ low :> {C("send", Q, 2), C("receive", Q, portMAX_DELAY), C("delay", NULL, 2)}
    @@ mid :> {C("receive", Q, 1), C("peek", Q, portMAX_DELAY),
               C("notifyTake", NULL, 1), C("delay", NULL, 0),
               C("delay", NULL, portMAX_DELAY)}
QueueIsr == {[op |-> "send", obj |-> Q], [op |-> "receive", obj |-> Q],
             [op |-> "notify", obj |-> mid]}
=============================================================================
