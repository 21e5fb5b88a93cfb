# Formal models of CoreLPC4RRF

CoreLPC4RRF is the hardware layer of RepRapFirmware for the LPC1768: Arduino-like
drivers (`src/CoreLPC2`), FreeRTOS and FreeRTOS+TCP with the LPC17xx Ethernet port
(`src/FreeRTOS`).  This directory holds TLA+ models of its concurrent parts, TLC
configurations that check them on small instances, and proofs for TLAPS: the drivers
with the interrupts and the hardware they share state with, the kernel's scheduler and
its blocking calls, one TCP connection, and the SD card.

Contents: [inventory](#inventory) · [plan](#plan) · [modules](#modules) ·
[runs](#runs-bounds-and-fairness) · [proofs](#proofs) ·
[what the code does not keep](#where-the-code-does-not-do-what-it-says) ·
[not modelled](#not-modelled-and-why) · [commands](#commands)

Paths below leave out `src/`; `NI` is
`FreeRTOS/FreeRTOS-Plus-TCP/portable/NetworkInterface/LPC17xx/NetworkInterface.c`,
`UHAL` is `CoreLPC2/cores/smoothie/USBDevice/USBDevice/USBHAL_LPC17.cpp`, and the files
of FreeRTOS (`FreeRTOS/src`) and FreeRTOS+TCP (`FreeRTOS/FreeRTOS-Plus-TCP`) go by their
names alone.

## Inventory

There is one core.  What runs at the same time is: interrupt handlers, which run to
completion before any thread goes on; FreeRTOS tasks, preempted by priority; and the
hardware (UART, MAC and DMA, USB controller), which goes on all the time.

### Ring buffer — `lpcopen/src/ring_buffer.c`, `inc/ring_buffer.h`
*State:* `head` and `tail`, which run freely and wrap at 2^32, and the slots.
*Operations:* Init, Insert, InsertMult, Pop, PopMult, Peek, counts; Flush, which nothing calls
and which is not modelled.
*Used by* the UART: one producer and one consumer, in a thread and in a handler, no lock.
*Hard:* the order of the copy and of the index update; the wrap of the counters; the
split of a batch at the end of the buffer.
*Correct when* it is a bounded FIFO, and the two sides never touch a slot together.

### UART serial port — `ExploreM3/HardwareSerial.cpp`, `lpcopen/src/uart_17xx_40xx.c`
*State:* a transmit and a receive ring, the interrupt enables, the hardware FIFOs.
*Operations:* write, write(buffer, size), flush, read, peek, available, the handler.
*Interacts:* the transmit ring has two consumers, the handler and the writer itself,
which primes the FIFO; the writer masks THREINT meanwhile.
*Hard:* bytes left behind with the interrupt off, the busy wait in write(buffer, size), a
receive ring that is full while the FIFO still has to be emptied.
*Correct when* bytes go out once and in order, none is stranded, and a byte is lost
only to a full FIFO or ring.

### Network buffer pool — `BufferManagement/BufferAllocation_1.c`
*State:* the list of free descriptors (critical sections) and a counting semaphore.
*Operations:* get, release, both from tasks and from interrupt handlers.
*Interacts:* used by the IP task, the EMAC task and sockets; buffers then change hands.
*Hard:* the semaphore is taken apart from, and before, the removal; it is given after
the insertion; a release may find the buffer in the list already.
*Correct when* semaphore and list agree, a get that took the semaphore finds a buffer,
and every buffer has one owner.

### Ethernet driver — `NI`, `lpcopen/src/enet_17xx_40xx.c`
*State:* two DMA descriptor rings, their indices in the MAC and in the driver, the
transmit semaphore, `ulISREvents`, the EMAC task's notification.
*Operations:* xNetworkInterfaceOutput (IP task), NETWORK_IRQHandler,
prvEMACHandlerTask with vClearTXBuffers and prvNetworkInterfaceInput.
*Interacts:* with the pool, the IP task's event queue, sockets, and the MAC.
*Hard:* five actors that share descriptors and flags, most of it without a lock; overrun;
pool and queue full; the MAC's index updated before the driver's own.
*Correct when* every buffer has one owner, transmit credits are conserved, and neither
direction dies.

### USB serial port and endpoint layer — `smoothie/USBDevice`
*State:* two circular buffers, the count of lines, the bits `attached` and
`flush_to_nl`; per endpoint a credit count, an event bit, a mask bit; the controller's
double buffers.
*Operations:* writeBlock, _putc, _getc, flush, the handlers of the bulk
endpoints, usbisr, the endpoint read and write calls, the control requests.
*Interacts:* usbisr runs in the interrupt, and also in a thread that waits for room; the
host takes, sends and attaches when it likes.
*Hard:* the same handler in two contexts, one inside the other; handlers that switch
themselves off; a queue in which the interrupt *removes* bytes under the reader.
*Correct when* bytes pass once and in order and neither direction is left switched off.

### USB device, control transfers, SerialUSB, DFU
*State:* the transfer (what is left, direction, empty packet to come), the device's state and
configuration, the line coding; endpoint 0 in the controller.  *Operations:* setup, data and
status stages, descriptors packet by packet, stall, bus reset.  *Interacts:* usbisr serves
the endpoint; the host sends, polls, gives up and resets.  SerialUSB passes calls through to USBSerial.
DFU is one request that waits for the watchdog.
*Hard:* events of one transfer that are served in the next; a SETUP packet on top of data; the
last packet; one endpoint number converted twice.
*Correct when* each request is answered for itself, both sides agree on what was set, and every
transfer ends.

### FreeRTOS kernel — `tasks.c`, `queue.c`, `portable/GCC/ARM_CM3/port.c`
*State:* the ready, delayed, overflow, suspended and pending-ready lists, one bit per ready
priority, the tick count, the ticks held back while the scheduler is suspended; per
queue the messages, two lists of waiting tasks, two lock counters and, for a mutex, the holder.
*Operations:* send, receive, peek, semaphore take, their interrupt forms, vTaskDelay,
ulTaskNotifyTake and its give, the tick, the context switch, priority inheritance.  A delay of 0 ticks only yields.
*Interacts:* every driver above calls it; interrupt handlers enter it in the middle of a
task's call.
*Hard:* a blocking call is several critical sections and a stretch with the
scheduler suspended, and queues locked against the handlers; time-outs restart
after a wake-up in vain; a priority raised by a waiter has to come down again
when the waiter gives up; the tick count wraps.
*Correct when* the highest ready task runs, no task sleeps next to what it waits for,
a call that gives up has waited its time, a mutex bounds priority inversion, and, from
outside, each call is atomic.

### TCP connection — `FreeRTOS_TCP_IP.c`, `FreeRTOS_TCP_WIN.c`, `FreeRTOS_Sockets.c`
*State:* the socket's state, its close flags, the sequence numbers of both directions, the one
segment under way (the build has no sliding windows), the two streams.
*Operations:* the IP task's handling of a segment, its timer and its age check; accept,
send, recv, shutdown and closesocket of the task that owns the socket.
*Interacts:* the IP task and the owner share the socket; closing goes through the event
queue of the IP task.
*Hard:* segments lost, repeated and out of order, retransmission against a late
acknowledgement, sequence numbers that wrap, and an end that either side may ask for at any
time, at the same time, or while data is under way.
*Correct when* each side reads what the other wrote, what is acknowledged is there, the end
comes last, and the socket is given back.

### SD card and shared SPI — `libraries/SDCard`, `libraries/SharedSPI`
*State:* card type, `busyflag`, one global that names the selected device of both
buses.  *Operations:* construction, ReInit, disk_initialize, disk_read, disk_write;
select, deselect, transfer.  *Interacts:* with a card that keeps a state of its own and can be
pulled out between any two commands.  *Hard:* failure in the middle of a command, waits
without a time-out, chip select, a card type that outlives the card.
*Correct when* a block goes to its place on the card that is in, the bus is free
between calls, and a call ends but for the two waits that have no time-out.

### Wire — `libraries/Wire`
Transmit and receive buffers over a bit-banged bus.  *Hard:* buffer limits; a state
that one overflow leaves for good.

### External interrupts, analog, PWM, timers, digital I/O, time base, watchdog
Mostly register access.  *Hard:* the slot allocation and the loop of the handler in
`exti.cpp`; the 64-bit tick count that is read in two halves.

### The rest of FreeRTOS+TCP
The table of listening sockets with its backlog, active connects, UDP, ARP, DHCP, DNS and
ICMP around the IP task's event queue.  *Hard:* children that outlive their parent, and a
backlog that is counted in two places.

`PROJECT.json` lists each component with its sources, and each hazard with its line.

## Plan

Most important first; a later module composes or extends an earlier one.

1. **Done.** `RingBuffer`, `SharedRing`, `ByteFifo`: the ring and its abstract queue.
2. **Done.** `HardwareSerial`: the UART driver over two rings.
3. **Done.** `NetworkBuffers`, `NetworkBuffersProofs`: the pool, and its proof.
4. **Done.** `EthernetDriver`: the data path, in the firmware's own configuration.
5. **Done.** `CircBuffer`, `UsbSerial`: the serial port over the bulk endpoints.
6. **Done.** `Scheduler`, `Kernel`, `BlockingObjects`: the kernel under the drivers, and
   what its calls promise.  The drivers' own modules use that promise (a semaphore
   or a notification is one step there).
7. **Done.** `TcpSocket`, `TcpConnection`: the receive, send and close paths of a socket,
   composed with its owner, the network and a peer.
8. **Done.** `SdCard`: selection, commands, time-outs, failures and swaps.
9. **Done.** `UsbControl`: setup, data and status stages, configuration, stall, bus reset.
10. `TcpServer`: the listening socket, its backlog, and children left without a parent.
11. `Wire`: buffers and limits.  `Exti`: slots and the handler.  Link start-up of the Ethernet
   driver, added to `EthernetDriver`.

Theorems still worth proving, in this order:
- `UsbControl`: AnsweredRight and InStep;
- `TcpSocket`: what storing and acknowledging do to the sequence numbers, as lemmas, and from
  them InOrder and AckedIsThere under the conditions they name.

## Modules

An action is one step at the grain at which other actors can come in between.  A call
that runs with interrupts off, or in a handler that nothing else of the model can
interrupt, is one action; a read-modify-write of a shared word in a thread is a load and
a store.  Program counters (`pc`, `at`) name the place in the C function; comments
above the actions quote the call they stand for.  Every definition's source lines are
in `map` of `PROJECT.json`.

| Module | Models | State ↔ code |
|---|---|---|
| `RingBuffer` | ring_buffer.c as operators on a record | `head`, `tail` modulo `CounterMod` ↔ the 32-bit counters; `slots` ↔ `data` |
| `SharedRing` | a producer and a consumer, step by step | `prod`, `cons` ↔ position in InsertMult, PopMult; copy and index update are separate actions |
| `ByteFifo` | abstract: a bounded queue | refined by `SharedRing` with `queue <- Contents(ring)` |
| `HardwareSerial` | driver, handler, UART | `tx`, `rx` ↔ the rings; `IER` ↔ interrupt enables; `thr`, `rxfifo` ↔ hardware; `wr`, `rd`, `isr` ↔ the threads and the handler |
| `NetworkBuffers` | the pool | names as in the code; `held` ↔ who owns a buffer, which the code does not record |
| `EthernetDriver` | driver, MAC, IP task, sockets | `txDesc`, `rxDesc` ↔ descriptors; `txProduce` … ↔ MAC registers; `nextFree`, `toClear`, `txSem` ↔ the driver's own; `emac`, `ip` ↔ the tasks |
| `CircBuffer` | CircBuffer.h as operators | `write`, `read`, `size`, `buf` as in the code |
| `UsbSerial` | serial port, endpoint layer, controller, host | `intSt`, `intEn`, `slow` ↔ USBEpIntSt, USBEpIntEn, EP_SLOW; `can_transfer`, `fifo` ↔ credits, packets; `usb` ↔ usbisr in either context; `th` ↔ the thread |
| `UsbControl` | control transfers: USBDevice, endpoint 0, host | `s.t` ↔ CONTROL_TRANSFER with confIndex and confSubIndex; `s.state`, `s.configuration`, `s.coding` ↔ USB_DEVICE and cdc_line_coding; `s.out`, `s.in`, `s.stp`, `s.stalled`, `s.evOut` … ↔ the controller; `pc` ↔ usbisr; `host` is outside the code |
| `Scheduler` | tasks.c as operators on a record, each a function called inside one critical section | `k.list`, `k.wake`, `k.prio` ↔ state list, its item value and priority of the TCB; `k.bits` ↔ uxTopReadyPriority; `k.tick`, `k.pended`, `k.suspended` ↔ the static variables; `k.cur`, `k.pendSV` ↔ pxCurrentTCB and the pending switch |
| `Kernel` | queue.c, the blocking calls of tasks.c, handlers, tick | `q` ↔ Queue_t; `th` ↔ the place and the locals of the call each task is in; an action is a critical section |
| `BlockingObjects` | abstract: requests granted in one step, exclusive, never refused early | refined by `Kernel` (`AtomicObjects`) |
| `TcpSocket` | the IP task's half of a connection, as operators on a socket | `s` ↔ FreeRTOS_Socket_t with its IPTCPSocket_t and TCPWindow_t; `s.bits` ↔ the flags of `bits` and `eEventBits` that matter |
| `TcpConnection` | IP task, owner, network, peer | `s` ↔ the child socket; `owner` ↔ the task's calls; `toUs`, `toPeer`, `peer` are outside the code |
| `SdCard` | SDCard.cpp, SharedSpi.cpp, a card | `host` ↔ members of SDCard and the call under way; `bus` ↔ chip select and selectedSSPDevice; `card` is outside the code |

`<Module>Proofs` holds the theorems about a module ([proofs](#proofs)).  The `MC…` modules instantiate them for TLC.  Ghost variables (`wire`, `accepted`,
`delivered`, `host` in `UsbSerial`, `reentered`, `torn`, `misled`, `missed`, `first`, `got`, `failed` …) record what has happened and guard nothing
except through the named bounds.

### Choices a reader should know

- **Ring.** Memory accesses are taken in program order.  There is one core, and the counts
  read the indices as `volatile` (RB_VHEAD, RB_VTAIL); the updates are plain `head++` and
  `tail++`, and that the compiler leaves them after the copy is an assumption.
- **UART.** The transmit FIFO is a single byte, which is the case in which an interrupt
  can be missed.  `read()` returns an `int` of which it sets one byte; the other
  bytes are a nondeterministic choice, and so is all of `peek()` on an empty ring.
- **Pool.** `HandOver` is what the rest of the firmware does with buffers; it is the
  assumption about callers (a task does not give away what it is releasing).
- **Ethernet.** The EMAC task is taken to have a higher priority than the IP task: the
  IP task runs only while it is blocked.  The function that creates the task is not in this
  repository; the driver's own call, commented out, gives it the highest priority (NI:359).  The pool is a set
  here; its protocol is the subject of `NetworkBuffers`.  Reading the count of free
  buffers and getting one are separate steps in which no other task runs.
- **USB serial.** The device stays configured.  A control transfer is one step, of which only
  the line state matters.  The handler in the interrupt is one step per endpoint; the
  same handler in the thread is cut at every access the interrupt can disturb.  The
  controller raises one event per packet moved and keeps no count; whether an event
  that comes while usbisr runs raises EP_SLOW again is left open.  Lines, erase
  characters and other bytes are distinguished, their values are not.
- **USB control.** The controller follows its manual where the code relies on it: a SETUP packet is
  always taken, ends a stall and takes an unsent answer back; no answer can be written while one waits;
  the stall of endpoint 0 is conditional on that; a NAK raises an interrupt; realising an endpoint
  empties it.  The host follows the USB specification: one transfer at a time, and a
  device that was reset is left alone until it has seen it.  It gives up only between two interrupts, since its
  time-outs are seconds.  A handler of endpoint 0 is one step, but anything may come between the
  choice of the handler and the handler.  Bytes are named by what they belong to, so that a wrong or missing one shows.
- **Kernel.** Which of several ready tasks of one priority runs is left open (the code takes
  turns; no property depends on it).  The tick count is taken modulo 3 or 4, and a wait is
  shorter than that, as `portMAX_DELAY` makes it in the code.  Ticks held back by a suspended scheduler, calls
  of handlers while a queue is locked, and notification counts are bounded by MaxPended, MaxLock and
  MaxNotified: the tick and the handlers pause there.  Tasks and
  queues exist from the start.  What is sent is left out, how many messages wait is kept.
- **TCP.** The build has `ipconfigUSE_TCP_WIN` at 0: one segment under way, nothing
  stored out of order.  Options and advertised windows are left out, as if the peer's window were always
  large enough.  A timer may run out at any time, which covers every way round-trip estimates could
  set it.  The owner's calls are one step: it has the lower priority and waits in calls
  outside of which the stack works.  A segment into a full network is dropped.  The sequence
  numbers of both sides go through the wrap.  Where the code loses sight of something (our numbers
  at the wrap, a bare ACK in SYN_RECEIVED, our FIN first; see below) the model does as the code
  and notes it in a history variable, `lapses`, which the properties name.
- **SD card.** One task uses the card and asks `disk_status` first, as FatFs does.  A step is one
  transaction from select to deselect.  A block of data is the number of the block it is meant
  for, so that a block in the wrong place shows.  The card follows the SD specification as far as
  the driver's commands go; it can be swapped between any two of them, fall silent, answer with an error,
  or fail in the middle of a transfer: never send the block it promised, never end storing one.  Both waits
  without a time-out (SDCard.cpp:521, 563) are places of their own, in which the call can stay for ever.  That an
  empty slot and a new card leave the line high, so that a swap ends the second wait, is assumed of the wiring.
  Uninitialised variables (`cardtype` before the first `disk_initialize`, `ocr` of a failed CMD58) have any value.

## Runs, bounds and fairness

| Run | Checks | Shows |
|---|---|---|
| `shared_ring` | NoSlotRace, LooksExact, ImplementsFifo | the unlocked ring is a FIFO with one producer and one consumer |
| `uart` | InOrder, NoStrandedBytes; TxDrains, WriteReturns | two consumers of one ring do not disturb each other; all bytes go out; waits end |
| `buffer_pool` | TypeOK, SemaphoreBacked, OwnedOnce, NoLeak, GetSucceeds | semaphore and list agree under two tasks and the handlers |
| `ethernet` | OneOwner, TxCredits, NoRxStall, NoTxStall | no buffer and no credit is lost or doubled, on any path; a full ring and an exhausted semaphore are relieved, through errors, shortage and overrun |
| `usb_serial` | TxExact, TxNotStranded, RxReenabled, NeverDropsOldest, RxInOrder | two contexts run the same handlers; bytes keep their order, nothing is left switched off |
| `usb_control` | AnsweredRight, InStep; Ends | each request gets its own answer and ends; both sides agree on the configuration and the line coding |
| `kernel_mutex` | RunsHighest, ReadyBitsExact, Inheritance; TakeSucceeds, AtomicObjects | the scheduler follows every change of a priority; the highest task gets its mutex; the calls are atomic |
| `kernel_queue` | WaitsExactly, NoLostWakeup; NeverEarly | no wake-up is lost to a handler, a lock or a time-out; waits have their length |
| `tcp` | InOrder, AckedIsThere; Delivered, Closes | a connection under one fault of any kind, closed from either end or never |
| `sd` | RightBlock, BusReleased, BusyOnlyAfterFailure; Returns | a driver whose card changes, fails and disappears; a call hangs in two known places and only after that |
| `kernel_assert` | TakeAssert — violated | a take that times out trips the kernel's own assertion |
| `tcp_fin` | FinIsAccepted — violated | a peer's FIN is refused for good |

Every module of a component states a `TypeOK`.  It documents the state, and it is checked where
it is part of a proof or carries a fact of its own; elsewhere it can be added to the configuration.

**Conditions in the properties.**  `TxExact` and `TxNotStranded` hold until the interrupt
has run inside the thread's own usbisr (`reentered`), which the code does not
prevent and which does break the order; so does `NeverDropsOldest`, since the interrupt can take the room the
thread has just found.  `TxNotStranded` also leaves out what usbisr loses for good or until the next event (`lost`):
the USB interrupt, which a read or a control transfer in the thread's usbisr disables and never enables again
(USBHAL_LPC17.cpp:352, 424), and an IN event that comes after its endpoint's turn, when EP_SLOW is cleared (977).  `RxReenabled` says that the OUT handler is wanted, not that the interrupt is enabled.  `RxInOrder` and `RxReenabled` hold until the interrupt moves `rxbuf` back
(erase, or a line that is too long) under a running dequeue (`torn`).  Without their conditions NeverDropsOldest and
RxReenabled are violated only in larger instances than the run's (`RxSize` 4 with `TxSize` 4, `MaxTx` and `MaxRx` 4 and
`MaxBytes` 8, or with `MaxRx` 6); it was their proof, for every size, that showed that they need them.  The EMAC task clears event
flags outside a critical section (NI:1099) and loses others: `NoRxStall` and `NoTxStall` excuse a direction
from such a loss until its next event (`wiped`), which must make up for it.
`RunsHighest` leaves out the states, up to the next switch, after a mutex was given back and the switch asked for was
dropped (queue.c:778), or after a time-out that raised a holder (tasks.c:3986), which asks for none (`missed`).  The
second takes two mutexes, more than the run has; the proof of RunsHighest, for any number, came upon it.
The properties of a TCP connection leave out, each by name, what the code is seen to lose (`lapses`).  `AckedIsThere` and
`Delivered` speak of the peer's bytes until our own FIN goes first (`finFirst`), from when on the code acknowledges what it
discards, and they and `InOrder` until a bare ACK has ended SYN_RECEIVED too far (`skipped`); of our bytes they speak until
the unsigned comparison has misjudged an acknowledgement at the wrap (`misjudged`).  `Delivered` and `Closes`
leave out, once a fault has happened, sockets that close by themselves (`ClosesItself`), whose FIN is sent once; `Closes` also a child that nobody owns
(`Ownerless`) and, again, a misjudged connection, whose FIN follows data the peer never gets, so that the two answer each other for ever.
`Closes` asks for nothing where nothing has to end: not while the owner keeps the connection open, not of a FIN that is refused
(`tcp_fin`), and not of a peer that is gone while all is quiet, which nothing in this build would notice.  What remains under these conditions is not empty:
TLC visits the states before and apart from them, and each property has a mutant of
the code, run under the same configuration, that it rejects.

**Bounds.**  *shared_ring:* 4 slots, counters modulo 8, 10 items, batches up to 3. The
counters wrap once and batches are split at every position.  *uart:* rings of 2,
counters modulo 4, a receive FIFO of 1, 4 bytes out and 3 in: rings fill, wrap and
overflow.  *buffer_pool:* 3 buffers, 2 tasks, the handlers, threshold 1: the pool runs
dry, and a handler meets the threshold.  *ethernet:* the firmware's
descriptors and buffers (FreeRTOSIPConfig.h: 2 to receive, 2 to transmit, 5 buffers) and all kinds of
frames (1.1 million states, the buffers being interchangeable): the pool is short whenever a buffer or two are
in use, and just as often there is one to exchange.  *usb_serial:* packets of 2 bytes, `txbuf` of
2 (one usable) and `rxbuf` of 4, up to 3 bytes written and 4 received, 4 together: both
buffers fill and wrap, a packet finds too little room, a line is thrown away, and the
thread waits for room.  *usb_control:* packets of 2 bytes; a device descriptor of 3 bytes, a configuration of
6 in three descriptors of 3, 2 and 1 around a string of 2; reads of 4, 6 and 7 bytes, so that the configuration is
shortened, exact, and in need of an empty packet; two line codings (467 619 states): stale events, SETUP packets
on top of others, resets and stalls all happen.  *kernel_mutex:* four tasks (the idle task, the two that take one mutex
and one between them that never needs it), tick count modulo 3, waits of 1 tick or for ever: inheritance, its end by giving and by
time-out, and inversion all happen (354 284 states).  *kernel_queue:* the idle task and two
others, a queue of one item, tick count modulo 4, calls with and without time, handlers
that send, receive and notify, one of their calls while the queue is locked, delays of 0, 2 and `portMAX_DELAY` ticks (2.8 million states): it is full and
empty, senders and receivers wait, time-outs restart, and both delayed lists are in use.
*kernel_assert:* the first instance with one more tick value.  *tcp:* sequence numbers modulo 16, 2 bytes each way in segments
of 1, our numbers and the peer's wrapping within them, room for 1 received byte and 2 to send, 3 segments under way to us and 2
to the peer, one fault, every way to close and none (1.4 million states): a segment is sent again, the stream fills, both FINs cross,
a bare ACK overtakes the data before it, and an old acknowledgement passes for a new one.  The two
invariants, without the liveness properties, hold with `MaxFaults` 2 and with `MaxToPeer` 3 as well.
*tcp_fin:* 1 byte each way, no fault.  *sd:* 3 blocks of 2 bytes, so that an address in bytes of one block is
the number of another, 3 kinds of cards, 2 polls, 2 faults (84 595 states): a card is swapped for one of another kind
and then fails.

`CHECK_DEADLOCK FALSE` is set only where the model really may stop: those that count bytes
at their bound, a TCP connection when it is over, and the SD driver when it waits for
data a card does not send, or for the end of storing that does not come.

**Fairness.**  *uart:* weak fairness of the UART's shift register, of a pending
interrupt and the handler's steps, of the writer inside its call (it spins, but is
runnable), and of the reader's pop.  Nobody is obliged to call, and no byte to arrive.
*kernel_mutex:* weak fairness
of the core (the pending switch or the running task's next step inside a call) and of the tick;
strong fairness of giving: a task that holds the mutex and runs again and again gives it back.
No task is obliged to take it, and the one in the middle may run for ever.
*usb_control:* weak fairness of usbisr, and of the host within a transfer: it takes, sends and tries again, but need
not begin another.  *tcp:* weak fairness of the IP task, of its timer when the network is empty, of the owner in reading what has
come and in closing a connection whose calls return an error, which is what an application does that uses the socket at all, and of
the peer while it lives.  Nobody is obliged to send or to shut down, and no fault has to happen.  *sd:* weak fairness of the
call under way, and of a card that stores a block and has not failed.  Where a weak fairness of a large action is written `[]<>~E \/ []<><<A>>_vars`,
`E` says when `A` is enabled; it is the same condition, in a form TLC evaluates faster.
*ethernet, usb_serial, kernel_queue, buffer_pool, shared_ring:* safety only; that the Ethernet
driver does not stall is stated as an invariant, which says what is under way whenever a direction is held up.

## Proofs

TLC checks one small instance of each model; the theorems below hold for every value of the
constants the assumptions allow.  A component's theorems are in a module of their own, named
after it, which begins with the inductive invariant and ends with the theorems; `KernelPriorityProofs` extends `KernelProofs`.

| Module | Theorem | States | Assumption |
|---|---|---|---|
| `NetworkBuffersProofs` | `TypeCorrect`, `SemaphoreAlwaysBacked`, `GetNeverFails`, `OneOwner`, `NothingLeaks` | TypeOK, SemaphoreBacked, GetSucceeds, OwnedOnce, NoLeak | `PoolAssumption` |
| `SharedRingProofs` | `NeverTheSameSlot`, `LooksAlwaysExact` | NoSlotRace, LooksExact | `SizeAssumption`, `CounterModAssumption` |
| | `ImplementsTheQueue` | ImplementsFifo: Spec refines `ByteFifo` | |
| `HardwareSerialProofs` | `KeepsOrder`, `NothingStranded` | InOrder, NoStrandedBytes | `SizesAssumption`, `CounterModAssumption` |
| `EthernetDriverProofs` | `OneOwnerAlways`, `CreditsAlwaysAddUp`, `ReceptionNeverStalls`, `TransmissionNeverStalls` | OneOwner, TxCredits, NoRxStall, NoTxStall | `DriverAssumption` |
| `SdCardProofs` | `RightBlockAlways`, `BusAlwaysReleased`, `BusyAfterFailureOnly` | RightBlock, BusReleased, BusyOnlyAfterFailure | `SdAssumption` |
| `UsbSerialProofs` | `TypeCorrect`, `AllBytesInOrder`, `NothingStranded` | TypeOK, TxExact, TxNotStranded | `SizesAssumption` |
| | `ReceptionGoesOn`, `NothingPushedOut`, `ReadsInOrder` | RxReenabled, NeverDropsOldest, RxInOrder | |
| `KernelProofs` | `WakesWhoWaits`, `ExactTimes`, `NoEarlyReturn` | NoLostWakeup, WaitsExactly, NeverEarly | `SchedulerAssumption`, `KernelAssumption` |
| | `ImplementsTheObjects` | AtomicObjects: Spec refines `BlockingObjects` | |
| `KernelPriorityProofs` | `HighestRuns` | RunsHighest | as `KernelProofs` |
| | `ExactBits`, `PrioritiesInherited` | ReadyBitsExact, Inheritance | and `MutexAssumption`, `OneMutexEach` |

Each module proves `Invariant == Spec => []IInv` (for the kernel `WInv`, `Timing` for `WInv /\ TInv`, `Priorities` for those and `RInv`, and `Lendings` for all with `MInv`) from `Init => IInv` and
`IInv /\ [Next]_vars => IInv'`, the second with one step or lemma per action, and the rest follows from it.
IInv was checked by TLC first.

### What is assumed

TLC evaluates every assumption on the runs.  What they say of the code:
- `SizeAssumption`, `SizesAssumption`: a ring is smaller than the range of its counters and divides it.  The code
  requires a power of two (ring_buffer.h:72) and counts modulo 2^32.
- `SizesAssumption` of `UsbSerial`: both buffers divide the range of their 16-bit indices, as 128 and 256 do in main.cpp;
  pop relies on it, whose `write--` wraps before the modulo is taken.  A packet has two bytes or more, and `rxbuf` holds
  more than one packet.
- `PoolAssumption`, `DriverAssumption`: finitely many tasks and buffers, at least one buffer per receive descriptor, and
  **two** descriptors or more each way.  The MAC holds a ring for full when the produce index is one before the consume
  index, so a ring of one is full for ever.  The firmware has 2 of each.
- `SdAssumption`: a block has at least a byte, and the driver polls at least once.
- `KernelAssumption`: finitely many tasks and objects; a mutex has one item; the idle task never blocks; NULL is
  none of the tasks, objects and calls.
  No assumption limits priorities, calls, lengths or times.
- `MutexAssumption`: a mutex is taken and given, never received from or peeked at: semphr.h has no such call.
- `OneMutexEach` is no assumption of the module but the hypothesis of two theorems: no task uses two mutexes.  A task may
  use one mutex and any queues and semaphores beside it, and a mutex may have any number of users.

### The arguments

**Pool.**  GetSucceeds is not inductive: that the list is not empty when a task
arrives follows only from counting who else is under way.  The invariant is
`TypeOK /\ SemaphoreBacked /\ NoDoubleFree /\ OwnedOnce /\ NoLeak`.
SemaphoreBacked says that the semaphore, plus the tasks between the two halves of a get or
of a release, equals the length of the list: a step moves one task into or out of that group
(`UnderwayMoves`), while the list changes by one at its head or end (`TailRemovesHead`, `AppendAdds`).
The saturation of the semaphore never bites, since a list without repetition is no
longer than the number of buffers (`DistinctBounded`), which needs NoDoubleFree; and
that needs OwnedOnce: what a task releases it owns, and what is owned is not in the list.

**Ring.**  That no slot is shared says nothing about the next step unless the counters are known to be exact.
The invariant numbers the items: item k + 1 of all ever published goes to slot k modulo Size, and
the counters are the numbers `Published` and `Taken` modulo 2^w (`Counters`).  The copies under way lie in one window of
Size positions (`ProducerHasRoom`, `ConsumerHasItems`), in which no two positions share a slot (`WindowDistinct`).
What the slots hold (`SlotsHold`, `SegmentCopied`) is kept because each side writes only outside
the other's part of the window.  The refinement maps the queue to the published, untaken items: a copy is a
stutter, the store of an index is the step.

**UART.**  The rings appear in the invariant only as the sequences they hold; what an insertion and a pop do to
these is proved first, across the end of the array and the wrap of the counters (`InsertMultAppends`, `PopTakes`); the lemmas on
the modulo operator are those of the ring.  InOrder alone is not
inductive because the transmit ring has two consumers: the invariant adds that the writer pops only while the handler is
masked (`OneConsumer`), that what it has copied out is still the first of the ring when it pops (`InHand`), and
which bytes a batch has left (`BufferNext`).  NoStrandedBytes then is inductive with them.

**Ethernet.**  OneOwner is not inductive: neither the sender nor vClearTXBuffers looks whether the descriptor it is
about to fill or to empty is free.  `TxOrder` says why they need not: the descriptors in use lie in a row from
ulTxDescriptorToClear to the MAC's produce index, and there are as many as the semaphore lacks (TxCredits).
The bounds that the loop of vClearTXBuffers read at different moments still agree (`ClearBounds`), since the IP task
runs only while the EMAC task is blocked.  NoRxStall and NoTxStall are close to inductive: they name, for each
place the tasks can be in, the event or step that is still to come.  In `Init` any buffers of the pool are
in the receive descriptors.

**SD card.**  A block is written at its place if card and driver agree on what an address is (`SameAddresses`).  That breaks
whenever the card is changed, and holds again when the number of sectors is known (`SectorsOfThisCard`): the new card
refuses commands until disk_initialize has been through.

**USB serial.**  The invariant is `Types /\ Control /\ TxInv /\ RxInv`.  `Control` says which places usbisr can be at in each
context.  To the host, the bytes form one stream through the packets in the controller, the thread's usbisr
and `txbuf`; TxExact says which, and it is kept because what the thread's handler has taken out of `txbuf` byte by
byte is still the front of that stream (`InHand`), because a packet is written only to a controller with room
(`RoomInController`), and because a credit or an event is always left to send the next with (`Credit`).  That an event has
raised its interrupt is an invariant of its own (`Raised`).
`WriterHasRoom` keeps `queue` from pushing bytes out.  From the host, bytes are numbered as they come (`Arriving`), and what
is in `rxbuf` ascends between the last byte out and the last taken from the controller (`Order`): a weaker statement than equality,
since bytes are erased and lines thrown away, but enough for the reader.  `ReadIndex` ties the three accesses
of a dequeue together, `OutOff` says for every place of reader and handler how much room there is while
the handler is off.  What queue, pop, flush and dequeue do to the bytes are lemmas about cells of the array, counted
from the read index (`BehindKeeps`).  The packet handler is a recursive function over the bytes of a packet (`Packed`);
that it keeps order, lines and room is shown by well-founded induction over the set of the packet's prefixes.

**Kernel.**  NoLostWakeup is about a task asleep next to what it waits for.  A wake-up may be on its way in several
forms, and only their number excludes that it is one too few.  `WInv == Types /\ Control /\ LockedBy /\ Sides`:
- `Types`, `Control`: the scheduler's record, and what each place in a call says of it: a task in an event list is blocked
  or about to be resumed, is in no second list, and is in the list of the object it called;
- `LockedBy`: the locks of a queue belong to the one task that has suspended the scheduler;
- `Sides`: each object has two, receivers waiting for an item and senders for room.  On a side with waiters, there
  are at most as many items as awake tasks that *will look* at the object again, plus the wake-ups
  counted while the queue is locked.  A task *about* to sleep has seen nothing that the lock has not counted.
The actions are not told apart by what they do to the side: each is one of a few moves of it (an item comes or goes,
a looker comes, goes or turns to sleep, a wake-up is counted or carried out), proved once, and the module's length is the work of
showing which move an action is.  Finiteness of tasks and objects is used for the counting only.

WaitsExactly and NeverEarly need, beside `WInv`, that four clocks agree (`TInv`): the ticks a task has waited, which no variable
of the code counts; what `xTicksToWait` and `xTimeOut` in its call say (`CallTime`, `ClockTime`); the list it is in with its
wake time and `xNextTaskUnblockTime` (`ListTime`); and the tick count with the ticks held back.  With `ToGo`, the ticks of
the call less those waited, plus those held back, a task in the delayed list wakes at `tick + ToGo`, one in the overflow list at
`tick + ToGo - TickMod`, and `ToGo` is between 1 and `TickMod - 1`; a time-out that is not over has not seen the tick
count come round to where it began.  Three kinds of steps remain.  In most no time passes (`Instant`), and the
only tasks that leave a list are called by an item, room or a notification (`Called`).  A task goes to a list with what is left of its
time (`AddToDelayedTime`), which xTaskCheckForTimeOut has just brought up to date.  And time passes, by one tick or by
all those held back (`TickTime`, `PendedTime`, `TimePasses`): then `ToGo` shrinks by as much as the tick count moves on, the lists
swap where it wraps, and who has nothing to go is readied.

The refinement of `BlockingObjects` reads the abstract state off the kernel's: the items, the owners, the request of each task that
is in a call and has not been served, and the ticks it has waited.  A step is seen from outside in one of four ways.  The first
critical section of a call that finds what it wants grants it, and so does an interrupt handler; a call that
returns empty-handed, from the first look, after an expiry or from a delay, refuses, and `TInv` shows that the ticks have
passed (`Refused`); a tick is a tick for all who wait; and all else, the locks, the lists, priorities and switches, is a stutter
(`Unseen`).  Each action is shown to be one of these (`SendGrants`, `CallAsks`, `ReturnIsDone` and their like), and `NextIsSeen` puts
them together.

RunsHighest needs more than itself (`RInv`).  The switch picks its task by the bits, so the bits must cover the ready
priorities (`Covered`).  A switch that is due is either pended or, while the scheduler is suspended, remembered in
`xYieldPending` (`Settled`): what is readied meanwhile waits in the pending list, and xTaskResumeAll looks at each of
its tasks and at each tick held back before it lets go of the suspension.  For the steps that change a priority the proof must
know that a task never waits for a mutex it holds (`HeldByOthers`), which `configASSERT( pxTCB != pxCurrentTCB )` at tasks.c:4002
also relies on: only then does a time-out not lower the running task.  That no call asks a holder for its own mutex is
a condition on the callers (`MayCall`); that it stays so while the call waits comes from the refinement, as the only
step that makes a task an owner is the grant of its own request (`HeldStays`).

ReadyBitsExact and Inheritance are proved for tasks that use one mutex each (`OneMutexEach`), from `MInv == Exclusive /\ Lean(k) /\
Lending`.  Nothing in the code says for which waiter a holder was raised, so the proof says it for each mutex (`Group`).
Its waiters stand in the order of their own priorities (`Falling`), for they hold nothing and so inherit nothing;
it follows that the head of the list is the priority a time-out leaves to the holder.  While somebody holds the mutex, he runs at least
at the priority of each waiter and of the task that is about to become one (`Known`), and where he is raised, some task
that has lent its priority is still in its take (`Backs`): in the list, or awake, so that it will lower him when it gives up.
While nobody holds it, some awake task is about to look at it that is no lower than any waiter (`Looks`): the new holder
may owe his mutex to a race with the one that was woken, and must not find a higher task asleep that never lent him anything.
This is where the switch that giving back may drop (queue.c:778) matters.  The giver may run on and take the mutex
again before the waiter it woke; nobody is left behind, as the switch is dropped only when no waiter is above the giver (`DroppedSwitch`,
`Missed`).  The bits stay exact because a holder that a time-out lowers leaves a list that is not empty:
the waiter that raised him and gives up is in it (`BackedAwake`).  Inheriting and giving back reset the
bit of the list that is left, whatever else is ready.
The steps are told apart by what they do to mutexes.  Most leave them alone (`Harmless`), the receive and the send of a mutex, the
going to sleep for one and the giving up do not, and each of them has a lemma of its own.

Induction over numbers is done with well-founded sets (`NatLessThanWellFounded`, `WFMin`), as the library's rules take an
operator as parameter.

### Model-checked only

- Liveness (`TxDrains`, `WriteReturns`, `Ends`, `TakeSucceeds`, `Delivered`, `Closes`, `Returns`): TLAPS has no support
  for ENABLED and so for fairness.
- `Kernel`: ReadyBitsExact and Inheritance for tasks that use several mutexes.  They are not true in general: with nested
  mutexes and a wait that times out, vTaskPriorityDisinheritAfterTimeout resets the bit of the
  new priority when it has emptied the list of the old one (tasks.c:4035), and a task that still holds one mutex keeps
  what it inherited through the other.  The half of ReadyBitsExact that is true in general, that the bit of every ready
  task's priority is set (`Covered`), is part of `RInv`.
- `TcpConnection`: InOrder and AckedIsThere, under the conditions they name, are only model-checked.
- `UsbControl`: no proof yet.

## Where the code does not do what it says

Two have a run that exhibits them.

- **queue.c:1475** (`kernel_assert`).  xQueueSemaphoreTake asserts that no inheritance has
  occurred when it finds the semaphore empty with no time left, since "an adjusted timeout cannot become
  0" (queue.c:1470).  tasks.c:3159 sets it to 0 on expiry.  If the mutex is given back before the call's
  last look (queue.c:1545), the call goes round again, and if a higher task takes the mutex first,
  the assertion fails and stops the machine.
- **FreeRTOS_TCP_IP.c:2754** (`tcp_fin`).  A FIN that comes while our segment is under way is
  refused (2482).  The acknowledgement of that segment then raises `ulHighestSequenceNumber` past
  the FIN, xTCPWindowRxEmpty is false from then on, and the FIN is refused each
  time it is sent again, although all data has come.

Part of the models, and why some properties carry a condition:

- **NI:422.** vClearTXBuffers counts by the semaphore and never looks at the MAC's
  consume index: a buffer returns to the pool while its frame waits to be sent.  The
  comment at NI:502 says that the descriptor owns it "until it has been sent".
- **NI:1099.** `ulISREvents &= ~…` outside a critical section loses an event set in
  between.  If it is the last transmit event with all credits used, transmission ends.
- **NI:425, 522–530.** If the EMAC task runs between the update of the MAC's index and
  of ulNextFreeTxDescriptor, the sent buffer stays in its descriptor until
  the next transmission.
- **HardwareSerial.cpp:153.** flush is to "wait for the ring buffer to empty" and waits for
  it to be full, which only its own caller could make it.
- **USBSerial.cpp:62.** `ensure_tx_space` runs the handlers marked "Called in ISR
  context" in a thread; a packet read there leaves the USB interrupt disabled
  (UHAL:352, 424), and bytes left in `txbuf` wait for a writer that polls.  **UHAL:977.** EP_SLOW is cleared after an event
  that has not been served; on a bulk endpoint no NAK makes up for it (UHAL:570).  TxNotStranded leaves out both (`lost`).
- **USBSerial.cpp:70 and 185.** Between the test for room and the use of it, the interrupt can run the same handler inside
  the thread's own usbisr and take the room: `queue` then pushes out the oldest byte (CircBuffer.h:60).
- **CircBuffer.h:91–98.** When the handler empties `rxbuf` under a running dequeue and then fills it again, the reader stores
  an index from before.  That skips bytes, and with them the one fill level at which `_getc` turns the OUT handler on
  again (USBSerial.cpp:84): it stays off next to a buffer with room, and once that is empty nothing is received any more.
- **USBDevice.cpp:294.** EP0in takes any event of the IN endpoint for one of its own transfer.  One left by
  the transfer before, or a NAK (UHAL:570), makes it stall a write that waits for its data: a
  valid SET_LINE_CODING is refused (`misled`).  **UHAL:418.** The result of the clear command is not looked
  at: if the next SETUP packet has come on top of the data of a stalled write, it is stored as line coding (`OVERRUN`), and
  its last byte behind it.
- **queue.c:778–793.** Giving back a mutex may lower the giver's priority, for which
  xTaskPriorityDisinherit asks for a switch.  If a task of no higher priority waits, only that task is asked
  about: the request is dropped, and a ready task of a priority in between waits for the next switch.
- **tasks.c:3986–4040.** When a wait for a mutex times out, its holder is given the highest priority of those who
  still wait.  That may be more than it has: with two mutexes, the first waiter may itself have inherited a
  priority after it began to wait, which the code does not pass on.  The holder is then raised above the running task
  and, if it is ready, waits for the next switch, as no yield is asked for.
- **FreeRTOS_TCP_IP.c:1791.** A FIN of ours is sent once; on the last segment of a socket that closes after
  sending (1772), it keeps a lost segment from being sent again.  **1991.** After our FIN the peer's is
  accepted whatever is missing before it.  **2352.** In SYN_RECEIVED a bare ACK moves the expected
  number to its own.  A SYN sent twice is answered twice; if the peer's ACK of the second answer, which follows its first
  data, overtakes that data and the ACK before it, the data is dropped as old and acknowledged.
- **FreeRTOS_TCP_WIN.c:1919.** Acknowledgements are compared unsigned, all else by signed difference:
  where our sequence numbers wrap, an old acknowledgement releases data the peer has not got.
- **SDCard.cpp:284.** After a failed CMD58 `ocr` is read uninitialised.  :339 and 361, a failure
  leaves `busyflag` set and later calls report success without doing anything until the next
  disk_initialize; :343, the result of `_write` is ignored; :521 and 563, waits without end.  In the model a
  call hangs in both, and Returns exempts exactly them, after a swap or a failure of the card.

Seen while modelling:

- tasks.c:4035, the ready bit of the new priority is reset where the list of the old one was emptied.
  ReadyBitsExact holds where each task uses one mutex: the waiter that gives up is itself ready, in the list
  the holder leaves (`BackedAwake`).
- FreeRTOS_Sockets.c:2708, a bit-field of the socket is set by the owner while the IP task
  changes its neighbours; :1146, a close event for which the queue is full is lost;
  FreeRTOS_TCP_IP.c:2327, a child that meets unexpected flags before it is established has no
  owner and keeps its place in the backlog.
- HardwareSerial.cpp:84, peek answers the wrong way round; :70, read sets one byte of an `int`.
- BufferAllocation_1.c:266, the low-water mark is compared and stored outside the critical
  section.
- USBSerial.cpp:97 and 246, `nl_in_rx` loses an update; :90, `flush_to_nl` shares a byte
  with `attached`, which the interrupt writes.
- UHAL:969, USBEpIntEn is changed by a load and a store; UHAL:409 and 626, one
  packet read costs two credits.
- USBDevice.cpp:183, the result of assembleConfigDescriptor is not looked at, and
  findDescriptorIndex (803) finds a configuration whatever the index: a request for an unknown one is
  answered with what is left in the buffer.  The host of the model asks for the one there is.  USB.cpp:148, a SET_INTERFACE is refused even if it was carried out.
- USBDevice.cpp:442, SET_FEATURE converts the endpoint twice, CLEAR_FEATURE (476) once.
- SharedSpi.cpp:174, no clocks are sent after deselect.
- SharedSpi.cpp:140, one global for two buses.
- WireBase.cpp:64 and 83, an overflow is never cleared, and requestFrom writes at the
  read index.
- exti.cpp:295, the loop over port 2 clears bits of port 0's variable.

## Not modelled, and why

- Wire, external interrupts, the listening socket and its backlog: planned, see
  above.
- Of the kernel: creation and deletion of tasks, vTaskSuspend, vTaskPrioritySet, vTaskDelayUntil,
  xTaskNotifyWait, recursive mutexes, queue sets, event groups and software timers.  The drivers
  of this repository do not need them while they run.
- Of FreeRTOS+TCP: active connects, UDP, ARP, DHCP, DNS, ICMP and the IP task's event queue; sliding
  windows, which this build leaves out.
- Of the SD card: the capacity arithmetic of `_sd_sectors` and of sd_mmc_wrapper, and a second task on
  the same SPI bus, which the source excludes by a comment.
- PHY negotiation and multicast hashing of the Ethernet driver; baud rate and pin set-up of the
  UART: register arithmetic.
- SET_FEATURE and CLEAR_FEATURE, which act on the bulk endpoints, and what a reset or a new
  configuration does to bytes under way in them; suspend, which has no effect in the code; `puts`, which asks for the handler
  at another moment than `_putc` and otherwise repeats it.
- Analog, PWM, digital I/O, pin tables, start-up, C library glue: no protocol between
  actors.  DFU: an endless loop until reset.
- Stream and Print: formatting over read and write.
- Other ports of the kernel, other network ports, buffer schemes and protocols: not built for
  this target.

## Commands

    tlc -workers 2 -config MCUsbSerial.cfg MCUsbSerial
    tlapm NetworkBuffersProofs.tla          # KernelProofs, KernelPriorityProofs, UsbSerialProofs: a few minutes

`MCKernel` and `MCTcp` have several configurations, named after their runs: `MCKernelMutex`, `MCKernelQueue`,
`MCKernelAssert`; `MCTcp`, `MCTcpFin`.  The two that exhibit a violation end with a counterexample.
