# CCore: TLA+ models and proofs

CCore is a C++ library: a task library with locks and semaphores, packets with
complete and cancel functions, packet devices, and PTP, a transaction protocol
over unreliable packets, with services built on it and a secure layer below it.
This directory models the parts of it that run concurrently or talk over a
network, checks them with TLC on small instances, and proves what matters most
about them with TLAPS for every value of the constants. Paths below are relative
to `src/`; `HCore/…`, `Fundamental/…` and `Applied/…` stand for `HCore/CCore/…`
and so on.

## 1. The system

| component | state | operations | who calls whom |
|---|---|---|---|
| FastMutex, Mutex (`HCore/inc/task`, `HCore/src/task`) | `entry` (atomic), a SlowSem, in Mutex also `task_id` and `reentry` | `lock`, `unlock` | everything below |
| Sem, Event, MultiSem, MultiEvent | a count or flag (or one for each index) and a count of sleepers under a FastMutex, a SlowSem | `take`/`wait` with and without timeout, `try_…`, `give`/`trigger` | tasks, devices; MultiSem and MultiEvent are over Sem |
| AntiSem, ResSem | a counter and counts of sleepers, one or two SlowSems | `add`/`sub`/`wait`; `take`/`give`/`wait` | AttachmentHost, PacketSet |
| AttachmentHost (`Fundamental/inc`) | `obj`, `enable` under a Mutex; an AntiSem | `attach`, `detach`, `Hook` | every device that calls an attached object |
| JobMachine (`Applied/src/JobMachine.cpp`) | two lists of jobs under a Mutex, a Sem, a stop flag | `add`, `addPri`, `work`, `stop` | clients above, worker tasks inside |
| PacketHeader, PacketList (`Applied/inc/Packet.h`) | buffer, stacks of complete functions and extensions, `cancel_state` (atomic) | `complete`, `setCancelFunction`, `clearCancelFunction`, `getCancelFunction`, `recycle` | passed from hand to hand by every device |
| PacketSet, CancelPacketList, PacketPool | the packets that are out, external lists, ResSem, AntiSem; a queue of packets that may be cancelled | `get`, `enlist`, `cancel`, `wait`, destructor; `put`, `get`, `cancel` | clients of services; services |
| AsyncUDPDevice (`HCore/inc/net`) | `out_list`, the packet the system has, the inbound packets and their count, stop and run flags | `outbound` (`put`), its cancel function, `push_out`, `push_in`, `complete`, `stop` | one task of its own, an asynchronous wait on the socket |
| AsyncFileDevice (`HCore/src/AsyncFileDevice.cpp`) | slots in an available and an active list, packets that wait for a slot, handles and events of the slots | read and write requests, their cancellation, `Completor` | users of files; a Completor task that waits for all slots at once (`SysWait`) |
| PTP ClientEngine (`Applied/src/net/PTPClientDevice.cpp`) | slots, `pending_list`, the packets of the transactions | `start`, cancel function, `inbound`, `tick`, connection events | endpoint below, packets of users above |
| PTP ServerEngine (`Applied/src/net/PTPServerDevice.cpp`) | slots, `active_tree`, an AttachmentHost of the ServerProc | `inbound`, `tick`, `send_info`, `send_cancel`, connection events, `attach`, `detach` | endpoint below, ServerProc above |
| PTP console (`Applied/src/net/PTPConDevice.cpp`, `tools/PTPServerProc`) | client: a list of texts, `packet_count`, `write_number`; server: a ring of frames, key buffer, the read it holds | open, read, write, close | the PTP engines below, a user and a screen above |
| PSec (`Applied/src/net/PSecCore.cpp`) | keys with serials, states and lives; the window against repeated packets | inbound and outbound packets, `tick`, packets `Alert`, `Ready`, `Ack`, `Stop` of a session | between PTP or another user and the network |
| PKE (`Applied/src/net/PKE.cpp`) | client and server negotiants, a `Proc` for each point, timers | packets of the handshake, `tick` | makes the first key of PSec |
| NanoIPDevice (`Applied/src/net/NanoIPDevice.cpp`) | `TxPrepareList`, `ARPTable`, `ARPending`, the ring `TxSendList`; `IPTickList`, a circular list with a `guard` | `send`, cancel functions, `prepareOutbound`, `outbound`, `tick`, `arp_done`, `start`, `stop`; `attach`, `detach` of tick endpoints | users above, the Ethernet device below, whose task makes the calls of EthProc |
| packet endpoints, NetFork, bridges, echo devices, other PTP services | queues, procs | `inbound`, `tick`, `outbound` | around the engines |
| basic library, algorithms, video and desktop, targets, tools | sequential | | |

Everything that runs in more than one task is guarded by a `Mutex` or a
`FastMutex`; what is done while it is held is one step for the others. What is
hard about the code is what happens between such sections:

- tokens of a SlowSem are given **after** the unlock, so a counter and the
  semaphore under it disagree for a while, and a timeout may run out just then;
- `Mutex::lock()` reads `task_id` and `unlock()` reads `reentry` with no
  protection at all;
- a packet may be cancelled at any time, by its owner, while a service, an
  engine, a device or another canceller is about to complete it;
- `detach()`, `stop()`, `finish()` and destructors wait for other tasks and then
  destroy what those tasks were using;
- the operating system reports the end of an operation on a socket or file late,
  or after somebody has given it up;
- PTP packets are lost, repeated and reordered; a ServerProc may answer long
  after its slot serves another transaction; slots are used again and again;
- a service over PTP hears of its requests at most once, perhaps late, and the
  answer may be lost;
- two ends of a secure connection change keys with packets of that same network.

What makes each component correct, and so what is checked:

- locks: one task inside, the right to enter neither lost nor doubled, every
  sleeper served, the unprotected reads always right;
- semaphores: no unit, flag or token lost or left over, whatever times out;
- AttachmentHost: no hook on an object that is detached; `detach()` returns;
- JobMachine: no job without its unit, no worker that leaves early, `stop()`
  returns with nothing left;
- PacketSet: every packet is completed by exactly one of the service and the
  cancellers; the destructor ends, and ends with nothing in use;
- devices: each packet in one place and completed once, the counters right up to
  the destruction, no packet left waiting, stopping ends;
- PTP client: each started transaction is given back, once, and its result
  does not change; PTP server: one slot for a transaction, answers go to the
  call they are for, no client reaches the slots of another, no slot is stuck;
  both together: a remote call that is executed at most once while the client
  waits for it and the server has not forsaken it;
- IP device: each packet sent or completed once, in the order of its host, none on
  a list that nobody looks at, no host forgotten before it was asked; each
  endpoint called once in a round of ticks;
- console: one write on its way, no text lost whose write was answered Ok, texts
  in their order, every write and read ends;
- PSec and PKE: both ends have the key that either uses, a retired key is not
  used, no packet is taken twice, every handshake and exchange ends.

`PROJECT.json` lists the hazards behind these properties at their lines.

## 2. The modules

| module | models | state and actions against the code |
|---|---|---|
| `TaskCount`, `Tasks` | | counting the tasks at one place of a function; the task ids |
| `LockSpec` | abstract lock | an owner and a depth |
| `FastMutex` | `FastMutex` | `entry`, `sem` as in the code, `pc` for the place in the two functions; one action per atomic operation or SlowSem call |
| `Mutex` | `Mutex` | the same with `task_id` and `reentry`; each unprotected access is an action |
| `CountSpec` | abstract counting semaphore | a number of units |
| `Sem`, `Event` | `Sem`, `Event` | `begin_…`, `end_…` (the sections under the FastMutex) and the SlowSem calls are the actions; pc "late" is a call whose timeout has run out and which has still to look at the count |
| `MultiSem`, `MultiEvent` | `MultiSemBase`, `MultiEventBase` | `putIndex`, `getIndex` and the calls of the inner Sem, taken as `CountSpec` |
| `AntiSem`, `ResSem` | the two classes | `begin_…`, `end_…`, and a step of its own for tokens given after the unlock (`gives`) |
| `AttachmentHost` | `AttachmentHost<T>` | composes `AntiSem`: a Hook adds, its destructor subtracts, `detach()` waits |
| `JobMachine` | `JobMachine` | the two lists as sequences, the Sem as units; adding a job, giving its unit, taking a unit and getting a job are steps of different sections, as in the code |
| `PacketSet` | `PacketSet`, `CancelPacketList`, `cancel_state` | composes `ResSem` (its own packets) and `AntiSem` (those it enlists); one section under a Mutex is one action, but for the loop of `buildCancel()`, which goes packet by packet |
| `AsyncUDPDevice` | `AsyncUDPDevice<T>` | each section under the device's Mutex is an action; the system ends a started operation when it likes; `calling` is a cancel function on its way |
| `SysWait` | the wait list of `WaitBase` in the target layer | add, delete and the swap that a wake-up makes |
| `AsyncFileProcessor` | `AsyncFileProcessor`, `AsyncFileDevice::Engine`, `Completor` | composes `SysWait`; `pc` and `at` for the place of each thread in alloc, start, free and the Completor's loop |
| `NanoIP` | the outbound part of `NanoIPDevice` | `list` is each PacketList of the four, `ext` the list a packet's canceller finds it on; the calls of EthProc come one after the other and are an action each, up to the next look at a canceller; the two tables and the ring with their indexes as in the code |
| `IPTickList` | `IPTickList`, `IPTickEndpoint` | the circular list as a sequence from its top, so that rotating it moves the first to the end; one action for each section of its Mutex, and the call between two |
| `PTPServer` | `ServerEngine` | `slot` is `slots[]`, `calls` every call ever given to the ServerProc, which may answer any of them at any time and repeatedly; one action per handler |
| `PTPClient` | `ClientEngine` | `trans` are the packets with their `TransExt` and `cancel_state`, `cslot` is `slots[]`; `Cancel` is `getCancelFunction()`, `Abort` the cancel function, which may come any time later; `Pump` is the end of most handlers and belongs to their actions |
| `PTP` | both engines and a network | composes the two: a packet once sent may be delivered at any time, in any order, any number of times or never |
| `RemoteCall` | what PTP promises | outcomes, executions, requests that the server has forsaken |
| `PTPTimer` | `setTick()`, `tick()` of both slots | the times that the engines' modules leave to chance, with the code's constants |
| `PTPConWrite` | `PTPConWrite` of the console server | the ring of frames as functions on a record, one action for each call from `PTPConProc`; `last` and `skipped` remember what was printed or given up |
| `PTPCon` | `PTPConDevice::ClientDevice`, its `OpenClose`, `PTPConProc` | composes `PTPConWrite`; `calls` are the transactions that may still be executed, at most once; the steps of `push_write` by every task that runs it |
| `PTPConRead` | `PTPConRead` | key buffer, the read it holds with its packet's canceller, the lists of answers that two tasks still have to send after the unlock |
| `PSecKeys` | `KeySet` of `PSecCore` | both ends, their keys as base and next with serial and state, and the packets of the exchange in a network that loses, repeats and delays |
| `AntiReplay` | `AntiReplay` | base and bits of the window as in the code, in units of `UnitBits` bits |
| `PKE` | `ClientNegotiant`, `ServerNegotiant` | every step of both, timers, error packets, the repetition of the last packet |
| `MC…` | | the instance TLC checks, and its `.cfg` |
| `TaskCount_proofs`, `TaskObjects_proofs`, `PacketSet_proofs`, `Devices_proofs`, `PTPServer_proofs`, `PTPClient_proofs`, `PTP_proofs`, `PSec_proofs` | | theorems, section 5 |

Operators between "What could be wrong in the code" and "What the code does"
are variations of one action, used to see that a property fails when the code
has the bug they describe. They are part of no specification.

Notes on what stands for what:

- **PTP engines.** Two handlers' packets can leave in another order than their
  handlers ran, for the engines send after they unlock. `PTP` covers it: nothing
  is ordered there. `PTPServer` keeps the fields of a freed slot, as the code
  does; in particular `ServerEngine::find()` compares the key, the slot number
  and the active flag, and `send_info_locked()` and `send_cancel_locked()`
  compare the index.
- **PKE.** A random number is the next of a count of draws. A packet that is
  encrypted can be read only with the key it was made with. How long a timer
  runs is left to chance; each retry is a tick, and the client's last one waits
  for a single tick, as in the code. Error packets are sent once. One point is
  modelled, the rest of a full map is the action `Refuse`. The choice of
  algorithms, the ids and `param.fit` are abstracted. After a nonce of
  another run has come late the two ends may hold different keys; both then wait
  until Timeout, and HandshakeKept says that nothing is opened by it.
- **UDP device.** After a restart `objRun` begins with `push_in` only, so packets
  left in `out_list` wait for the next `put`; the owner finishes only with an
  empty `out_list`. `get()` looks at `out_packet` before `stop_flag`, so `stop`
  waits for the write that is pending. A failed allocation is tried again only by
  `tick`. The cancellation of inbound packets is the duty of their users to
  complete them (fairness of `InComplete`).
- **File device.** Each slot in the active list has its unit of the semaphore
  and an empty list with a unit is the order to stop. Under a load without end
  an operation may starve: `active_list` is last in first out, and with three
  asynchronous waits the swap that `rollWait` makes leaves the middle one
  unserved. With two it does not happen, which is what the UDP device's strong
  fairness of its waits rests on.
- **IP device.** What is in one step: the loops of `get()` unlock between two
  packets, but what a canceller does there to another packet it may as well do
  before or after. Packets that the device makes for itself (requests and answers
  of ARP, echoes) are left out. A failed allocation of an entry of ARPTable is a
  choice of `ArpDone`, one of ARPending of `PrepareDrop`. A canceller calls into
  the device's list: that none does so after the device is destroyed, and that no
  tick function destroys its own endpoint, are rules for users. An entry of
  ARPTable that has no turn to be asked does not grow older, so entries that are
  due together live longer than LifeTime.
- **Console.** Between client and server the model has what PTP promises: a call
  is executed at most once, perhaps long after the client has given up, and its
  answer may be lost. A close that fails, or an open that comes late, leaves the
  console open until a new session; a session may come at any time from the
  client's point. Cancelling a listed packet is one step here; its parts are in
  `PacketSet`. The canceller of a read is a task of its own, where in the code it
  is the network's. A number exactly `2*BufLen` ahead may have `next_number`
  printed twice if it is repeated, so NeverBack lets a number be equal to the
  last. Numbers may not jump by half their range, hence `NumMod` and `MaxLead`.

## 3. The runs

Runs that exercise several parts that share nothing choose one of them in the
initial state; a behaviour stays in its part, so the states add up and do not
multiply. What such a run checks is the conjunction of the parts' properties,
under the name given first; section 2 says which part belongs to which module.

| run | what it checks | bounds |
|---|---|---|
| `mutex_and_ip` | Packets of NanoIP: PacketsKept (OneCompletes, ListsMatch, OrderKept, AskedWhenDue). WaitsEnd: each packet put is sent or completed, and LockGranted of a Mutex (Mutex) | 2 packets to 2 hosts without cancellers (Hosts), 3 packets to one host with cancellers (OneHost); a ring of 2 slots, entries that live 2 ticks and are due at the first, 1 tick of waiting for a host; 4 tasks, 3 levels |
| `task_objects` | A Mutex: MutualExclusion, OwnerIsInside, OneBaton; refines LockSpec (LockSpecOK). NothingLost: units, flags and tokens of Sem, Event, MultiSem and MultiEvent agree. CountSpecOK: Sem and Event refine CountSpec. NoneStarves: no index, flag or tick endpoint starves. DetachWaits: tokens of the AntiSem match, no hook outlives its object, no detach undoes another's attach. ListsAreServed: JobsHaveUnits, and each tick endpoint called once in a round. AllReturn: `take` with a timeout, `detach`, `JobMachine::stop` and the destructor of a tick endpoint return | Mutex 4 tasks, 3 levels; Sem and Event 4 tasks, 2 units a give, 3 units; MultiSem and MultiEvent 3 tasks, 3 indexes, 4 units; 3 tasks, 2 objects, 2 nested hooks, 4 in all; JobMachine 3 workers, 1 client, the owner, 2 jobs that may be added again; 3 tick endpoints |
| `packet_set` | CancelStateMatches, OneCompletes, SemMatches; DestroyReturns | 3 requests on 2 packets and 1 external packet, 3 of them in use at a time, an owner and a user who cancel |
| `async_devices` | PacketsMatch: each packet in one place, completed once. CountersMatch: counters right up to the destruction. ReadsMatch (Reader): the console's reader holds one read, and none waits for keys that are there. Served: what is given to a device is completed, and every read of the console ends. ReadsAgain: the UDP device starts to read again. StopsReturn | UDP: sends 2 packets (Out), reads 2 (In), one of each (Both). Files: 1 slot (Slots1), 2 slots and one of the users (User2), 2 slots without cancellers (Slots2), 3 slots, one user and no cancellers (Slots3); 3 requests, 2 users. Reader: 3 reads, a buffer of 2 keys, answers after 1 tick |
| `ptp_server` | UniqueKey, PendingWasCalled, AnswerIsOwn; DecisionIsFinal, PointsIsolated; DecidedIsFreed | 2 points with the same trans_id, 2 slots, 2 transactions a slot, 1 retry |
| `ptp_client` | TransMatch (Engine: slots and transactions name each other, a packet is completed by one). TextsKept (Console, Writer). ResultIsFinal (Engine). TextsInOrder (Writer). CallsEnd: every transaction and write ends | Engine: 3 transactions (one too long), 2 slots, 1 retry. Console: 3 writes, 2 tasks, 2 opens, 4 opens and writes in all, 1 frame. Writer: 3 frames, 32 numbers |
| `ptp` | ExecutedOnce; refines RemoteCall (RemoteCallOK) | 2 transactions, 2 server slots, 1 retry at each side, each server slot used up to 2 times. Of these behaviours those of one transaction that may use any slot once (OneTransaction), and of both through one slot, whose timer does not give up meanwhile (OneSlot) |
| `psec` | HandshakeKept (Handshake), PeerCanRead and NoRedInUse (Keys), WindowExact (Window); SessionsEnd (Handshake, Keys) | 2 clients one after the other, 3 first packets accepted, 2 retries, 2 packets for the key; 2 ends, 1 key index, 2 secrets drawn by an end; a window of 6 numbers in units of 2 bits, 32 numbers |
| `ptp_server_malformed` | PacketPutOnce, **violated** | as `ptp_server` |
| `ptp_timer_server` | SendsApart, **violated** | the code's own constants |
| `psec_ttl` | LifeEnds, **violated** | as part Keys of `psec` |
| `psec_refused` | NoAlgoMeansNone, **violated** | 1 client, 1 accepted draw, 1 retry, 1 packet for the key |

Most runs take seconds to a minute and a half; `psec`, `packet_set`, `ptp`,
`async_devices` and `mutex_and_ip` take two to three.

Why the bounds are enough for what could go wrong: in a lock or semaphore it
takes one task inside, one asleep, one whose timeout has run out or that is
about to give, and one that comes anew, so 4; deeper queues only repeat the
third. A reused slot takes two transactions (index 1 and 2), a wrong slot takes
two slots, a wrong client two points with the same `trans_id`. One retry has
both branches of `tick()`. `packet_set` has one more request than packets, so
that a task sleeps in `get()`, and two cancellers, so that they meet. A file
device with one slot has packets that wait, with two it has a slot that is freed
while another ends, with three the swap in `rollWait`. Of three
tick endpoints one marks the round, one is called and one leaves. A ring of two
slots has one that is filled, one that is given up, and wraps around. A console
with one frame is late as soon as two texts pass a third. The window has three units, so that
it shifts within one, by one and by all, and its numbers wrap around. Two keys
drawn anew bring a serial back to the index it had. What the bounds leave out,
the theorems of section 5 cover for the locks, the task objects, the packet sets,
the devices, the console, PTP and PSec: any number of tasks, units, packets, points,
slots, transactions, retries, reads, writes, frames and key indexes, any window,
and handshakes with any number of clients and parts of the key.

The specifications have no symmetry sets. `CHECK_DEADLOCK FALSE` is set where
the system may stop: `task_objects` (every task may sleep, waiting for a giver
that is not there), `async_devices` (all is completed and stopped), `ptp_client`
(all is given back), `psec`, `psec_ttl` and `psec_refused` (all is agreed or
given up) and `ptp_timer_server` (a slot that has given up).

Guards that only bound the state are named: `Nesting`, `LockNesting`; `MaxGive`, `MaxUnits`,
`MaxIndexUnits`; `MaxHooks`; `MaxBusy`; `MaxIndex`, `MaxRetries`; `MaxOpens`,
`MaxCalls`; `MaxLead`, `MaxLate`; `MaxInside` (tasks that are inside `complete` of the UDP device
at a time), `PutLimit`, `HeldLimit`; `MaxDraws`,
`MaxAccepts`, `MaxRuns`. Sizes that the code makes larger
are `MaxRetry`, `MaxCount`, `PushLimit`, `BufLen`, `Len_Fifo`, `NumMod`, `read_ticks`, `write_ticks`, `max_slots`,
`max_packets`, `KeySetLen`, `UnitBits`, `WinUnits`, `ForeLen`, and of NanoIP
`LifeTime`, `AlertTime`, `AlertPeriod`, `PendingLife`, `SendLife`.

### Fairness

The fairness of a part is about that part's actions; in the other parts it is
either conditioned on the part or holds trivially, nothing being begun there.

- Mutex: strong fairness of `sem.take()` in `lock()` (the operating system's
  semaphore serves those asleep on it), weak fairness of the steps of a task
  that is awake. Nobody has to leave the lock: LockGranted has it as an
  assumption of its own.
- IP device: its task runs, prepares what it was signalled for, ticks, and a
  canceller that has taken the cancel function calls it. No host has to answer
  and the Ethernet device has to fetch no packet. Tick list: the device ticks, a
  tick function returns, a destructor goes on when it may.
- Sem: the same; TimedReturns assumes that in the end no task begins to sleep
  anew. Otherwise its token may be taken each time by a newcomer, a case the
  code marks "unprobable".
- AttachmentHost: a hook lives as long as one call of the object.
- JobMachine: a worker that is awake goes on, and a job returns, however many it
  adds (strong fairness of `Finish`); nobody has to add a job.
- PacketSet: of the tasks and services that have packets one at least goes
  on, of the cancellers too, and the Mutex of the set is fair to `del` (what
  LockGranted says of Mutex). Services do **not** have to look into their
  queues: the destructor must end without.
- UDP device: its task runs, each of its waits is served (strong fairness, see
  section 2), a write that is started ends, users complete the packets they
  read, and who has called `put` or the owner's functions goes on. No read has to end, and
  `tick` is not needed for Served.
- File device: one of the tasks and of the operations that are started goes on
  (weak fairness of `Step`); no order among them is assumed.
- PTP engines: the device calls `tick()` InboundTicksPerSec times a second, and
  a canceller that has taken the cancel function calls it. No packet has to
  arrive, and no ServerProc to answer.
- Console: the tasks that push, complete, answer or cancel go on, each
  transaction of PTP ends (CallsEnd of the engine), the device's tick comes. No
  text has to arrive and no key to be pressed.
- PSec keys: time passes at both ends, and of the packets that an end is sent
  again and again some arrive (a network that loses everything lets no exchange
  end).
- PKE: client and server tick; no packet has to arrive. That every handshake
  ends holds for as many draws and runs as the bounds allow: a peer that begins
  anew for ever keeps the server busy for ever.

## 4. Findings

1. `Applied/src/net/PTPServerDevice.cpp:620`: for a RECALL with bytes after its
   end `inbound_locked` calls `bad_inbound` but does not return, as it does for
   all other types (lines 593-646). The packet is put in `complete_list` there
   and once more by `inbound_RECALL`; `PacketList::put` aborts on it ("Fatal
   error : packet is in list on put(...)", `Applied/src/Packet.cpp:353`). Run
   `ptp_server_malformed`. The other runs take RECALLs that parse to their end.
2. `Applied/src/net/PTPServerDevice.cpp:198`: `Slot::start` sets
   `timeout_msec=0`, so the first RERET may leave at the next tick after the
   answer, while the protocol description (`txt/cpp/PTP.txt.cpp:577-579`,
   `599-601`) starts this timer with MinTimeout. It is harmless: one RERET too
   many. Run `ptp_timer_server`.
3. `Applied/src/net/PSecCore.cpp:520`: `KeySet::tick` alerts when the base key
   grows old, in use or not. After an exchange the end that did not begin it
   keeps its old key as a Green base beside the active next one. The Alert that
   it sends for that key later is ignored by the other end, as it ignores the
   other's: both repeat their Alerts for ever and the key in use outlives its
   ttl and utl. (For the same reason an Alert or Ready that comes very late can
   have `make_key` overwrite the next key while it is active.) Run `psec_ttl`.
4. `Applied/src/net/PKE.cpp:1328`: `process_final` gives every packet to
   `process1`, the encrypted last packet that a client repeats among them. Its
   bytes are read as an id and a list of algorithms of three bytes each; about
   one length in three fits, none of the algorithms is known, and the server
   answers PKError_NoAlgo in clear and deletes the Proc with the Done packet it
   was to repeat. The client, whose algorithms were accepted and whose endpoint
   is open, ends in Timeout. Run `psec_refused`.

Besides, without a run, for nothing in the repository promises otherwise:
`tools/PTPServerProc/PTPConProc.cpp:246` drops a key that finds the buffer full
before looking at it, so after 1000 keys of which none triggers a read, no key
ever does, and reads come back empty until the console is opened again.
`PTPConRead` reaches that state and keeps it.

What the PTP protocol does **not** promise, though one might expect it: after
the server has freed a slot on its own (no retries left, connection events) or
the client has given up, a RECALL still in the network starts the request once
more. ExecutedOnce and RemoteCall say exactly which requests are exempt.

## 5. The proofs

All are of safety, for every value of the constants, from the assumptions named
in the modules. The bounds of the engines are natural numbers and their sets not
empty (ServerAssumption, ClientAssumption, NumberAssumption of PTP); a transaction
with no answer is told from one with (AnswerAssumption); the set's packets and
those it enlists are different ones and finitely many (PacketSetAssumption); and of
the task objects HostAssumption and ObjectsAssumption say that there are finitely
many tasks and objects, that `NoThread` is no task, that there are at least one
index and one level of a lock, and what the bounds are. The device has finitely
many slots, numbered from 0, and finitely many users, the Completor not one of
them, and "no packet", "no slot", "no read" are none (DevicesAssumption,
FilesAssumption, ReaderAssumption of `MCAsyncDevices`). The console has finitely
many writes and tasks, at least one frame, and at most a quarter of the numbers are
those of the frames, 128 of 2^32 in the code (ConsoleAssumption of `MCPTPClient`);
the numbers that come to the writer are less than half of all numbers ahead of it
or at most half behind (LeadAssumption): the client counts on by one, and
`operator()` can only tell by this half whether a number was passed. A connection has two ends
and at least one key index (KeysAssumption); the numbers of packets do not repeat
among the copies that may still come and what the window takes (WindowAssumption
of `MCPSec`: in the code 2^32 numbers, a window of 4096 and 1'000'000 past its end);
a session key has at least one part, and None is no packet, key or Proc
(HandshakeAssumption of `MCPSec`). TLC evaluates each of them.

**Locks.** The argument is the right to enter, a baton. With entry > 0 it is in
exactly one place: with the task inside, on its way from an `unlock()` to the
SlowSem (pc "give"), or a token in it. `TaskCount_proofs` states it once for a
function from tasks to places: what each kind of move does to the three counts
(BatonMoves, BatonStep), and that it excludes two tasks inside (BatonExcludes).
MutualExclusion is not inductive by itself: a token too many in `sem` is what
would break it, and the invariant has to say there is none. It also needs
`entry` to be the number of tasks that want the lock, so that `(entry--)!=1`
is right about sleepers. The same module has what a step of one task does to
a count of tasks and to a sum of units, which all proofs about semaphores use.
The theorems are in `TaskObjects_proofs`:

- FastMutex, by itself (FM, with the places `at` of its tasks): FastBatonKept,
  FastExclusive, FastImplementsLock.
- Mutex (MX): MutexTypeCorrect, MutexExclusive (MutualExclusion), OwnerIsKnown
  (OwnerIsInside: `task_id` is a task's id exactly when it is between setting
  and clearing it, which is why the unprotected test in `lock()` can neither
  let a stranger in nor make the owner wait for itself), MutexBatonKept (OneBaton),
  MutexImplementsFast (Mutex implements FastMutex), MutexImplementsLock (LockSpecOK). The
  owner part is inductive only together with MutualExclusion, since a second
  task inside would overwrite `task_id`.

**Task objects** (`TaskObjects_proofs`): ObjectsKeepTheirUnits (NothingLost),
ObjectsOutliveHooks (DetachWaits), ListsServed (ListsAreServed) and
SemaphoresImplemented (CountSpecOK). Each component has an invariant of its own,
a lemma `…Step` that its next-state relation keeps it, and a lemma `…Safe` of what
it says; one step of the whole is a step of one component (OneSteps).

- Sem and Event: tasks that sleep, in whatever wait, are as many as counted plus
  the tokens there and on their way. It also needs that only a task in `give`
  has tokens to give; the same lemmas show that each operation takes one unit,
  gives some, or changes nothing that CountSpec sees.
- MultiSem, MultiEvent: the indexes counted are the units in the inner Sem and
  with tasks between the two sections. A task that comes to `getIndex()` is one
  of these, so there is an index, and the round-robin loop stops at one that
  has it (FirstCounts, from the least of a set of natural numbers).
- AttachmentHost: the counter of the AntiSem is the number of hooks, all of the
  attached object; and what makes it inductive: only one owner is anywhere but
  "out", and one that sleeps without being counted any more has counter 0, so
  that its token is the last hook's and no other.
- JobMachine: units plus tasks that carry one (Carrying: they have taken it or
  have still to give it) are the jobs listed, plus one that `stop()` gave; until
  the owner knows all workers gone. Each kind of task has its own places.
- IPTickList: GuardIsAt. The guard is in the list, none before it was called in
  this round, and it and all behind it were, those excepted that have come
  meanwhile. `detach` of the guard moves it to the next, or clears it when nobody
  is behind it; then nobody has been called who is still there.

**PacketSet** (`PacketSet_proofs`): StatesRight (CancelStateMatches), OneCompleter
(OneCompletes), SemaphoresRight (SemMatches). The invariant is in three layers.
Data: where each packet is, on which list and in which `cancel_state`; it is
inductive without the semaphores. Then what ties a packet's place to the task
below that holds its unit (RequestsMatch, ExternalsMatch), with the counts and
tokens of ResSem and AntiSem for any `max_count` (UnitsInv, CountsInv). Last
ClosedInv, on which the destructor relies: after `closed` nobody gets a packet,
a token that wakes the owner means that nothing is out, and that remains so.

**Devices** (`Devices_proofs`): PacketsOfDevices (PacketsMatch), CountersOfDevices
(CountersMatch) and ReadsOfConsole (ReadsMatch), for any number of packets,
users, slots and reads. Each of the three machines keeps an invariant of its own;
they share nothing (DevInv).

- UDP device: each packet to send is in one of five places (PacketsOut), the list
  and the canceller's extension say the same (ListOut), and what the device has in
  its hands fits the place of its task (HandOut). `in_packet` and `use_count` count
  the packets read and the tasks in `complete`, until the owner is woken, and the
  task that wakes it is the last (CountersIn); without that the owner might
  destroy the semaphore that somebody has still to give.
- File processor: each packet is over, with a user, in a slot, in the list of those
  that wait, or with a canceller on its way (WorkIn, DelayIn); each slot in use is
  in the pool, in the active list, with the system or with one task (SlotsIn, TasksIn).
  The deep part is the semaphore that doubles as an event: its units and the
  tasks about to give one are the active slots and the order to stop (Units), so that
  `put_complete` never finds an empty list but for that order. The swap of
  `rollWait` keeps the list of waits without repetition and with its index (WaitListOK).
- Reader: the read that is started is the only one it holds, and is held in one
  place: its slot, one of the two lists of answers, or a canceller's hand (RInv). The
  sections of the reader are compositions of helpers, so these are shown to keep a
  predicate of records (Good), as is done for `pump()` of the client.

**PTP server** (`PTPServer_proofs`): TypeCorrect; KeysAreUnique; PendingIsCalled;
AnswersAreOwn; DecidedAreTimed; DecisionStays and PointsAreIsolated, the last
two as action properties. The inductive invariant adds to the checked ones that
calls are never of an index the slot has not reached, so that a call given to
the ServerProc identifies one transaction of one slot: this is what lets the
index comparison in `send_info_locked()` reject every late answer.
AnswersAreOfTheirCall says the same of what has left the server: it needs that
a slot that is ready was called (ReadyWasCalled), and a summary of the handlers,
Heard and Done, which PTP uses too.

**PTP client** (`PTPClient_proofs`): SlotsAndOwners (TransMatch) and ResultStays
(ResultIsFinal). Most handlers change some transactions and then call `pump()`,
so the invariant Good is a predicate of transactions, slots, list and cancellers
and not of the variables: `pump()` is shown once to keep it from any state that a
handler can leave. Queue says that the pending list has exactly the pending
transactions, once each; Owner who has to complete a packet, the engine or a
canceller that has taken its function and is on its way.

**Console** (`PTPClient_proofs`, whose module the console shares): TextsOfConsole
(TextsKept), for any number of writes, tasks and frames. Three arguments meet in it.

- One write on its way (OneOnTheWay): `packet_count` is the number of writes that
  are sent and not completed, plus the task that pushes, plus those that have
  counted a packet themselves (CountOK, Counted). A task pushes only from 0, and
  what makes this inductive: as long as it has not come to `start_format`, no
  other write is on its way, so the one that it sends is the only one. The list
  has each listed write once (ListOK), so a cancelled one is not sent.
- The ring of frames. `PTPConWrite` is instantiated twice, alone with WriterFrames
  and in the server with ConFrames; lemmas `Same…` show both to be the operators
  with B frames, and the rest is about any writer w with B frames (WriterSet). What
  operator() and tick() make of it, in each of their cases, Keeps what w has: a text
  that waits or is printed still waits or is printed, and a frame keeps the number
  that its place in the ring stands for (MatchIn), although `shift` turns the ring
  and numbers wrap around (ModAdd, ModApart, PlaceInRing). The case that a number
  is more than BufLen ahead needs that the numbers are at least 4 * BufLen: after
  the frames that are skipped for it, it must not look like one that was passed.
- What is printed follows what was printed last while the writer says that all is
  well (ShownInOrder): the row of frames that wait behind the text that came is
  as long as `next_number` moves on (ReachStops, NextInOrder). The order of the
  full frames is by NthOf; that it goes through a finite set of numbers is a
  matter of counting, without induction: how many are not above one is different for each
  (NthOfSet, by the library's facts about injections).

An answer "ok" comes only from a call executed while the console is open for the
connection of that write, hence the text is in its writer, or printed when the
console is closed (ServerOK, KeptOK); a write that has gone out never comes back
to the list (Forward), and the call of an old connection finds another id.

TextsOrdered (TextsInOrder, an action property) is about the writer by itself: what
it prints goes on from the text printed last, whatever comes late, again or ahead
and whatever it gives up. That no text goes back is not inductive, for what is
printed tomorrow waits in a frame today. The invariant (OrderOK, Fits) is that the
text printed last is g+1 numbers before `next_number`, and that each frame that
waits has one at or before it, counted from `next_number`, that is less than half
of the numbers past that text (Stands). While no frame waits g is at most 0, which
is what bounds the next text. Sound adds to it what was already printed in the
same call, for one call may skip, set and print; there is one lemma for each of
these operations (SkipSounds, SetSounds, AppendSounds, WriteSounds, PassSounds,
FarSounds, AgesSounds, TickedSounds), and PrintRises for the row of frames that
`next_number` moves over. When a number is exactly 2*BufLen ahead, `next_number`
comes to be the number of the last frame, which is printed just then if it waited:
therefore g may be -1, and the property allows a number to be equal to the last one.

**PTP** (`PTP_proofs`): RequestsExecuteOnce (ExecutedOnce), RemoteCallImplemented
(RemoteCallOK) and AcksMeanDone, for a network that loses, repeats, delays and
reorders. It joins the invariants of both engines (each taken by INSTANCE) by
what the packets on their way say: all that the client ever sent is still true
(AllSay), for a started transaction keeps its slot and one that is over stays
over; all that the server does is about started transactions (ServerKnows); and
a call whose client waits, and that was not forsaken, is still the one in its slot
(CallIsServed), because only an ACK or the server itself frees it and no ACK is
under way for a transaction that is not over. Hence no second execution.

**Secure packets** (`PSec_proofs`). Of the keys: KeysStayFresh (NoRedInUse), and
OneKeyInUse: each index has exactly one key in use, which has its entry in
`active_list`, so that encryption always finds one. What a session has come to
decides which keys there are (StepKeys); every control packet is taken in every
step and with any serial, so nothing has to be known of the network beyond types.
Of the window EachPacketOnce (WindowExact), from the lemmas that division by the
unit gives each bit one place (DivisionUnique), and what `set` and both loops of
`shift` do to each bit (TestSet, TestShifted). Its invariant says that base,
sender's number and `lead` agree but for a multiple of the numbers there are
(NumbersAgree), that the bit of each packet says whether it was taken, and
that the window ends at the newest one taken (BitsAgree, NoneAhead); then the
offset of a packet's number is its place, or beyond all that is taken (PlaceOf).
Of the handshake SessionsAgree (HandshakeKept), with as many clients, draws,
retries and parts of the key as there may be. All packets ever sent stay in the
network, so each of them must stay true: a client sends with one key only, the
one of the first nonce it got (ToServerSays), and Done is said of endpoints that
are open (ToClientSays). A draw opens one endpoint at most (OpenedOnce), for
until its last step the draw of the Proc is newer than all that are open
(ServerNow). That `process5` may drop the last packet of the handshake before
is the deep part: the ClientAck that it reads is of the newest draw, while the
clients before the present one have none that is newer than an endpoint of
the present one (OldClients), which itself has only one key; so the packet it
drops was for a client that is no more. Both session keys are of all parts from
MaxCount down to the count that is next, on both sides (Parts, PartsGrow).

Proved only, without a run that spends its time on it: types, that Mutex
implements FastMutex, and what leaves the server (AnswersSent, AckMeansDone).

Only model-checked:

- everything with fairness (WaitsEnd, NoneStarves, AllReturn, DestroyReturns,
  Served, ReadsAgain, StopsReturn, DecidedIsFreed, CallsEnd, SessionsEnd), since
  the prover has no ENABLED;
- PeerCanRead: it is true of the instance, and not in general. The 2 bits of a
  serial repeat after four sessions, so a Ready that is four sessions late would
  pass for a new one (with the bound of two secrets there are not that many).
- PacketsKept (NanoIP). `get()`, `tick()` and the ring of NanoIP are written with
  SelectSeq, FoldLeft and FlattenSeq of the community modules: what these compute
  for a list of any length takes an induction over it.

## 6. What is not modelled

- Contents, formatting and sizes of packets, statistics, logs; `recall_number`
  (it is only echoed); the packet sets that the engines draw their own packets
  from (a reply that finds none is a lost packet, and the network loses any).
- SlowSem and the target layer: a counter of tokens whose give and take are
  atomic, but for the wait list of `WaitBase`. So what is said of a destroyed
  semaphore ends where `sem.give()` begins. The atomic operations are
  sequentially consistent.
- The spin in front of `FastMutex::lock()`, which reads only.
- AntiSem with a timeout, and changes of its counter by more than 1; the timeouts
  of MultiSem and MultiEvent, which are those of the Sem inside them.
- JobPool and JobMachineInit, an AntiSem and a list around JobMachine.
- UDPDevice (two tasks that block), the multipoint classes of AsyncUDPDevice,
  which add formats; the class AsyncFile of the users, with positions and errors,
  and opening and closing of files; PacketPool, an allocator under a Mutex.
- The reads of the console client, the contents of texts, failed allocations and
  the text that the main task inserts after a console is closed.
- More than one key index, KeepAlive and the multipoint tables of PSec; ciphers
  and hashes.
- Destruction of the engines while packets are out.
- Of NanoIP: what comes in but the answers of hosts, headers and checksums, the
  lists of UDP and echo endpoints (attach, detach and a call under an AntiSem, as
  in IPTickList but without the round).
- Forks, bridges, echo devices; HFS, boot, support and echo services;
  the basic library, algorithms, desktop and tools. Most of the repository's
  lines are these: generated tables of primes and of grammars, containers,
  graphics and target code that compute in one task or call the system. The list
  with the reason for each is in `PROJECT.json`.

## 7. Plan

Done, in this order, the most important first: locks and their proofs; the PTP
server and its proofs; the client; PTP end to end against RemoteCall; the
timer; the semaphores; AttachmentHost over AntiSem; PacketSet over ResSem
and AntiSem; the key exchange, the handshake and the window of PSec; the
asynchronous UDP and file devices; JobMachine; the console over PTP; MultiEvent; the
outbound side of NanoIP and its list of tick endpoints.

Then the proofs: the client and PTP against RemoteCall; packet sets; the task
objects; the keys, the window and the handshake of PSec; the UDP and file
devices; the reader of the console, and its texts.

Left: PacketsKept for lists of any length. Should the models grow
further: the reads of the console client, several key indexes of PSec,
UDPDevice.
