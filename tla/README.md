# TLA+ models and proofs for Rikor-Aztec (OpenBMC)

This directory holds TLA+ specifications of the concurrent and persistent parts
of the BMC firmware in this repository, TLC configurations that check them on
small instances, and TLAPS proofs of their main safety properties for every
instance.  It is written to be kept next to the C code: every definition that
models code is mapped to its source lines in `PROJECT.json` ("map"), and a change
to those lines is a reason to look at the definition again.

Contents

1. The system
2. The modules, and how they correspond to the code
3. What the runs check, the bounds, and why they are enough
4. Where the code and its comments disagree
5. Fairness
6. What is proved, and how
7. What is only model-checked
8. What is not modelled, and why
9. Where to extend it
10. How to run it

## 1. The system

The firmware is a Linux image for a board management controller.  Its own logic
is a set of daemons and libraries in C under `src/common/recipes-core` and
`src/common/recipes-lib`, with a platform layer per board (`libpal`, under
`src/meta-*`).  The daemons talk to each other through Unix sockets (`libipc`),
through small files (`libkv`) and through the hardware.

    client programs (sensord, fw-util, *-util, ...)
        |  ipc_send_req (libipmb / libipmi)
        v
    libipc service thread  --- one handler thread per connection, at most
        |                      active_limit at a time
        +--> ipmbd (one process per IPMB bus): sequence table, bus mutex,
        |        |        receive thread, response thread, request thread
        |        v
        |     i2c bus <--> bridge IC <--> host
        |
        +--> ipmid: IPMI commands under one mutex per network function;
                 SEL (sel.c) -> /mnt/data/sel<n>.bin
                 watchdog timer threads -> power control (libpal)

    sensord, healthd, front-paneld ... -> libpal -> libkv (files + flock)

### Inventory

For each component: the state it keeps (S), its operations (O), the components
it interacts with (I), what is hard (H), and what makes it correct (C).

**ipmbd, requester side** (`recipes-core/ipmbd/files/ipmbd.c`).
S: `g_seq` (a table of `SEQ_NUM_MAX` sequence numbers, each with a pointer to the
buffer of its holder, a length and a semaphore), the bus mutex `m_i2c`, two
POSIX message queues, a 300-byte buffer on the stack of each handler.
O: `conn_handler`, `ipmb_handle`, `seq_get_new`, `i2c_write`, `seq_put`,
`ipmb_rx_handler`, `ipmb_res_handler`.
I: started by libipc for every connection; the bridge IC over the bus.
H: responses that are lost, late, doubled by retransmission, or cross each
other; a timeout that races the response; the response thread writes into the
stack of another thread; sequence numbers wrap.
C: one holder per number, no number leaks, no write to a buffer that was given
up, no lost wake-up, the answer a client gets is the one to its request, every
connection ends.

**ipmbd, request direction** (same file: `ipmb_rx_handler` with its repairs,
`ipmb_req_handler`; `recipes-lib/ipmi/files/ipmi.c`).
S: the queue of requests, one request and one response buffer with its length,
reused for ever, the bus mutex.
O: read a packet, repair and check it, post it; take a request from the queue,
ask ipmid, send the answer on the bus.
I: ipmid through libipmi; shares the bus with the requester side.
H: the bus driver damages or loses first bytes; `tbuf`/`tlen` keep their old
values when ipmid does not answer; the length of a copy is negative for a request
of six bytes, which the receive thread lets through, and for an answer of length 0.
C: what is posted is a packet that was sent; an answer is that of its request
unless ipmid could not be asked; the daemon dies only of an ipmid that closes the
connection or was never reached, or of a request without a command that the
bridge sent so; no request is stuck.

**libipc** (`recipes-lib/ipc/files/ipc.c`).
S: `num_active` against `active_limit`, a mutex and a condition variable, the
backlog of the listening socket, the retry counters of the service thread.
O: `ipc_start_svc`, `svc_thread`, `get_client`, `conn_handler`, `cli_done`,
`ipc_send_req`, `ipc_recv_req`, `ipc_send_resp`.
I: under ipmbd and ipmid.
H: a place is taken before `accept` and given back by another thread on several
paths; the timed wait races the signal; failures of accept, calloc,
pthread_create and send.
C: places are counted exactly, the limit is never passed, a free place is never
slept on, no connection is queued for ever, the service does not give up while
it could serve.

**ipmid, system event log** (`recipes-core/ipmid/files/sel.c`).
S: for each node a ring of 129 slots in memory (`g_sel_hdr`, `g_sel_data`), the
same ring in a file, a reservation id.
O: `sel_init`/`sel_node_init`, `sel_add_entry`, `sel_erase`, `sel_rsv_id`,
`sel_get_entry`, `sel_num_entries`.
I: called under `m_storage` by the storage commands and under `m_sensor` by the
platform event commands; `log-util` asks for it over IPMI.
H: the daemon may die between two stores; any file operation may fail; two
mutexes lead to the same ring; indexes wrap; record ids are slots.
C: log in memory and log in file are one bounded queue that loses only its
oldest entry, replaced as a whole; readers get every entry once, in order.

**ipmid, watchdog timer and dispatch** (`ipmid.c`).
S: per slot `run`, `valid`, `present_count_down`, `action`, under a mutex.
O: set, reset and get commands; a thread that counts down every 100 ms.
I: power control of the host.
H: the action is carried out after the mutex is released; power state changes
under the timer.
C: the timer runs out when the host asked for it and not after a reset that came in
time; what is then done is what was set; a hung host is acted upon, unless its
server was found off, a crash dump was going on, the power call failed or ipmid
died.

**libkv** (`recipes-lib/kv/files/kv.c`).
S: a file per key, in tmpfs or in flash.
O: `kv_set` (with `KV_FCREATE`, `KV_FPERSIST`), `kv_get`.
I: nearly every daemon and utility, as separate processes.
H: `flock` is advisory and taken after `open`; existence is tested before; the
value is truncated and then written; deaths.
C: readers see whole values; a set that succeeded is stored; a creation leaves
alone what is there; an empty key is about to be written; every call returns.

**rikbtnd and power.sh** (`meta-yosemite/recipes-yosemite/rikgpio-util/files/rikbtnd`,
`rikcgi/files/sh/power.sh`).
S: one FIFO for requests and answers, `power_state`.
O: a client writes a request, then reads the answer; the daemon pulses the power
button and answers; the front panel's button toggles `power_state`.
I: the web server runs power.sh; the host's power.
H: both sides open the FIFO in turn and block; either may read what it wrote;
a client is killed and the daemon's answer raises SIGPIPE; two threads toggle.
C: a client that is alone gets one pulse and the true answer, and neither side
is left waiting.

**libwatchdog** (`recipes-lib/watchdog/libwatchdog-0.2/watchdog.c`).
S: the device descriptor, the kick thread, its flags, under one mutex.
O: open, release, kick, start, stop, magic close.
I: healthd, `wdtcli`.
H: release drops the mutex to join the thread; the flags are one-bit signed
fields compared with 1; open and release may alternate.
C: while open with auto-kick exactly one thread kicks; after release none.  (No
program of the tree uses auto-kick.)

**sensord** (`recipes-core/sensor-mon/files/sensord.c`).
S: per sensor `curr_state` (raised thresholds), the health last reported.
O: raise and settle checks with rereads; the health round: read the store, scan,
wipe, write the store.
I: libpal for readings, libkv for health; `log-util` clears health.
H: `curr_state` is read, changed and written by two threads without a lock; a
reread fails half-way; the store is read and written apart.
C: thresholds are debounced and nested; what is raised follows the sensor in
the end; the health follows what is raised; a clear is heeded.

**healthd** (`recipes-core/healthd/files/healthd.c`): a dozen monitor threads
with one mutex around a list of errors; threshold crossings with hysteresis.
**mTerm** (`recipes-core/mTerm/files`): a select loop between a console and its
clients, and a log that is rotated.
**fscd** (`recipes-core/fscd3`): fan control loops in Python over floating-point
readings.
**fw-util, power-util, sensor-util, ...**: command-line programs that call the
libraries in sequence.
**FRU, SDR, sensor, GPIO, NVMe, NC-SI libraries**: parsers and register access.
**libpal and the board layers**: tables, GPIO sequences, addresses.
**asd, jbi, cpldupdate, ...**: hardware protocols, partly vendored.
**D-Bus prototypes, REST API**: object trees and stateless handlers.

All of them are listed in `PROJECT.json` with their status, and the hazards they
are exposed to with the line where each bites.  What the modelled part was chosen
by is where many actors share state whose correctness no unit test of the
repository reaches: the way of every request (libipc, ipmbd in both directions),
the state the operator relies on (SEL, key-value store, watchdog, sensor
thresholds and health), and the power switch of this board.

## 2. The modules, and how they correspond to the code

| module | models | for TLC | proofs |
|---|---|---|---|
| `Ipmbd` | requester side of ipmbd | `MCIpmbd` | `IpmbdProofs` |
| `IpmbdRequests` | request direction of ipmbd, packets and their repair, `lib_ipmi_handle` | `MCIpmbdRequests` | `IpmbdRequestsProofs` |
| `IpcService` | libipc | `MCIpcService` | `IpcServiceProofs` |
| `SelLog` | abstract: what a SEL promises | through `Sel` | through `SelProofs` |
| `Sel` | sel.c, one node; instantiates `SelLog` | `MCSel` | `SelProofs` |
| `KvRegister` | abstract: what a key promises | through `Kv` | through `KvProofs` |
| `Kv` | kv.c, one key; instantiates `KvRegister` | `MCKv` | `KvProofs` |
| `WdtTimer` | the IPMI watchdog of ipmid.c, one server | `MCWdtTimer` | `WdtTimerProofs` |
| `Rikbtnd` | rikbtnd.c and power.sh | `MCRikbtnd` | `RikbtndProofs` |
| `SensorMon` | sensord.c, one sensor | `MCSensorMon` | `SensorMonProofs` |

A variable named *history* in a module is not in the code: it records what
happened so that a property can speak of it, and no guard reads it but to bound
how often the environment fails.

### Ipmbd

A handler thread is `pc[h]`: `recv` (waits for its client's request), `alloc`
(before `seq_get_new`), `send` (before the bus mutex), `write` (in the retry loop
of `i2c_write`), `wait` (in `sem_timedwait`), `woken` or `out` (at
`ipmb_handle_out`, with or without a semaphore taken), `reply`.  `seq` is the
table `g_seq.seq`; a slot's `p_buf` is the handler whose stack buffer it points
to.  A message is abstracted to the request it belongs to, the number it carries
and the transmission it answers: nothing else of its bytes matters to a property.
The bus is a set (`bridge`) from which responses come in any order, or never.

A critical section of `m_seq` is one action (`SeqGetNew`, `Release`, `SeqPut`):
nothing in it blocks and no other lock is taken.  The section of `m_i2c` spans
retries, and other threads run meanwhile.  `Wake` and `Timeout` are separate
from `Release`, which is where the response may still come in after the timeout.
Taking the message from the queue and `seq_put` are separate, so that the number
may change hands between them.

`index`, `req`, `tries` and the buffer are reset when the handler ends, as its
stack is gone; `nreq` numbers the requests and exists in the model alone.

### IpmbdRequests

Packets are bytes here, because what the receive thread does to a damaged packet is
arithmetic on them: `Packet` builds one, of the six bytes that `ipmb_rx_handler`
asks for at least (`IPMB_PKT_MIN_SIZE`) or of seven, with a command; `Repairs` is
the chain of attempts of `ipmb_rx_handler` (correct the first byte; put the first
byte in front), and `Accepted` what is left after the size and the two checksums.
`Rx` is a whole turn of the loop: the bridge sends a packet, the bus makes one of
`Damages` of it, and it is dropped or posted.  Only requests are followed; a
response goes to the queue of `Ipmbd`.

`ipmb_req_handler` is `pc`.  Of a request without a command it copies
`rlen - IPMB_HDR_SIZE - IPMI_REQ_HDR_SIZE` bytes, which is -1: `ReceiveOverrun`, the
end of the daemon before ipmid is asked; `Receive` is about the others
(`HasCommand`).  `lib_ipmi_handle` returns nothing: `IpmiAnswers`
writes response and length, `IpmiCloses` (the connection ends without an answer,
which `ipc_send_req` reports as a success of length 0) writes the length alone, and
`IpmiFails` writes neither.  `Build` or `Overrun` follows, by the length: with a
length under that of a response's header the length of `memcpy` is negative, and
the daemon is gone, until `Restart`.  `m_i2c` is shared with the requester side,
of which only `OthersLock` and `OthersUnlock` remain.

### IpcService

`svc` is the service thread (`get`, `wait`, `expired`, `accept`, `dead`), `srv[c]`
and `peer[c]` the two ends of a connection.  `WaitExpires` and `Expired` are two
actions because a timed wait that ran out takes the mutex again only later; the
loop in `get_client` is left with `ETIMEDOUT` in either case, even if a place was
given back in between: that counts as a failed attempt.  `Wakeup` is enabled
without a signal, too: spurious wake-ups exist.  `CloseConn` and `CliDone` are
two: the client sees the end of the connection before the place is back.

`get_client` reads `rc`, which it assigned only if it waited.  The value read
otherwise is a choice from `RcExpired`: `{TRUE, FALSE}` is the code as it is.  The
history `mishaps` tells what went wrong: such an `rc`, a wait that ran out while
a handler ran, a failed call.

### Sel and SelLog

`hdr`/`data` are the cache, `fhdr`/`fdata`/`flen` the file (header, records, how
far it reaches), `rsv` the reservation id.  A command is `pc[h]`, one action per
statement that touches the ring or the file, in the order of the code: roll over
(`AddStart`), copy to the cache and compute the record id (`CacheEntry`), store
the record (`StoreEntry`), advance the end (`AdvanceEnd`), store the header
(`StoreHdr`).  Start-up is `Load`, `LoadFails`, `Skipped`, or `Create`,
`CreateHdr`, `FillRecord`, `Filled`.  `Die` loses everything but the file and may
come at any step, start-up included.

`Handlers` is `{"storage"}`, or `{"storage", "sensor"}` when platform events,
whose commands run under another mutex, may add entries at the same time.
`FailingOps` says what may fail: `fetch` (reads at start-up), `skip` (`sel_init`
stopped at an earlier node), `store` (reported), `close` (a write that is lost in
`fclose`, whose result the code drops).

`SelLog` is the promise: a log of at most `RecordsMax` entries, a saved copy that
a restart serves, and steps that drop the oldest entry of a full log, add one,
clear, save, die and restart.  `Sel!BoundedLog` is `SelLog` under the refinement
mapping "daemon runs", cached ring read in order, stored ring read in order.
In `SelLog` the saved copy may only be replaced by one that has exactly one more
entry (or that is empty): not a triviality, as `sel_add_entry` overwrites in the
file a slot while the old header is still the valid one.

### Kv and KvRegister

One action per system call that looks at the file: `access`, `fopen("r+")`,
`fopen("w")` (which creates and empties, before any lock), `flock`, the reading
of what is there, `ftruncate`, the flush, `unlock`.  A value is one member of
`Values`, as `fflush` writes it in one call; what lies between truncation and
flush is `Empty`.  A process dies at any point, which frees its lock and nothing
else.  `flags && KV_FPERSIST` in the code is true of every flag; `Same` and
`KeepSame` do what the code does.

`KvRegister` is the promise: a register whose sets and gets take effect in one step
(`Put`, `Get`) between call and return.  It allows what the code adds to a register
and no more: `Look`, the only time a creation asks whether the key is there, may
come long before its `Put`; `Make`, a set that found no key empties it once more,
unless the value is that of a set that is not over; and a set may lose its value
(`Lose`, or `Leave` with its process).  Under the mapping of `Kv!Register` a set
takes effect at its `ftruncate` (or where it finds its value there already), a get
at its read: from truncation to flush the key has, for the register, the value
that the holder of the lock is about to write.

### WdtTimer

The handlers of the set and reset commands are an action each, as they run under
`wdt->mutex` from beginning to end.  The thread is `step`: in its section it
stops the timer if the host is off (`StopIfOff`) or counts (`Count`, with
`RunOut`); after the section, with a local copy of the action, it looks for a
crash dump (`IgnoreForDump`, `DecideToAct`) and acts (`Act`, `ActFails`).
Between these the host, the power buttons, dumps and deaths come in freely.
`"reserved"` is the action codes 4 to 7, which go the whole way and do nothing.

The history `fate` follows the power action that the host's last message left due:
`awaited` until something ends it, and then what did (`acted`, `failed`, `off`,
`dump`, `death`); `unasked` if that message left the timer stopped or asked for no
power action.

### Rikbtnd

The FIFO is a sequence of writes, with the rules of fifo(7): an open waits for the
other side and both are let go together (`Open`); a read takes all there is; a read
with no writer is the end of the file; a write with no reader is a `SIGPIPE`;
what nobody read is gone when the last end is closed (`Close`).  An answer is
read whole, as it is one short write.  `get_power_state` always finds the host
off, because it takes what `strcmp` returns for equality: so `Init`.
`power_state ^= true` is a load and a store in two threads; a press of the button
(`Press`) comes before its handler's (`PressLoad`, `Pressed`).  A client may be
killed anywhere, as the web server does with a script that takes too long.

### SensorMon

One sensor and its upper thresholds.  `mon` is the monitor thread in a check of
one threshold: a first reading (`Poll`), rereads (`Reread`, `RereadFails`), and
`Raise` or `Settle`, whose `curr_state` update is a `Load` and a store.  `Dismiss`
is every early return of a check.  `health` is the round of the health thread: read
the store, scan `curr_state`, wipe it when the store was set to good by somebody
else, write the store (a reading of it that fails ends the round with nothing
changed, and is no action).  `Clear` is log-util, at any moment.  `above` and `below`
count readings in a row, for `Debounced`.

## 3. What the runs check, the bounds, and why they are enough

Deadlock is checked except in `ipc_service`, where the service thread may give up for
good.  Each property of a passing run has a mutant in `PROJECT.json`: a plausible
bug in a mapped definition under which the same run reports that property
violated.

| run | shows | bounds |
|---|---|---|
| `ipmbd_wrap` | ownership of numbers, that they do not run out, where a wrong response may come from and from how far back, what a client is sent | 2 handlers, 3 numbers, 4 requests, queue of 1 |
| `ipmbd_live` | no lost wake-up, no write to a buffer given up, every connection ends | 2 handlers, 1 number, 2 transmissions each, 2 requests, BIC-update mode |
| `ipmbd_late` | violation: woken by a response that is not one's own | 1 handler, 1 number, 2 requests |
| `ipmbd_requests` | what is made of a damaged packet, whose answer a request gets, what the daemon dies of, no request is stuck | 3 netfns (a common one, one that looks like an address, a response), packets of 6 and 7 bytes, 4 packets, queue of 2, 2 transmissions |
| `ipc_service` | places, limit, signals; no connection queued for ever; gives up only after a mishap | 4 connections, 2 places, all failures, any `rc` |
| `sel_ring` | cache, file and abstract log agree; whole replacement; when a walk by record ids is complete | ring of 4 slots, deaths |
| `sel_faults` | bounded queue and healing under every failure | ring of 3 slots, all failures, deaths |
| `sel_race` | violation: a full log reads as empty | ring of 3 slots, two callers |
| `kv` | who sees the key empty, what a success means, that the key is a register, every call returns | 2 that set or create, 1 that reads, 2 values, deaths, failed writes |
| `wdt_timer` | when the timer runs out, what is done then, a hung host is acted upon but for four reasons | counts up to 2, two uses, deaths |
| `rikbtnd` | what a client that is alone may rely on; its request ends | 2 clients that may overlap or be killed, FIFO of 2 writes |
| `sensor_mon` | debouncing, nesting, wipes; log and health follow the sensor | 2 thresholds, readings 0..3, hysteresis 1, one failed store |

Every bound:

- `MaxReqs` caps the requests that get a sequence number; it is the only bound on
  a counter in `Ipmbd`.  With three numbers and four requests the search of
  `seq_get_new` wraps, a number is reused while a response to its earlier holder
  is still on the bus, and two handlers hold numbers meanwhile.  Two handlers are
  enough: every property relates at most two of them and the response thread.
  The semaphore count is not bounded: it is limited by the number of transmissions.
- `MqMax = 1` makes the queue full whenever one response waits, so that the drop
  of `mq_timedsend` happens; a longer queue only adds order, which the bus has
  already mixed.
- `I2cRetriesMax = 2` gives two answers to one request, the second of which may
  come at any later point; more transmissions repeat this.
- `MaxPackets = 4` in `IpmbdRequests` leaves room for a full queue, a request
  under way and one more to follow a failure.  The two lengths are the least that is
  accepted and the least that has a command; a longer packet has data after it,
  which is only carried (of 255 bytes, the length would wrap when a byte is put in
  front; that is left out).  `RepairsUndo` does not depend on `NetFns`: it is
  evaluated for all 256 values.
- In `IpcService` `WaitRetries` and `AcceptRetries` are 2 and 3 (in the code 5
  and 5): the service gives up within the bound, after a wait and after a
  reset of the counters.  Four connections for two places fill the places and
  the backlog at the same time.
- `RecordsMax` is 3 or 2 (in the code 128).  With a ring of four (three) slots
  the ring turns over completely, `begin` and `end` pass each other's wrap, and
  an erasure can come at every position.  `RsvIdMax` is 2 or 1 so that the id
  wraps.  The three entries are interchangeable and tell apart any two slots.
- `Kv`: a process keeps nothing between calls, and every property relates at most
  two that write and one that reads.
- `CountMax = 2` in `WdtTimer` has the counts 0, 1 and one that is reached by
  counting down.
- `FifoMax = 2` in `Rikbtnd`: a request and an answer, or two requests, at once.
  `pulses` stops at 2, which stands for too many.
- `Top = 2` in `SensorMon` (in the code 3) has a threshold under and one above
  another, which is what nesting and skipping relate; three take four minutes and
  show nothing else.  `above` and `below` stop at 4, the most that any check asks
  for.  One failed store (`failed`) is enough to be confused by.

The runs of `Ipmbd` and `Sel` use symmetry over handlers and entries; the runs that
check liveness use none.

What the deeper properties say:

- `ForeignResponseIsLate`: a client may be given the answer to somebody else's
  request, but only if that somebody no longer waits.  Requests that are
  outstanding at the same time are never crossed.
- `ReuseDistance`: such a wrong answer is more than `SeqMax - Cardinality(Handlers)`
  requests old, because numbers are handed out round robin.  This is what makes
  the missing check in `seq_put` bearable in practice, and it would be lost if
  the search started at 0.
- `ReplyIsWhatArrived`: with the length read under the mutex at the end, a response
  that arrives just after the timeout is still returned, and a buffer nothing was
  copied to is never sent.
- `RepairsUndo`, `PostedAsSent`: the two repairs give back the packet that was sent,
  for every netfn; only a packet that lost its first byte and is then too short (it
  had no command), or whose netfn is 0x20 or 0x40 and so looks like an address, is
  dropped.  No damage of a bit or of the first byte makes another packet.
- `StaleOnlyAfterFailure`: an answer that is not the one to its request follows a
  failed call of ipmid; the daemon dies only of a connection that ipmid closed
  without an answer, of calls that failed before any was answered, or of a request
  without a command (the six bytes that `ipmbd.c:563` accepts) that the bridge sent so:
  no repair makes one.  It is a statement about packets of six and seven bytes; the
  rest of a longer one is data, which is left out.
- `ServiceStays`: with an initialised `rc` and handlers that end within the wait,
  the service never gives up.  What may make it give up is listed in `mishaps`; the
  place given back while the timed-out thread waits for the mutex is among it,
  as the handler had not ended when the wait did.
- `BoundedLog`: what is served and what a restart would serve are bounded logs
  that lose only their oldest entry, whenever the daemon dies.
- `HeaderStoreHeals`: after any number of reported failures, the next command that
  stores the header leaves file and cache equal.
- `WalksOnlyFromFirstSlot`: a client that follows the next record ids gets the
  whole log if and only if the oldest entry is in the first slot.  Once the log
  has rolled over, `SEL_RECID_FIRST` leads to the oldest entry and its next id to
  the second slot of the file: sel.c:475 promises the next record id in the log.
- `SetIsStored`: a set that returned 0 is in the file, or somebody who came to
  create the key has emptied it and is about to write.  The emptying needs no
  lock, and this is what is left to say.
- `IsRegister`: whatever the order of the system calls, the outcome is that of sets
  and gets made one after the other, but for creations and failures.
- `EmptyHasWriter`, `ReadsWholeValues`: an empty key is transient but for deaths and
  full disks; and a reader sees it only in that window of creation, never between
  truncation and write.
- `ExpiresOnTime`, `ActsAsExpired`, `StoppedForAction`: sets and resets between two
  counts, or between the expiration and the action, neither shorten the count nor
  change the action; a set in that last window does start the timer again while
  the server is acted upon, and then from its whole count.
- `HungHostIsActedUpon`: once the host is silent, its watchdog comes to stand still
  with no action outstanding.  The action that was due was carried out, or one
  of four things spared the host: a count found the server off, a crash dump was
  going on when the thread looked, the power call failed, ipmid died.  After none of
  these does the code try again.
- `SwitchedOnce`, `AnswerTellsPower`, `DaemonStays`, `RequestsEnd`: all are about
  clients that come one after the other and are not killed.  Overlapping clients
  read each other's requests, are answered once for two, and may leave client and
  daemon waiting in the same direction; a client killed before it reads leaves the
  daemon a `SIGPIPE`.
- `FollowsSensor`: although wipes and updates overwrite each other, a sensor that
  stays beyond a threshold has it raised again and again, and one that stays back
  has it settled for good.
- `WipedOnRequest`: a status that could not be stored is taken for a clear in the
  next round, and in no later one.
- `ClearHeeded`: a clear of log-util that falls between two rounds is followed by
  the wipe.  One between the reading and the writing of a round is written over.

## 4. Where the code and its comments disagree

Two runs end in a counterexample on purpose; each is a short behaviour.

1. `ipmbd_late` / `WokenByResponse`.  `seq_put`'s comment has it that it wakes the
   worker "to receive the response".  Two ways to break it: a response arrives after
   `sem_timedwait` timed out and before `ipmb_handle_out` released the number, its
   post stays in the semaphore and wakes the number's next holder at once, with
   length 0; or a late response meets a number that is in use again, since
   `seq_put` checks that it is in use and not by whom.
2. `sel_race` / `AddingNeverEmpties`.  Two additions under two mutexes find 127 entries,
   neither rolls over, and both advance `end`, which then meets `begin`: a full log
   reads as an empty one.

Observations that are in the hazards but have no counterexample run:

- `get_client` compares `rc` with `ETIMEDOUT` without having assigned it when a place
  was free at once (`mishaps` has `rc`).
- `sel_add_entry` returns `end + 1` as the record id while `sel_get_entry` takes
  an id to be the index; the result of `fclose` is dropped; `sel_init` stops at the
  first node that fails and leaves later nodes with an empty cache, which their
  next addition writes over a whole file; after a restart the reservation id is 0,
  which is accepted though no reservation has it.
- `ipmb_rx_handler` lets requests of six bytes through (`ipmbd.c:563`), while
  `ipmb.h` has `MIN_IPMB_REQ_LEN` 7 and `ipmb_req_handler` takes away seven from the
  length for a `memcpy`: such a request ends the daemon (`ReceiveOverrun`).
- `kv.h:41` says that a creation sets a key only if it does not exist; of two
  overlapping creations both succeed.
- A crash dump that is going on when the watchdog runs out makes the thread drop
  the action for good (`fate` is then `dump`).
- If a client writes to the FIFO's name before `mkfifo`, it makes a regular file of
  it, and the daemon then reads its own answers.
- A clear of log-util between the health thread's reading and writing is lost;
  the scan goes one past the last sensor of a FRU.

## 5. Fairness

*Ipmbd, `HandlerReturns`.*  Weak fairness for each step of a handler but one.
Receiving from the client, waiting for the semaphore and the transmissions are
bounded by timeouts or by the driver; the sections of `m_seq` are short.  For
`m_i2c` strong fairness is assumed: a POSIX mutex does not promise it, but the
section is left after a bounded number of attempts and nothing in the code gives
one thread precedence.  Nothing is assumed of the bridge IC, the bus, the clients,
the receive thread or the response thread: the property holds if no response ever
comes.

*IpmbdRequests, `RequestsLeave`.*  Weak fairness for each step of the request
thread (the call of ipmid has a timeout, the transmissions are counted), for
runsv and for the end of the others' use of the bus (`HandlerReturns` is that
they end); strong fairness for the bus mutex as above.

*IpcService, `QueuedIsTaken`.*  The service thread runs, its timed wait ends, and
`accept` returns when a connection is there.  Nothing is assumed of handlers,
which may hang for ever, nor of clients: then the service gives up, and the
connections in the backlog are reset.  A wake-up counts only if it leads
somewhere: endless spurious wake-ups do not discharge the wait's timeout.

*Kv, `CallsReturn`.*  Each process runs: weak fairness per process for the calls
before and after the lock.  `flock` is a queue in the kernel: strong fairness for
getting it.

*WdtTimer, `HungHostIsActedUpon`.*  Weak fairness for the thread's section and for what
follows it.  Nothing is assumed of the host; the property is about one that stops.

*Rikbtnd, `RequestsEnd`.*  Weak fairness for the daemon's thread and for each client
that has begun.  Nobody has to ask or press.

*SensorMon.*  Weak fairness for each of the two threads, which go round for ever with
sleeps of seconds, and can read the store now and then.  Nothing is assumed of
the sensor or of log-util.

*Sel* has no liveness: every command is a straight line of code under a mutex.

## 6. What is proved, and how

All proofs are checked by `tlapm` to the last leaf.  The constants are arbitrary
within the named assumptions of the modules (any finite set of handlers, any
number of sequence numbers, retries and queue entries; any limit and any
retries; any capacity, any set of entries; any processes, values, counts,
clients, thresholds and readings).  The type invariant of every module is a theorem
`Typing`, and the runs do not repeat it.  With it every property of the runs that is
not liveness is a theorem.

**IpmbdProofs.**  `Ownership` is inductive with the types: `HolderOwnsSlot` and
`SlotHasHolder` say that handlers that hold a number and slots in use are in
bijection.  `OwnershipFrame` states once that a step which touches neither side
keeps it; every action is then either framed or one of `SeqGetNew`, `Release`,
`SeqPut`, `Wake`.  From it follow

- `NeverExhaustedWhileFew`, by counting (`OwnersAreFew`): a handler at `alloc` holds
  no number, so that the holders are fewer than the numbers as long as no more
  than `SeqMax` handlers are in a request (`Busy`).  `NeverExhausted` is the case of
  at most `SeqMax` handlers, which the run has.
- `NeverExhaustedInService`, which needs no such assumption: the last section of the
  module puts `Ipmbd` and `IpcService` together, with a connection per handler and
  `SeqMax` for the limit, as `start_ipmb_lib_handler` starts the service, and
  for any number of connections.  The link between the two is `RunsInService`:
  a handler's thread runs only while its connection is being handled, as
  `conn_handler` of libipc calls the handler and gives the place back when it
  returned.  `IpcServiceProofs!Limited` then bounds `Busy`.
- `BufferStable`: `seq_put` writes only the buffer of a holder.
- `ReplyFaithful` and `WakeupsKept` need a strengthening, `BufferInv`: for a
  handler that holds a number, its slot's length is 1 exactly if its buffer was
  written, and while it waits a written buffer comes with a posted semaphore; at
  `reply` the length read agrees with the buffer.
- `NeverCrossed` needs `IdentityInv`: requests that are outstanding have different
  ids, and a message anywhere between the bridge and `seq_put` whose request is
  still waited for carries the number of the handler that waits.  So a response
  put in a buffer answers nobody else who waits.
- `ReuseIsFar` needs an account of the round of `seq_get_new`, `ReuseInv`.  For each
  message under way and each request waited for, `Far` says that enough requests
  came since, or that the search has not come round to its number: of the numbers
  passed since (`Passed`), one was handed out to each newer request, and the others
  were held by older requests, which are fewer than the handlers (`Older`, counted
  in `SkippedCount`).  `FarTaken` is the step of the search, the only one that
  moves it.

**IpmbdRequestsProofs.**  `Staleness`, from an invariant that ties length and
buffer to what became of the last call of ipmid, and from `PacketInv` (below): a
request without a command that the daemon dies of is one that was sent.  `RepairsAreRight` is about packets
alone: `CksumOf` unrolls the checksum, which is written as a recursive function, for
the six or seven bytes of a packet; `HeaderSum` and `DataSum` say what each checksum is
of the others, and each damage has a lemma (`IntactOk`, `FirstByteRepaired`,
`MissingByteRepaired`, `OtherByteDropped`: one byte that is wrong is never
accepted).  `AcceptedAsSent` puts them together, and with it `PacketInv` is
inductive: the queue and the handler's buffer hold packets that were sent.
`OnlySentIsPosted` is part of it.  `Typing` needs it, too: the answer of ipmid takes
the number of the request out of the packet, which is in range because the packet
is one that was sent.

**IpcServiceProofs.**  The inductive invariant `Inv` is the types with two
additions (the retries of a live service are not used up; the backlog holds each
queued connection once), `PlacesCounted`, `num_active <= ActiveLimit` and
`NoLostSignal`.  The queue part is needed because `Accept` moves the head of the
backlog among the active connections and the count must grow by exactly one.
`Accounting`, `Limited` and `SignalsKept` follow.  `Steadfast` (`ServiceStays`) adds
`Untroubled`: without a mishap no attempt is ever used up.

**SelProofs.**  `Typing` and `Walking` hold for any callers and any failures: the
indexes stay in the ring even when two additions race.  `Walking`
(`WalksOnlyFromFirstSlot`) unrolls the walk: a function that satisfies its
recursion is unique (`WalkUnique`, at the least place where two differ), so that
the walk is the one that counts up from the first slot.  The other theorems assume `Alone`
(callers that take turns, nothing fails; deaths at any step are allowed):
`Matching`, `Refinement`, that `Sel` implements `SelLog`, and `Atomic`, the part of it
that says how what is saved changes.  They rest on
`Sync`, which says for each program point how far the cache is ahead of the file
(`Ahead`), that the two agree on the live slots of the cache's ring (`Synced`),
and that the file reaches every live slot (`Reached`, without which a restart would
read records that are not there).  The ring lemmas (`LogAgrees`, `LogAdvanced`,
`LogRolled`, `LogEmpty`) turn changes of header and slots into `Append` and `Tail` of
the sequence.  `Alone` is necessary: with two callers `AddingNeverEmpties` fails,
and with failures cache and file differ between commands by design.  `Queueing`
needs callers that take turns (`InTurn`) but lets every file operation fail: its
invariant `Room` says that an entry on its way has room in the ring and, once
cached, lies at `end`, so that the step of `end` appends that entry.  `Healing` has
the same callers and any failures: its invariant `Saved` says, as long as no fetch
came back short and no store was lost in silence (`Reported`), that the file
holds every live slot of the cache, ahead of its own header, so that the header's
store makes the two logs one.

**KvProofs.**  The invariant says who holds the lock (the processes past `Lock`, one
at a time), what a call found and how far it can have come with it, and that an
empty key has an emptier.  `EmptyIsTransient`, `SetsStored`, `WholeReads` and
`CreationKeeps` (what is true of `kv.h:41`: a creation leaves alone a key that
existed when it was called) follow.  `Linearizes` is that `Kv` implements
`KvRegister`, one lemma per part of a call (`CallInvokes`, `OpeningIsRegister`,
`LockStutters`, `HoldingIsRegister`, `DieLeaves`).  It needs `FileInv` besides: the
file is empty between truncation and flush, and there as long as it is open.

**WdtTimerProofs.**  The invariant relates the count to the ticks since it was
loaded, and the thread's action to the one that was set when the timer ran out:
`OnTime`, `Faithful`, `StopsFirst`.  `Awaited` ties the action that is due to the
timer or the thread that has it (`NeverForgotten`), which is what a proof of
`HungHostIsActedUpon` would start from.

**RikbtndProofs.**  The invariant `Phase` is the protocol: as long as clients come one
at a time and live, client and daemon are together in one of the phases of a
request, and each phase says what the FIFO holds and who has it open.  `Stays` and
`Switches` read off it; `TellsPower` adds where `power_state`, a toggle under way
and the host's power stand to each other in each phase.

**SensorMonProofs.**  `Nesting` needs, beyond `Nested` itself, that the copy of
`curr_state` a check is about to write back is nested (raising adds every threshold
up to the one checked, settling takes away every one from there on); a wipe in
between leaves it so.
`Debouncing` ties the rereads left to the readings counted; `Wiping` ties the
health last reported to the store.

## 7. What is only model-checked

- Liveness: `HandlerReturns`, `RequestsLeave`, `QueuedIsTaken`, `CallsReturn`,
  `HungHostIsActedUpon`, `RequestsEnd`, `FollowsSensor`, `HealthTold`, `ClearHeeded`.
  The prover has no fairness.

## 8. What is not modelled, and why

- *Contents of messages and entries*, but for the packets of `IpmbdRequests` up to
  their command.  No
  property depends on them; in `Ipmbd` checksums appear as the outcomes they have
  (`RxCorrupt`).
- *Power loss.*  `Die` is the death of the process: what was closed is kept.  The
  code never calls `fsync`, and the order in which the file system would keep two
  stores across a power cut is not promised by anything in the repository.
- *Torn writes.*  A store of one record, header or value is one action; it is one
  `fwrite` of a few bytes flushed at once.
- *Time.*  Timeouts are choices; where their length matters a history variable
  says which choice was made (`mishaps` of `IpcService`).  A clock under
  which `CLIENT_TIMEOUT` could be compared with the service's wait is left out.
- *Start-up of ipmbd and of rikbtnd.*  `main` of ipmbd initialises `m_seq` once more
  after the response thread has started; rikbtnd's FIFO may be anticipated by a
  client.  Both are hazards without a property.
- *One node's SEL, one key, one server, one sensor at a time.*  What other nodes do
  to a SEL is the fault `skip`; keys and servers share nothing; sensors share the
  table whose end the scan oversteps, which is a hazard.
- *sensord*: discrete sensors (a value is logged when it changes), the lower
  thresholds (mirror images), the reload of thresholds by threshold-util, poll
  intervals, `pal_ignore_thresh`.
- *ipmid*: commands that keep no state; the decoding of RAS records, time stamps,
  magic and version of the SEL.
- *libwatchdog*: its auto-kick thread is run by no program of the tree, and the
  rest is a system call each.
- *healthd, mTerm, front-paneld, gpiod, fan daemons*: loops that each keep a state of
  their own over readings or file descriptors; fan control computes in floating
  point.
- *The board layers (`libpal`, `bic`)*, the largest part of the C code: tables,
  addresses and register sequences per board, without shared state of their own.
  They appear in the models as calls that succeed or fail.  Together with the
  vendored libraries (JSON, u-boot, kernel patches, JBI) they are most of the tree,
  and the reason why the share of lines that are modelled is small.
- The components with status `not_modelled` in `PROJECT.json`, each with its reason.

## 9. Where to extend it

- Two nodes of the SEL started in order, from which the fault `skip` is derived,
  and reservations as clients see them.
- A second sensor and FRU in `SensorMon`, for the scan that goes one too far.

A run should ask a question of its own; the suite is kept to a dozen that end
within a few minutes together.

## 10. How to run it

    tlc -workers 2 -config MCIpmbd.cfg MCIpmbd.tla
    tlc -workers 2 -config MCSel.cfg   MCSel.tla        # and so on, see "runs"
    tlapm IpmbdProofs.tla                               # and the other *Proofs.tla

No run takes more than a few minutes on two cores, and each proof module about a
minute or less.
