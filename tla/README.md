# Verification of thunderbolt-ibverbs

`thunderbolt-ibverbs` is a Linux kernel module that offers RDMA verbs over the
DMA rings of Thunderbolt/USB4 host-to-host links. This directory holds TLA+
models of its core, the TLC configurations that check them on small instances,
and proofs, checked by TLAPS, for every value of the constants. All paths below
are relative to the repository; `path.c:2581` is line 2581 of `kernel/path.c`.

## 1. The system

### Components

| component | state | operations | what makes it correct |
|---|---|---|---|
| **path transmit** (`kernel/path.c`) | control and data queues, reservations, staging frames, `tx_inflight`, remote credits, raw-stream state, `tx_closed` | enqueue (single, list, reserved), `schedule_tx`, completion callback, cancel by owner, drain and ring barrier | no buffer is handed back while the NHI may still read it; counters agree with the packets they count; data leaves in order; a raw stream is not interrupted; nothing is left waiting with nobody to wake it |
| **path receive and data credits** (`kernel/path.c`, `proto/native_data.h`) | credits of the peer's ring, credits collected for return, RX descriptors | charge on submit, batched return in PATH_CREDIT frames, refill at HELLO | the peer's ring is never overrun, no credit is invented, collection in batches never starves the sender |
| **native control** (`kernel/native_control*.c`, `proto/native_wire.h`) | per rail: negotiated, remote path, tunnel, READY sent/received, attempts; per link: `control_lock` | delayed work (HELLO, tunnel, READY), packet handler, kicks | a rail is published once both ends are ready, and only then; both ends come up |
| **peers, rails, links** (`kernel/peer.c`, `rail.c`, `link.c`) | peer and rail lists, reference counts | add, remove, lookup, unlink | a removed rail is never used again and is freed once |
| **service binding** (`kernel/service.c`, `native.c`, `backend.c`) | probed XDomain services, Apple publication worker | probe, remove, publish | a rail has rings before anybody talks to it; removal undoes probe |
| **ib_device registration** (`kernel/ibdev.c` 10324-10836) | one `ib_device` per active rail | rail event, deferred registration, unregistration | a device exists exactly while its rail is data-ready |
| **rail binding and quiesce (Apple)** (`ibdev.c` 3014-3611) | bound QP and epoch, quarantine | bind, unbind, quiesce, admit, reap | one QP per Apple rail; a rail is reused only when nothing of its former owner is in the rings |
| **verbs QP engine, native** (`ibdev.c` 1592-1711, 3929-4625, 7870-9808) | send queue, pending ACKs, RX messages, reorder state, timers | post, fragment, ACK, RNR, retransmit, reorder, READ responses | each work request completes once, in order; each message is delivered once |
| **verbs QP engine, Apple** (`ibdev.c` 3814-3915, 6421-6850, 7168-7580; `proto/apple_tx.h`) | send and receive queues without any wire header | post, segment, assemble, complete | frames match the posted receives one to one |
| **verbs objects** (`ibdev.c`) | PD, CQ, MR, GSI QP | create, destroy, poll, register | a CQ never loses a completion silently; an MR in use is not freed |
| **reliability reference** (`proto/reliability.c`) | sender and receiver state machines with a 32-bit PSN | send, ACK, timeout, receive | exactly-once delivery in order. The kernel takes the timer and RNR conversions from it; the state machines are the reference |
| **Apple network identity** (`kernel/tbnet_identity.c`, `tbnet_minimal.c`, `proto/identity.c`) | GID, netdev, login state of a ThunderboltIP link | login, logout, link up/down, mirror of the netdev's addresses | the GID table follows the netdev |
| **configuration** (`configfs.c`, `profile.c`, `main.c`, `core.c`, `proto/config.c`) | profile, per-link settings | parse, resolve, apply | resolution is a function of profile and overrides |
| **debugfs, trace** (`debugfs.c`, `txtrace.c`, `trace.c`, `docs/ring-diagnostic-snapshot.md`) | snapshots | read | reading changes nothing |
| **user-space provider** (`userspace/usb4_rdma`) | ABI structures | forwards every verb to the kernel | - |
| **benchmarks** (`userspace/bench`) | - | - | - |

### How they interact

Verbs calls post packets to a path. The path's scheduler runs in whatever
context called it last: a poster, the completion callback of the ring, the
receive callback that got credits. Completions call back into the QP engine
(`done`), which completes work requests. The receive callback parses frames and
calls the QP engine, or adds credits and schedules TX. Native control runs as
delayed work per rail and as a callback of the XDomain layer per packet; both
change the rail under `state->lock` and publish it through
`tbv_ibdev_rail_event()`. Apple rails have no control protocol and no wire
header, so ownership of a rail's rings passes between QPs only by quiescing it.

### What is hard

Concurrency: every function of the path is entered from several contexts, the
scheduler drops `tx_lock` for each frame, `tx_inflight` is an atomic outside it,
and a completion can overtake the thread that submitted the frame. Failure:
`tb_ring_tx()` and allocations may fail after state was changed; frames, credit
frames and control packets are lost; a tunnel takes several attempts. Ordering:
a response is matched to a request by link only; rails become visible before
they have rings. Lifetime: rails, queue pairs and contexts are counted, and their
removal waits for counts that other threads hold. Timeouts: every retry is bounded
on both ends. The hazards are listed, each at its line, in `PROJECT.json`.

## 2. Modules

| module | models | checked by | proved in |
|---|---|---|---|
| `PathTx` (`MCPathTx`) | transmit engine of one path, and the Apple quiesce sequence | `path_tx`, `path_tx_live` | `PathTxProofs` |
| `PathCredit` | credits between the two ends of a path | `path_credit` | `PathCreditProofs` |
| `NativeControl` | bring-up of the rails of a link, both ends | `native_control` | `NativeControlProofs` |
| `NativeWire`, `NativeTx`, `NativeRx`, composed in `NativeQp` (`MCNativeQp`) | SEND, RDMA WRITE and WRITE_IMM over a native queue pair: what is shared, the requester, the responder | `native_qp`, `native_qp_live`, `native_qp_reap` | - |
| `QpChannel` | what a queue pair promises, without PSNs, frames or timers | refined by `NativeQp` in `native_qp` | - |
| `NativeRead` (`MCNativeRead`) | RDMA READ over a native queue pair, both ends, with the references and the destruction of the queue pairs | `native_read` | `NativeReadProofs` |
| `AppleTx`, `AppleRx`, `RailBind`, composed in `AppleQp` (`MCAppleQp`) | an Apple queue pair: sends, receives, its rail with epochs, quiesce and quarantine | `apple_qp` | `AppleQpProofs`, `AppleQpOkProofs` |
| `SeqLoop` | a loop over a list, one iteration as a parameter; instantiated by `AppleTx` for its five loops | through `apple_qp` | `AppleQpProofs` |
| `RailLife` (`MCRailLife`) | rails and their `ib_device`s from probe to removal, module init and exit | `rail_life`, `rail_life_cross` | `RailLifeProofs` |
| `TbNet` (`MCTbNet`) | the minimal ThunderboltIP session an Apple rail waits for | `tbnet` | `TbNetProofs` |

The modules meet at their edges. What `PathTx` does with a frame is one external
step of `NativeTx`, `NativeRead` and `AppleTx`; `RailLife` takes the bring-up of a
native rail as the edges of `NativeControl`, the quiesce of an Apple rail as the one
step whose detail is in `RailBind`, and the readiness of the ThunderboltIP path from
`TbNet`.

Definitions marked `Variant:` are plausible mistakes in the definition that
follows them; replacing the definition by its variant violates a property. They
show that each property depends on the code it is about.

### PathTx

`Rails` are the instances to explore; `rail` is the one of this behaviour, chosen at
the start: its messages, limits, whether its ring may refuse frames and whether it
is an Apple rail that is quiesced. A *message* is what one owner hands to the path, a *packet* one of its frames
(`struct tbv_tx_packet`). `Shape` gives the kinds of a message's frames, `Mode`
the entry point it is posted through. One action is one `tx_lock` critical
section, or one atomic operation outside the lock. What a thread holds between
two of them is a variable: `sched` is the thread in the loop of
`tbv_path_schedule_tx()` (there is at most one, `tx_scheduling` sees to it),
`kicks` counts the threads about to call it, `retiring` the callbacks between
packet release and `tbv_path_tx_retire_one()`, `decs` the decrements of
`tx_inflight` still owed after a requeue. `pst` says where a packet is: idle,
queued, in the scheduler's hand, attached to a ring frame, with the NHI,
completing, failing. `ring` and `hwdone` are the NHI's ring; `q` is the thread
that quiesces an Apple rail. `held`, `order` and `wire` are ghosts.

Actions follow the code's functions; the scheduler is split at every point
where it drops the lock: `ScheduleTxEnter`, `ScheduleTxStop`, `ScheduleTxTake`
(pick, charge, count), `ScheduleTxAttach` (packet bound to a frame),
`ScheduleTxPosted`, `ScheduleTxRequeue` (`-ENOMEM`), `ScheduleTxFail` and its
three later steps. Cancellation is one pass under `tx_lock`, as in the code.
Payload, DMA mapping and statistics are left out. `tb_ring_tx()`, the NHI and
`tb_ring_stop()` are external: a ring takes a frame or refuses it
(`RingRefuses`), completes frames in order, and a stopped ring cancels all it
still has.

### PathCredit

One direction of a native path. Frames are counted, not identified, because
which frame holds a credit never matters. `Window`, `Threshold` and `Required`
are the code's computations, rounding included. The state says where each
credit is: with the sender, with a frame on the wire or in a receive
descriptor, collected by the receiver, taken out for a PATH_CREDIT frame, in
such a frame, or lost. `PathTx` keeps the sender's side of the same scheme with
the frames themselves; here the receiver and the losses are complete.

### NativeControl

An end is a pair of node and rail. `phase` is how far `tbv_service_probe()` is
with the rail: listed, with rings, handed to native control. The work function
is split where it takes or drops a lock or waits: `pc` is where it is. Messages
of a node are delivered in order, one at a time; a READY takes the handler
three steps (snapshot, mark remote ready, mark own READY sent), as in the code.
`resp` is the response that completed the node's outstanding request:
`tb_xdomain_request()` matches by route and protocol UUID, so any response
does. A response to nothing outstanding is dropped. `used` is a ghost: data
was charged against the credit window.

`SlowProbe` says whether messages can find a rail between its listing
(`peer.c`) and its rings (`service.c` about line 440). Bounds: `MaxLost`
messages lost, `MaxLate` timeouts of a request whose answer is still on its
way, `MaxTunnelFails` failures of `tb_xdomain_enable_paths()`, `MaxEarly`
READYs that time out before the peer's tunnel is up.

### NativeQp: NativeWire, NativeTx, NativeRx

One direction of a native queue pair, both ends, SEND and RDMA WRITE, the latter with
and without immediate data (RDMA READ is in `NativeRead`). A
scenario (`conf`) fixes the transport (RC or UC), the number of rails, striping,
the queue depths, the RNR limit, the work requests and what may go wrong;
`MCNativeQp` lists them.

`snd` is the requester: `list` is `pending_sends`, `c[m]` the `tbv_send_ctx` of
request `m` (`ready`, `retr`ying, `rnrw`aiting, `txp` for `tx_pending`, `cnt` for
`sq_counted`, `armed` for a timer that runs), `q` the frames the paths hold and
`un` those in the ring. Posting takes three steps, as in `tbv_post_send_one()`:
slot and credit, PSN and list, frames; a rail that refuses its part of a striped
send adds the step that subtracts its frames from `tx_pending`. A critical
section of `tqp->lock` is one action. Sends taken off the list are completed
after the lock is dropped: `fin[t]` holds them for the receive and completion
contexts of each rail, `wk` for the timeout work, which also keeps the sends it
is retransmitting. `off` says that the scan of the list has lost its way (see
`native_qp_reap`); nothing that needs the lock follows.

`rcv` is the responder: `act` and `wr` are the messages being received in place
(`rx_msg`, `rx_write`), `ro` the reorder window, `hist` the ACK history, `rnr`
the message refused for want of a receive, `rq` the receives. A handler holds
`rx_lock` throughout and is one action; `out` collects its ACKs. An OK goes out
on every rail, other answers on one. A data frame is *bad* when it was copied
from the user's buffer after the request had been completed, as the UC
retransmission does.

Time is abstracted: an armed timer may have expired whenever the work runs. Left
out: malformed or contradicting headers (a PSN has one owner), allocations that
fail in the responder, completion-queue overflow as such (its effect is
`RxQpError`), the frames a handler validated before a flush and handles after
it, and zero-copy posts. The flush of a queue pair is one step.

`QpChannel` is the abstract specification: requests are taken, finished at the
responder at most once and in order, completed at the requester at most once,
and an RC success follows a successful delivery. Its variables are mapped to
`snd.psn` and the logs of both ends.

### NativeRead

The requester `a` and the responder `b` of RDMA READs, numbered by PSN. `rd[r]` is
the `tbv_read_ctx` (where it is, its timer, the fragments it has, its references),
`ctx[p]` the `tbv_read_resp_ctx`, `work[p]` the work item between the request and its
response, `ta` and `tb` the timeout works, `post` and `rx` the posting thread and the
requester's receive handler, `user` the destruction of either queue pair. The
requester sends a request once. The responder takes requests in PSN order, copies the
memory (`mem` is its version), sends the fragments and repeats them from the copy
until a READ_ACK comes or its retries are used up. A fragment carries the version of
its copy, which is how `OneSnapshot` sees where the data comes from. Data and control
frames travel in separate queues, as on a path. Left out: the copy itself is one step,
and so is the handling of a request under `rx_lock`; contradicting headers; READs
between SENDs and WRITEs of the same queue pair.

### AppleQp: AppleTx, AppleRx, RailBind

An Apple queue pair and its rail; several queue pairs may follow one another on the
rail. `tx` is everything `tqp->lock` guards on the send side together with the frames
on the path: `snd[w]` is the `tbv_send_ctx`, `list` `pending_sends`, `sq` the entries
for the SQ worker, `pq` and `ring` the frames queued and with the NHI, `wrs` and `frm`
the transmit window, `late` the completions put off. A frame carries the epoch in
which it was handed over. The loops of the
code over lists (cancelling the queued frames of a send, completing the ready sends,
the frames that leave the path together, flushing the send queue and the list) are
instances of `SeqLoop`, whose `Body` is one iteration. `poster`, `wk` and `timer` are
the threads in
`tbv_post_apple_send()`, `tbv_apple_sq_work()` and `tbv_qp_timeout_work()`, split
where they drop the lock. `rx` is the receive side: the slots of the messages being
assembled, the posted receives, resynchronisation after a cut message; `peer` the
frames of the other host, told apart by SOF and EOF only.

`rail` is the binding (`rail->bind`): state, owner, epoch, mark of the last barrier.
`tbv_apple_path_quiesce()` is `qz`, one quiesce at a time (`quiesce_lock`), on behalf
of the thread that called it: destroy or modify (`user`), the stall watchdog (`wd`),
rail removal or module exit (`rm`). It closes the path, fails and stops the owner,
cancels, drains for a short time, stops the ring and waits for references. Left out:
INIT is not told apart from RESET, completion-queue overflow (`error_work`), frame
checksums, the raw variant of the send worker, and queue pairs that share a rail
without being bound. A behaviour ends where a context is touched after its last
reference (`freed`, see *Known limits*).

### RailLife

`rail` is `struct tbv_rail` with its reference count, `svc` how far probe or removal
of its service is, `dev` the `ib_device`, `qp` the queue pairs with the device they
were created on and the rail they are pinned to, `act` the threads with the rail each
holds: the native work and packet handler, the Apple publication worker, the netdev
retry worker, module init and exit. `tbv_ibdev_rail_event()` is split where it leaves
`state->lock` and inside `ibdev_lock` (`Up`, `Attach`, `Register` or `RegisterFails`
or `Defer`); `Locked` says who is inside. Services are removed one after the other,
as the driver core does. `ib_unregister_device()` is external: it returns
(`UnregisterDone`) when no queue pair of the device is left. It destroys none, since
`tbv_ibdev_ops` has no `disassociate_ucontext`; only the application does (`DestroyQp`).
Left out: peer objects and the matching of lanes to peers,
modules loaded with `register_verbs=0`.

### TbNet

One session of `tbnet_minimal.c`. Each work has a `pc` and a `pend`ing flag, since
the workqueue may queue a work that runs; `s` is what the session's mutex guards,
`rpath` the remote path `connected_work` took out of it, `hw` the rings, HopIDs and
XDomain paths that are really set up, `tx` the transmit frames, `ident` the published
identity, `addr` the proxied address, `own` the thread in
`tbv_tbnet_minimal_remove()`. Left out: ARP contents, the address mirror of the stock
driver (`tbnet_identity.c:581`) and its receive handler, sessions of several links.

## 3. What the runs show

| run | instance | properties |
|---|---|---|
| `path_tx` | a native rail (a control frame, a page stream and a reserved two-frame send, posted again and again, cancelled at any time; 3 staging frames, queue of 3, 3 credits, ring may refuse), the native rail of `path_tx_live` and an Apple rail (two sends, quiesced at any time, again and again) | `CountersExact`, `WireOrder`, `DmaKeepsOwner`, `QuiescedIsQuiet`, `RawStreamUnbroken` |
| `path_tx_live` | a control frame, a page stream, a single send and a READ response, each once; 2 staging frames, at most 2 in flight, queue of 2, fair | `QueueDrains` |
| `path_credit` | ring of 9, reserve 2, batch 3 (7 frames beside the reserve, rounded to 6), groups up to 6 frames, 2 lost credits, a refused credit frame, fair | `CreditConservation`, `NoRxOverrun`, `NoCreditStall`, `GroupIsSent` |
| `native_control` | one rail, a lost message, a failed tunnel, an early READY, messages that find a rail without rings, 2 HELLO, 2 tunnel and 4 READY attempts, fair | `ReadyIsPublished`, `PublishedEndToEnd`, `NoRefillInUse`, `RailsComeUp` |
| `native_qp` | 17 scenarios of one to three requests of one or two fragments: a lost frame or ACK, a refused or aborted transmission, late, short and missing receives, an expired watchdog, a WRITE without access, striping over two rails, RC and UC, RNR limits 1 and infinite | `AccountsExact`, `OkMeansDelivered`, `WindowCoversPosts`, `ImplementsChannel` |
| `native_qp_live` | 4 scenarios on one rail with a loss, a failure or a missing receive, fair | `EveryPostSettles` |
| `native_read` | 12 scenarios of one to three reads of up to two fragments: lost requests, fragments, status frames and READ_ACKs, a memory that changes, timers that expire early, a full path, a failing path, a denied read, destroys of both ends; 2 slots, 2 retries, fair | `OkMeansRead`, `AccountsExact`, `ReadsSettle`, `CleanRuns`, `DestroyTerminates` |
| `apple_qp` | 11 scenarios: two sends with a timeout, one after the other, pipelined with and without limits, or with delayed completions; the watchdog, quarantine and a successor, with and without a peer still talking; modify out of RTS and back against removal and exit; the peer's stream over a modify; messages too long for a slot or a receive; fair | `PathHasOneOwner`, `FreedQpQuiet`, `OkMeansSent`, `RxExact`, `TimeoutStopsAdmission`, `DestroyTerminates`, `SendsComplete` |
| `rail_life` | 7 scenarios: two lanes with a pinned queue pair unplugged and unplug against module exit with a failing registration, both with an application that destroys its queue pair; a RoCE netdev that comes and goes; an Apple rail whose ThunderboltIP path comes and goes; fair | `RailRefsSafe`, `DevicesFollowRails`, `NetdevReleased`, `ReadyIsPublished`, `TeardownTerminates` |
| `tbnet` | 3 scenarios: two LOGINs and two LOGOUTs, lost responses and a path that fails; ARP traffic over a LOGOUT; ARP traffic while the address comes and goes; removal at any time, one retry, one transmit frame, fair | `PathBalanced`, `StateConverges`, `WorksQuiet`, `LoginLeadsToPath` |

Accounting and ordering properties are conjunctions of named parts, each with its own
comment in the module; they include the module's type invariant:

* `PathTx`: `CountersExact` is `InflightAccounting`, `StagingConservation`, `QueueBound`
  and `CreditConservation`; `QuiescedIsQuiet` is `RetiredIsQuiet` (the drain) and
  `QuarantinedIsQuiet` (the barrier).
* `NativeQp`: `AccountsExact` is `TxPendingExact`, `SlotsExact` and `RecvsConserved`.
* `NativeRead`: `AccountsExact` is `SlotsExact` and `RefsExact`; `OkMeansRead` is
  `OneSnapshot` and `OkInOrder`; `CleanRuns` says that losses within the retry budget
  leave both queue pairs up (`CleanStaysUp`) and every read successful (`ReadsSucceed`).
* `AppleQp`: `PathHasOneOwner` is `OneEpochOnPath`, `UnboundPathEmpty` and
  `OneMessageAtATime`; `RxExact` is `RxWhole` and `RxOrder`. That the sends on a path
  were posted in its epoch (the second half of `OneEpochOnPath`) and
  `TimeoutStopsAdmission` are claimed where no quiesce gives up waiting for references
  (`deadline`); the latter also where no queue pair is taken out of ERR with its old
  binding (`recycle`), since both then use one epoch for two connections.
* `RailLife`: `RailRefsSafe` is `RefsExact` and `SafeToFree`; `DevicesFollowRails` is
  `DeviceHasRail` and `NoDeviceAfterStop`; `TeardownTerminates` is `RemovalTerminates`
  and `ExitTerminates`.
* `TbNet`: `PathBalanced` is `RingsBalanced`, `HopsBalanced` and `TxInflightExact`.

Two runs end in a counterexample; each is a place where the code and what the
repository says about it part:

* `native_qp_reap` - a send whose retries are used up is at the head of
  `pending_sends` when the next one is already acknowledged. The scan makes the
  head ready and drains both; the cursor that `list_for_each_entry_safe()` saved
  is the second one, now on `completed_sends`, and the scan goes on along that
  list, past its head, with `tqp->lock` held.
* `rail_life_cross` - a queue pair may be pinned to another lane than the one of its
  device. Removal of that lane unregisters only its own device, so nobody destroys
  the queue pair, and the removal waits for it without a deadline (`peer.c:343`),
  although the comment above it counts on the `destroy_qp` callbacks of
  `ib_unregister_device()`. `WaitTerminates` says that this last wait ends. The same
  comments (`peer.c:320-322`) say that `ib_unregister_device()` "drives destroy_qp for
  every QP on this rail"; for the queue pairs of applications it does not, so a removal
  can also wait in `ib_unregister_device()` itself, for as long as the application
  keeps a queue pair of the rail's own device.

### Known limits

TLC also finds the following when a bound or a condition of a run is relaxed. They are
kept out of the runs, each by the restriction named, and listed with their hazards in
`PROJECT.json`:

* A frame that the ring refused with `-ENOMEM` goes back to the queue of a path that
  was closed meanwhile (`path.c:2842` tests the path's state, not `tx_closed`),
  survives the cancel and the barrier and is sent for the rail's next owner. The
  Apple rail of `path_tx` has `refuses = FALSE`.
* With two rails on a link an answer that comes after its timeout completes the
  HELLO of the other rail (`exchange_once()` compares the operation, not the
  `rail_id`), and the HELLO that is then repeated refills the credit window after
  data has been sent. `native_control` has one rail and no late answer
  (`MaxLate = 0`).
* A HELLO that finds a rail between its listing and its rings is answered with no
  transmit path; the asker is negotiated without a path and neither end sends
  another HELLO. `RailsComeUp` exempts it (`NegotiatedWithPath`).
* The Apple send path hands an entry to the SQ worker after the list has got the
  only reference, and the worker takes its own after the entry has left the queue: a
  flush in between frees the context (`ibdev.c:7545`). `AppleQp` sets `freed` and
  stops there; its properties are about what is reached before.
* The watchdog has decided to quiesce the rail, a destroy quiesces and quarantines it
  first, and the watchdog's quiesce then finds it without an owner. It leaves the state
  QUARANTINED, so a queue pair that goes to RTR meanwhile lifts the quarantine, reopens
  the path (the quiesce does not close it again) and is bound while the old quiesce goes on to cancel and to stop the ring,
  although its first step is to close "admission and successor binding" (`ibdev.c:3481`,
  `tbv.h:1021`). The scenarios of `apple_qp` with two queue pairs contain it, and
  `PathHasOneOwner` holds even so: the successor may lose frames of its own, but gets none
  of its predecessor's.
* RTR after ERR without a RESET between keeps the old binding (`recycle`, one scenario of
  `apple_qp`).
* `tbv_ibdev_quiesce_all_rails()` takes a reference with `refcount_inc()` on any
  listed rail, also on one whose count has just reached zero (`late` in `RailLife`,
  `FALSE` in the scenarios).
* When a flush falls between the queueing of a READ and the refusal of its request,
  the context is put twice (`ibdev.c:5838`). Scenarios of `native_read` have
  either a refusal or a flush from another thread.
* A READ response that is repeated is not acknowledged while its read waits for an
  earlier one, so with a lost READ_ACK and two reads the responder can use up its
  retries (`CleanStaysUp` says so); the data has arrived by then.
* `lookup_proxy_ipv4()` stores the address it found after it has released RTNL
  (`tbnet_minimal.c:781`): when the address is removed in between, the identity keeps
  a proxied address the host no longer has until the next netdev event. No property
  of `tbnet` is about the address.
* `rx_work` of the ThunderboltIP session can be queued by the ring until the ring is
  stopped, which is after its cancellation (`WorksQuiet` excludes it).

### Why the bounds are enough

Path instances have fewer staging frames, queue slots and credits than the
frames that want them, so every limit is reached and every wait is entered.
Two threads about to schedule are enough for a wakeup to be lost between an
exit and an entry; two callbacks for one to overtake the other. A raw stream is
a header and one page, the shortest one another frame can break. For the
credits the constants are scaled from 4096/256/256; what matters is the order
of window, batch and group and whether the window is a multiple of the batch,
and `PathCreditProofs` covers all values. On the control side one rail per link
covers everything but the sharing of `control_lock` and of the response slot. A run
of the safety properties with two rails has 6.2 million states and also passes; it is
not kept as a configuration because of its length, and the proofs cover any number of
rails, late answers and slow probes for all but `NoRefillInUse`, which holds until an
answer comes after its timeout. `GroupIsSent` holds
while nothing is lost: the credits of a lost data or PATH_CREDIT frame come back
only with a new HELLO, so enough losses stop the path.

The PSN of the queue-pair runs starts at 7 of 8, so it wraps with the second
request. Window, ACK history and deepest send queue have two places each, equal
to one another as in the code (`TBV_IBDEV_MAX_QP_WR`); three requests are one
more than they hold. `RoCap` is smaller than what two messages of two fragments
need. One retry is enough for a retransmission to meet a late ACK, a second
loss is not needed for the order of things. The budgets are per scenario and
named (`lost`, `fails`, `recvs`, `shorts`, `expires`). Two properties are
conditional. `WindowCoversPosts` is about RC: a UC send gives its slot
back when its frames have left, so a UC sender can run ahead of the window. The
channel orders the successes of an RC queue pair with one rail: with two, the
receive contexts of both rails complete what they took off the list without the
lock and can overtake each other, although `tbv_send_tx_done()` speaks of
completion in PSN order (`ibdev.c:4203`).

A READ of two fragments has a gap, a repetition and a fragment after the gap; two
reads have an order and share the send queue of two, a third finds it full. Two
retries (three in the code) are one that is used and one that is left. Timers of
`native_read` expire when nothing can answer any more, and `slow` times while an
answer is under way.

Apple sends are of one and two frames with groups of one, so the worker waits within
a message; the window is one message, or two when pipelined. Two queue pairs, two epochs and
one stall are an owner, its quarantine and its successor. A receive slot takes two
frames and the peer's messages have up to three. A removal needs one rail, a pinned
queue pair of a foreign device two. The session of `tbnet` has one transmit frame, so
that the ring is full with one frame in flight, and one path number, so that a path
that is still held is met again.

Deadlock checking is off where the system may stop: Apple paths may stay
quarantined when the barrier fails, messages posted once are done, a link
is quiet once its rails are up or have used up their attempts, a queue pair
once its requests are complete or it is destroyed, a rail once it is removed or
published and undisturbed, and a session once it is connected, out of retries or
freed.

### Fairness

Weak fairness only, on steps that a running thread or the hardware will take:
a thread inside `schedule_tx()` or about to call it goes on, callbacks that
have begun end, the NHI consumes descriptors and completes them, the receiver
of a data frame reposts it and returns credits, works that are scheduled run,
messages are delivered, requests end in an answer or a timeout, a probe that
has begun ends. For the queue pair: the posting thread goes on, the paths and
rings complete what they hold, frames on the wire are received, the timeout work
runs while a timer is armed and its expiry would be acted on, and a context that
took sends off the list completes them; losses, failures and the peer's receives
are owed nothing. For READs: what was posted is sent, frames arrive, queued works and
timers that are armed run, and a destroy that timed out is called again, as the verbs
core does. For the Apple queue pair: works, timers and system calls under way run on
and a failed destroy is repeated, but the NHI need never complete another descriptor
and the peer never send another frame - `DestroyTerminates` and `SendsComplete` hold
without them. For rails: threads, works and a removal that was begun run on; an
application destroys its queue pairs only in the scenarios that say so (`appExits`),
which are those of `rail_life` where a rail with a queue pair is removed, and nothing
else destroys them. For the
ThunderboltIP session: queued works run, a request is answered or times out, the NHI
sends, a removal goes on. Nothing obliges a verbs user to post or cancel. A poster that
has a reservation uses it or releases it: the code does one of these on every
path out of the function that reserved. Liveness of the control protocol also
needs a timing assumption, `MaxEarly`: an end whose tunnel is up does not use
up its READY attempts (10 by default, 200 ms apart, each waiting up to a
second) before the peer's tunnel is up. The run needs
`ReadyRetries > MaxEarly + 1 + MaxLost`: one attempt can meet a handler that
read the tunnel state just before it came up.

## 4. What is proved

`PathCreditProofs` proves about `PathCredit`, for every ring size, reserve,
batch and group bound (positive naturals) and any number of losses:

* `TypeCorrect` - the counters stay in their ranges; in particular the clamp of
  `tbv_path_add_remote_rx_credits()` never takes effect;
* `CreditsConserved` - the credits at all places add up to the window;
* `RingNeverOverrun` - data frames on their way to and in the receive ring never
  outnumber what the ring has beside the control reserve (rings no larger than
  the reserve are included, with the window the code computes for them);
* `CreditsNeverStall` - if the ring holds the reserve and two batches, the
  credits kept back by the receiver never keep the sender from starting a group.

The inductive invariant is `TypeOK /\ CreditConservation /\
PendingBelowThreshold`. Conservation alone is not inductive: the clamp keeps
the sum only if the type invariant is known to hold before it, and stall
freedom needs that the receiver's collection is below one batch after each
step. `WindowFacts` and `TwoBatches` are the arithmetic of the rounding:
the window is at least one, at most the ring less the reserve, and not below
two batches when the ring is not.

`NativeControlProofs` proves about `NativeControl`, for any number of rails and
any limits of retries, losses, late answers and tunnel failures (a link has two
nodes; the retry limits are positive):

* `TypeCorrect` - in particular the attempt counters never pass their limits;
* `ReadyRailsArePublished` - a data-ready rail is published, or the work is at one
  of its two publishing steps;
* `RemoteReadinessIsTrue` - an end that believes its peer ready is right about the
  peer's tunnel;
* `PublishedRailsWork` - a published rail is data-ready and has a tunnel on both
  ends;
* `NoRefillInUseThm` - until an answer comes after its timeout, no step sets up the
  data credits of a rail that has charged frames against them.

The first three properties are not inductive. What carries them through messages,
responses and the handler is added to the invariant: a READY or READY_ACK on its
way comes from an end with a tunnel (`ReadyHasTunnel`), so does a READY_ACK that
waits to be consumed (`AckHasTunnel`), and so did the READY a handler is working
on, which also acknowledges only if it saw its own tunnel up (`HandlerKnows`);
the work runs only on a rail that was queued, and past its tunnel it has one
(`WorkKnows`) - this is what makes the reset of the READY flags in
`queue_rail()` harmless. Tunnels never go down in the model, so these facts are
stable. Each action has a lemma of its own; what entering a phase, failing,
unlocking, publishing, sending and consuming a message do is stated once.

`NoRefillInUse` speaks about a step and needs to know that no READY or READY_ACK is left
over when a rail comes into use. `ExchInv` adds that: a node that asked is in one of five
stages (nothing asked, request under way, peer working on it, answer under way, answer
waiting for its waiter), and while no answer came late its messages and the peer's
handler are exactly those of the stage (`OneExchange`), so a node has at most one
exchange; the link's lock is held while one is awaited, a rail is used only when
published, and HELLOs end before the tunnel (`StagesOK`).

`PathTxProofs` proves about `PathTx`, for any set of rails (any messages and frame
shapes, ring and queue sizes, credit windows, rings that refuse and rings that do
not):

* `PathTxInvariant` - the inductive invariant below;
* `CountersExactThm` - `tx_inflight`, the free staging frames and the credits each
  count what they stand for, data leaves the control reserve alone, and queue and
  reservations stay within the limit, in every interleaving of posters, scheduler,
  callbacks and cancellation;
* `DmaKeepsOwnerThm` - a packet whose descriptor is in the ring is never finished;
* `WireOrderThm` - ring, scheduler and queue, read in this order, are in the order of
  acceptance, also after a refused frame was put back at the head;
* `RawStreamUnbrokenThm` - after the header of a page stream the ring gets nothing but
  its pages until the last one;
* `RetiredIsQuietThm` - `tbv_path_tx_retired()` holds only when no packet can reach
  the wire;
* `QuiescedIsQuietThm` - so does the verdict of the forced barrier, under
  `NoLateRequeue`: the ring of a rail that is quiesced does not answer `-ENOMEM`. The
  hypothesis is necessary: `tbv_path_schedule_tx()` puts a refused frame back at the
  head of a queue that the cancel has already emptied.

The invariant `Inv` has three layers. Places: a packet is in exactly one of queue,
scheduler, ring and callback, no sequence repeats one, and `pst` says which
(`QueuesOK`, `RingOK`, `SchedOK`, `HoldsOK`). Order: everything on the path was
accepted (`OrderOK`), and of two data packets the one ahead on the path was accepted
first (`InOrder`). `WireOrder` compares whole sequences and is not inductive; `InOrder`
relates pairs, which is what appending, taking the head, putting it back and cancelling
from the middle preserve, and `WireOrder` follows from it because a sequence without
repetition is determined by its elements and their order. Counts: the four accountings
and `RoomOK`, which keeps a place free for the frame a refusal would put back; without
it the bound of the queue is not inductive. `QuiesceOK` adds what the quiesce has
already achieved. `StreamOK` says who keeps the path to a page stream: while the stream
is on the wire `tx_raw_stream_owner` is its owner, its end was not seen, its last page
is not yet submitted, the packet in the scheduler's hand is one of its pages, and the
state a refusal would put back is that of the same stream; a header in hand with all its
pages queued finds no other stream on the wire. Three facts about the posted messages
are part of `IsRail` because the entry points establish them: the fragments of a message
are finite in number, control frames are posted by the control entry points only, and
raw frames only by `tbv_path_send_page_stream()`, which posts a header and at least one
page, on native rails (native rails are not quiesced).

`TbNetProofs` proves about `TbNet`, for any bounds and any paths a peer may announce:

* `RingsAndFrames` - ring starts and stops balance and `tx_inflight` counts the frames
  in flight;
* `StateConvergesThm` - `PACKET_PATH_ACTIVE` disagrees with `path_enabled` only while a
  work or the removal is about to recompute it;
* `WorksQuietThm` - once cancelled, login, connected, disconnect and transmit works
  stay idle until the session is freed;
* `PathBalancedThm` - HopIDs and programmed paths balance as well, under `SteadyPeer`:
  the peer announces one path. `teardown_path()` frees by
  `session->remote_transmit_path`, which a second login with another path overwrites
  while the first is programmed, so without the hypothesis the theorem is false.

The invariant joins where each thread may stand (`PcOK`), how flags and resources
follow from it (`FlagsAgree`), that a cancelled work is never queued again
(`CancelledStay`), and that a programmed path is the announced one (`PathKnown`).

`RailLifeProofs` proves about `RailLife`, for any rails, queue pairs and scenarios that
satisfy `NotLate` (the exit's scan does not take a rail whose last reference is being
dropped; `tbv_ibdev_quiesce_all_rails()` leaves that window open, see *Known limits*):

* `RailRefsSafeThm` - `refs` counts the users of a rail, and the rail is freed after the
  last of them;
* `DevicesFollowRailsThm` - an `ib_device` never outlives its rail, and none is left or
  registered once registration was stopped;
* `NetdevReleasedThm` - no device stays attached to a netdev that is gone once the
  notifier has run.

The invariant says what each thread holds at each step (`ThreadsOK`, `UsersOK`,
`LockOK`), that an unlisted rail is reachable only through a reference (`ListedOK`),
that the count is the cardinality of the set of users (`RefsExact`, which needs the
users to be known as a set, not a number), and how a device's registration follows
rail, exit and netdev (`DevOK`, `StagesOK`, `NetOK`).

`NativeReadProofs` proves about `NativeRead`, for any reads, fragments, queue depths,
retry limits and scenarios of loss, delay, refusal, writes and destruction:

* `AccountsExactThm` - `sendq_count` is the number of reads posted and not completed or
  reaped, and every reference on a read, a response or a queue pair has its holder, so a
  queue pair is gone only when nobody uses it;
* `OkMeansReadThm` - a read that succeeds holds all its fragments, of one state of the
  peer's memory no older than the post, and every read before it is settled or in the
  hands of the timeout work.

Both are under `RefusedInTime`: the path does not refuse the request of a read that a
flush has taken off the list between `tbv_qp_queue_read()` and the refusal. The accounts
need it (in that case the code puts a reference twice, see *Known limits*); for the
results it is the price of using the accounts.

The accounts follow from `Inv`: the types of everything, the frames under way included
(`EnvTypes`, `ATypes`, `BTypes`); reads are posted one by one and the one in the
poster's hands was not sent (`PostOK`); a slot is held as long as the read is pending
(`SlotOK`); the responder's timer has what it took, within the retries, and a response
is listed by its work only (`TimerOK`); no request is worked on before its turn, so a
work is queued once (`TurnOK`); a queue pair is destroyed once (`GoneOK`); and what is
requested has a length in the scenario (`LenOK`). Each count is proved by moving one
set: a step that changes reads or responses pointwise changes the cardinalities by those
that lost their last reference. The results need `ReturnOK` as well: nothing happens to a
read before its post (`UnpostedOK`, `ReqOK`); a response that is referenced has its
snapshot, taken once and between post and now (`VerOK`); a data frame under way carries
the snapshot of its read and a status frame reports success of empty reads only
(`FramesOK`); every fragment copied or buffered out of order is of that snapshot
(`CopiesOK`); and a read is marked successful when the fragments in front of the first
gap are all of them (`ResultOK`), which is where the drain of the reordered fragments,
`Contiguous`, is reasoned about.

`AppleQpProofs` proves about `AppleQp`, for any module parameters and bounds, work
requests, queue pairs and scenarios:

* `PathHasOneOwnerThm` - the path of an unbound rail is empty; that of a bound one holds
  frames of the binding's epoch, of sends posted in it, and, without `apple_tx_pipeline`,
  of one unfinished message; slots, window and remaining frames stay in their ranges;
* `FreedQpQuietThm` - a queue pair that is freed has no context, entry, frame, work or
  timer left, and its rail is unbound;
* `RxExactThm` - receives hold whole messages, in their order (below);
* `OkMeansSentThm` (in `AppleQpOkProofs`) - a send that is reported as successful had all
  its frames transmitted, none is reported twice, and successes come in the order of the
  posts unless completions are delayed (below).

The loops over lists are instances of `SeqLoop`, and each has an induction lemma: if every
iteration leads from a state in `J[k - 1]` to one in `J[k]`, the loop ends in `J[n]`
(`KeepingRun`, `FramesRun`, ...), and a set of states that no iteration leaves is not left
by the loop (`FramesStays`, ...). They need no induction theorem with an operator as
parameter: the iterations that are not in their set have a first one, by the least-number
principle (`Least`), which follows from the well-foundedness of `<`. `LoopExists` and
`LoopLeads` do this once, for a loop whose iterations are given as a function.

The send side's invariant `AppleInv` has layers, each preserved with those before it. The
rail (`RailInv`): its owner and epoch are those of the queue pair that is bound, a quiesce
that has an owner keeps the path closed and the queue pair out of the transport states,
and each step of a destroy or modify finds the queue pair in the states it can be in. Ownership (`OwnInv`, `DestroyInv`): everything in the send
record is of the present queue pair, and what a step of a destroy has emptied - worker,
lists and timer, queue, ring - stays empty; this is what makes `FreedQpQuiet` inductive,
since a destroy is one of four steps when a post or a completion falls in. Accounts
(`SendInv`): `apple_sq_outstanding` and the window count the sends that hold them, a send
has at least as many frames left as are queued, in the ring and not yet posted by the
worker, and sends go from the send queue to the worker in their order; without the order
the worker could meet a send whose frames it has already posted. The path (`PathInv`): its frames are of the binding's
epoch, and a quiesce that has cancelled and stopped leaves nothing behind. And the epochs
of the sends themselves (`EpochInv`), which hold while no quiesce ran into its deadline:
a send that is held by anything was posted in the epoch the queue pair has now, and
unbinding leaves no held send except on a stopped, quarantined rail. Completions,
flushes and cancels only take away (`Less`), which is proved once for each loop and
settles most of what they can disturb.

`OkMeansSentThm` rests on two more layers. `FifoInv`: the frames on the path, in the ring
and then queued, are in the order of their sends, and before those of a send the worker has
not begun. `OkInv`: a send on the list that is not ready waits for exactly its frames in
queue and ring and those the worker still owes, and the rest were transmitted; what is
marked successful has none left; the list is in order, behind everything reported as
successful (`ListT`); and a send is in the completion queue once, after it was done (`CqT`). `AppleInv` bounds the frames of a send,
which is enough for its destruction; for a success they have to be counted exactly, and
the successes are in order because the last frame of a send leaves after all frames of the
sends before it. TLC finds both layers invariant in the scenarios of `apple_qp` as well.

`RxExactThm` says that, for any stream of messages of one
frame or more (`PeerAssumption`), any number and size of slots and receives, and every
order of the handler's steps with binding, modify, destroy, the timeout work, the
watchdog and the quiesce, a receive completed without error holds one whole message
unless that message was cut, and receives are completed in the order of the messages.
A message is cut where one of its frames was dropped (no bound queue pair, a retiring or
quarantined rail) or a flush fell into it. The invariant `RxInv` looks at the frame `n`
of the stream that the handler has before it, in its hands or not. The completed
receives and the ready slots form one list, of which the drain only moves the border
(`Same`): each of them is whole or cut, they are in order and before `n` (`SlotsOK`). The
active slot comes after them and holds the message of `n` exactly up to `n`, unless it
is broken or cut (`ActOK`). And a message that was begun has its frames in the active
slot, is discarded to its end, or is cut (`MidOK`): without it the last frame of a
message whose start found no slot would pass for a message of its own.

Only model-checked: liveness (`QueueDrains`, `GroupIsSent`, `RailsComeUp`,
`EveryPostSettles`, `ReadsSettle`, `CleanRuns`, `SendsComplete`, `DestroyTerminates`,
`ReadyIsPublished` of `RailLife`, `TeardownTerminates`, `LoginLeadsToPath`), which needs
fairness and is beyond the prover; the properties of `NativeQp` (its refinement of
`QpChannel` included); `TimeoutStopsAdmission` of `AppleQp`, which needs to know where every expired send is. `NativeQp`
writes its flushes, acknowledgements and retransmissions with the folds and selections of
the community modules; what those compute is an induction over the list with the
operation as a parameter, which the installed provers cannot instantiate. Its loops would
have to be instances of `SeqLoop`, as those of `AppleTx` are.

## 5. Not modelled, and the plan

Left out for good: debugfs, tracing and statistics (no effect on behaviour),
the user-space provider (forwards calls), benchmarks, DMA mapping and the
contents of buffers, ring registers and throttling. The reliability reference
(`proto/reliability.c`) is left out because the driver calls only its interval
conversions; its state machines run in unit tests alone. Configuration
(`configfs.c`, `profile.c`, `proto/config.c`) is resolved before anything runs.

Of the parts that are modelled, not yet: zero-copy posts, completion queues at their
limit, the GSI queue pair and its MADs, memory registration against its users, READs
between SENDs and WRITEs; reassembly of raw payload at the receiver and the
supplemental polls; peer objects, the choice of lanes and the XDomain directories; the
address mirror of the stock ThunderboltIP driver; the raw variant of the Apple send
worker.

Next are `TimeoutStopsAdmission` of `AppleQp`, on top of `AppleInv`, and `NativeQp` with
its loops as instances of `SeqLoop`: `RecvsConserved` and `SlotsExact` first, then the
refinement of `QpChannel`.
