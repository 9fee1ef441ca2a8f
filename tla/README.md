# Verification of the AZLinux DVB driver package

The repository packages the Linux driver of the Azurewave/Twinhan (Mantis) DVB
cards, version 1.4.2, with the v4l-dvb kernel tree it lives in
(`src/linuxdriver`), the user-space tools and libraries (`src/dvb-apps-*`) and
the installation scripts.  What every card and every tool depends on is the DVB
core, `src/linuxdriver/linux/drivers/media/dvb/dvb-core`: ring buffers, the
software demultiplexer, the demux device, the CI (common interface) stack and
the frontend thread.  This project models that core and the DMA path of the
Mantis card (`dvb/mantis`), checks them with TLC and proves parts with TLAPS.
File names below are of the files in those two directories.

`PROJECT.json` lists components, runs, mutants, the map from definitions to
source lines, findings, hazards and theorems.

## Inventory

| component | state | operations | interacts with | what is hard | what makes it correct |
|---|---|---|---|---|---|
| `dvb_ringbuffer` (bytes) | array, `pread`, `pwrite`, `error` | init, empty, free, avail, flush, read, write | interrupt-side writer, process-side reader | no lock, wrap-around, one slot that stays empty | it is a bounded FIFO; no byte visible before stored or overwritten before read |
| `dvb_ringbuffer` (packets) | the same, with headers in the array | pkt_write, pkt_next, pkt_read, pkt_dispose | CA thread writes, `io_read` walks | disposal out of order, unsigned arithmetic modulo a size that does not divide the word | the walk meets every packet, whole; space comes back |
| `dvb_demux`: section assembly | per feed `secbuf_base`, `tsfeedp`, `secbufp`, `pusi_seen`, `cc` | section_packet, copy_dump, section_new, start/stop filtering | called from the card's DMA tasklet, calls `dmxdev` | sections cut at every offset; lost, repeated, empty packets; restart in mid-section | only whole sections, in order, none lost |
| `dvb_demux`: synchronisation | `tsbuf`, `tsbufp` | swfilter, swfilter_204 | fed by DMA in chunks of any size | a packet spread over several chunks, emulated sync bytes | the cut does not depend on the chunks |
| `dvb_demux`: feeds and filters | tables of feeds and filters, `pesfilter`, frontend list, the card's feed count | allocate, set, start, stop, release; dispatch by PID | `dmxdev` above, card below | partial failure, stale entries, DVR de-duplication | every feed and filter has an owner and is released once; the card streams exactly while somebody listens |
| `dmxdev`: data path | filter's ring, `error`, `state`, timer, `todo`, `secheader` | section callback, timeout, read_sec, buffer_read | tasklet, timer, process | overflow flushes the ring under an unlocked reader, timeout races data | one section per read; no lost wake-up |
| `dmxdev`: life cycle | filter states, device mutexes, shared feeds, DVR | open, set, start, stop, restart, poll, buffer size, release | user processes | shared feeds restarted, late timers, sleeping with a mutex held | a started filter is served, nothing is leaked or used when freed, calls return |
| `dvb_ca_en50221`: slot | `slot_state`, `camchange_count`/`type`, `exit`/`open`/`wakeup` | kernel thread, camchange/camready/frda interrupts, open, release, CA_RESET, write, release of the driver | CAM hardware, CI stack in user space | removal and reset at any step, no locks, bit fields of one word | a working CAM gets running, a removed one is noticed, resets and changes are not lost |
| `dvb_ca_en50221`: receive path | `rx_buffer` per slot, `next_read_slot` | read_data, io_read_condition, io_read, io_poll, open, release, CA_RESET | thread and process | fragments of connections and slots interleaved; CAMs changed and the device closed in mid-message | one whole message per read, every slot served, poll tells the truth |
| `dvb_frontend` | tuning state, zig-zag position, inversion, thread and `exit`, semaphore, event queue | thread (software zig-zag and hardware algorithm), ioctls, get_event, open, release, reinitialise, unregister | tuner drivers, one or more processes | a request while the thread tunes, sleeps or exits; a semaphore given up in mid-call; event overflow | a request is always taken up, a signal within reach is found, a reported lock is that of the request, events are exact |
| `mantis` | DMA program and position, `last_block`, `finished_block`, interrupt status and mask | card, interrupt, DMA tasklet, start, stop, removal, I2C transfers | `dvb_demux` above | no word from the card but two interrupts a lap; registers shared with I2C; a tasklet that outlives its stop | blocks handed on once, in order, before they are overwritten; the stream goes on |
| `libdvben50221` | transport and session tables | polls, sends, callbacks | `/dev/ca` | timeouts, slots that disappear | not modelled |
| `dvb_net`, `dvbdev`, `dvb_filter`, `dvb_math`, tuner chips, other bridges, `libucsi`, `libdvbapi`, `libdvbsec`, `libdvbcfg`, utilities, scripts | | | | | listed in `PROJECT.json` with the reason they are left out |

How the parts meet: the card's DMA tasklet hands chunks of the stream to
`dvb_dmx_swfilter` (TsResync), which hands packets to the feeds; a section feed
assembles sections (SectionDemux) and calls `dvb_dmxdev_section_callback`, which
stores them in the filter's ring (DvbRingbuffer) for a process that reads
(DmxdevRead).  MantisDma is the card, interrupt and tasklet in front of this chain;
DmxdevLife, over DemuxFeeds, is what processes do to set the chain up and take it
down.  FrontendThread tunes the card.  Beside it a kernel thread runs the CI slots (CaThread), puts the
CAM's fragments into packet rings (RingbufferPkt) and a process reads them
(CaRead).

## Modules

| module | models | notes |
|---|---|---|
| `RingOps` | the index arithmetic of `dvb_ringbuffer.c` | shared by the three users of the ring |
| `DvbRingbuffer` | `dvb_ringbuffer_read`, `_write`, `_flush` | one writer, one reader, copies byte by byte; `-EFAULT` in mid-copy |
| `ByteQueue` | abstract: a bounded FIFO | `DvbRingbuffer` implements it (`IsByteQueue`, proved) |
| `RingbufferPkt` | the packet calls | a step per header cell and per copy written; ring walk and disposal one step each, also in the middle of a write |
| `TsResync` | `dvb_dmx_swfilter`, `_204` | one action per branch of the loop; `Unit` 188 or 204, `Pass` 188 |
| `SectionDemux` | section assembly | with an external multiplexer that packs sections as ISO 13818-1 says, and so sends no malformed pointer field (`PointerOK` is tested all the same) |
| `DmxdevRead` | data path of a section filter | callback, which tests `buffer.error` before it takes `dev->lock`; timer; reader without the lock |
| `CaThread` | one CI slot | thread, interrupts, one process |
| `CaRead` | receive path of one or two slots, poll, CA_RESET, open and close | `rx_buffer` is the sequence of packets RingbufferPkt shows it to be, `astray` apart |
| `DemuxFeeds` | the calls of `dvb_demux.c` on feeds, filters and `pesfilter`, the card's start_feed and stop_feed, dispatch by PID | operators on a record of the demux (tables, decoder streams, users), no state of its own |
| `DmxdevLife` | life cycle of the demux and DVR devices, composed with DemuxFeeds | one process per filter, its calls in the steps at which it takes a mutex, drops one or sleeps; timer and packets in between |
| `MantisDma` | `mantis_dma.c`, the interrupt, start, stop, removal, I2C as far as it touches the interrupt registers | the card's own buffer of 64 KiB, line by line; the RISC program is computed as in the source |
| `FrontendThread` | `dvb_frontend.c` | thread, processes, event queue; the demodulator is external: it locks where drift and inversion fit |
| `*Proofs` | theorems about the module of that name, with their proofs | eight modules; `DvbDemuxProofs` is about `TsResync` and `SectionDemux`, `CaReadProofs` also about `RingbufferPkt`; see *Proofs* |
| `MC*` | instances for TLC | |

State keeps the code's names.  A step is one access to state that another actor
can see; code under a lock that the other side takes too is one step.  Data is
reduced to what the properties tell apart: a stream byte is its position, a
section byte is (section, offset, length), a fragment is (connection, message,
number, last).  Where bytes that are no header are read as one, the length they
spell is a parameter (`garble`, `Garble`).

Several modules choose in `Init` the kind of system they are going to be
(`events`, `mode`, `setup`): one run then covers several configurations, and
properties that only hold for some of them say so in their antecedent.  Where
the code has a window in which a property fails, the step that enters it sets a
flag of the history variable `past`, the property is claimed while the flag is
not set, and the window is described under *Limits of the code*: the run then
shows that nothing else leads there.

## Runs

None of the runs checks for deadlock: the streams, changes, resets and calls are
bounded, so all behaviours of the models end (and a process may stop calling).
That nobody waits for ever is stated as liveness instead.

Two runs put two modules side by side that share no state: `demux_path` has a variable
`stage` and `ca_thread` a variable `level`, chosen at the start, and only the module it
names moves.  The state space is the sum of the two, and fairness is that of the module
that moves.

| run | instance | shows |
|---|---|---|
| `ring_spsc` | array of 5, transfers of 1..4, 12 bytes | indices and contents right in every interleaving, and the ring is a FIFO of 4.  Every wrap position occurs for reads and writes |
| `demux_path`, packets | unit 3, pass 2, chunks 1..7, 11 bytes, every set of emulated sync bytes, every lead-in | packets independent of chunking; sync kept.  A chunk holds up to two packets and a remainder, a packet spreads over up to three chunks |
| `demux_path`, sections | payload 3 or 5, sections 3 or 7, at most two beginning in a packet, buffer 7+5+4, counter modulo 3, 3 sections | buffer never overrun, no garbage, order, nothing lost.  Two sets of disturbances: loss, discontinuity and restarts; loss, duplicates and empty packets |
| `section_restart` | a card that does not clear `pusi_seen` | *violation* |
| `dmxdev_read` | ring 7, header 2, sections 3 and 5, reads of 1, 3, 9, 3 sections, three positions at which the ring stands | bookkeeping of `read_sec`, coherence after overflow, no storing after the end, no lost wake-up, in three modes |
| `dmxdev_life` | three filters, two feeds, two section filters, two PIDs; modes with too few feeds, no memory, timers, decoder streams, DVR, signals | a started filter is served by a feed of its PID, nothing leaks, callbacks and NULL pointers are safe, the card streams exactly while a feed is started, one owner per decoder stream, one copy per packet to the DVR, a closed filter is free, calls return |
| `mantis_dma` | the real buffer, latency up to 13 lines, two starts, I2C | order, no block lost or handed on twice, at most one lap of old blocks after a start, no use after free; delivery goes on, also with I2C transfers unless their page writes clear one report after the other for ever |
| `ca_thread`, slot | one slot; up to 4 changes, 2 resets; five modes | changes, resets, insertion, removal, unloading |
| `ca_thread`, cells of `rx_buffer` | array of 15, word of 256, payload 2..6, 6 packets | with a reader that runs in the middle of writes: no packet overlooked, nothing met but packets and the one being written, space given back, until the reader is `astray`.  256 % 15 = 1 as 2^32 % 65535 = 1 (the size of `rx_buffer` is 65535) |
| `pkt_ring_unlocked` | the same cells | *violation* |
| `ca_read` | one slot with two connections (3 fragments, ring of 4); one or two slots with polling, with slots going down, with closing; two slots of which one has a second connection | whole messages, damage that ends with the message, the condition's promise, POLLIN kept, no starvation |
| `ca_read_two` | two slots, one with a second connection | *violation* |
| `frontend` | scan of one step either way, step counter modulo 3, twelve modes: plain zig-zag, a lock lost, a card that recovers, DISEQC, reopening, removal, hardware that is not put to sleep (`dvb_shutdown_timeout` 0), the hardware algorithm, events, an emptied queue, two threads on a file, signals | the semaphore is a mutex, the status is that of the last request, slow search only after a full scan, events exact; a request is taken up, a signal is found, stopping ends |
| `frontend_stop` | the same | *violation* |

Bounds.  In the rings every position and every wrap is reached because streams
are longer than twice the array.  In `demux_path` a section fits one packet,
two can begin in one, and one section needs up to three packets; the counter's
modulus is 3 and at most 2 packets are lost in a row, because the counter cannot
see the loss of a full cycle (listed as a hazard).  In `ca_thread` four changes
allow insert, remove, insert, remove with the thread at any of its steps, and
`camchange_count` up to 4 at once.  In `dmxdev_life` the tables are smaller than
the number of filters, so that every allocation can fail after every other one.
In `mantis_dma` the lines are those of the real buffer, in as many laps as one
likes; with a latency of 14 lines `InOrder` fails, so 13 is what the card tolerates:
a block is two lines, and the limit is seven blocks (assumption `MantisLatency`).
In the cells of `ca_thread` payloads of up to 6 cells let the ring become exactly full with the
read index anywhere, which shorter ones do not.
In `frontend` the scan is one step wide on both sides, with and without automatic
inversion, and the queue has 1 to 3 places (`MAX_EVENT` is 8).

Several properties of the runs are conjunctions of named parts: `Accounted`
(`TypeOK`, `NoLeak`, `CardStreams`, `ClosedIsFree`), `PointersSafe`
(`CallbackSafe`, `NoOops`, `StartedHasBuffer`), `StreamsOnce` (`DecoderOwned`,
`DvrOnce`), `HandsOnStream` (`TypeOK`, `InOrder`, `OldOnce`), `ScanComplete`
(`TypeOK`, `SlowAfterAll`), `ThreadObeys` (`RetuneDone`, `StopEnds`),
`ChangesCounted` (`TypeOK`, `NoLostChange`), `RingCoherent` (`TypeOK`,
`Coherent`), `ConditionTrue` (`PromiseKept`, `PollKept`), `WalkRight`
(`PacketMet`, `WalkFindsAll`), `SectionsRight` (`NoGarbage`, `InOrder`).

Each passing property has at least one mutant in `PROJECT.json`, in most cases one
for each part: a plausible slip in the
code (a dropped wake-up, an unclipped copy, `>` for `>=`, a counter reset
instead of decremented) for which TLC reports the property violated.

### Fairness

* `DmxdevRead`: WF of the rest of a callback or timer handler that has begun
  (softirqs run to their end) and of a process that can run.  No fairness for
  the arrival of sections, timeouts, new reads or signals.
* `CaThread`: WF of the thread, of a running interrupt handler and of a system
  call that has begun; WF of the CAM getting ready after a reset (a property of
  the hardware; a `faulty` CAM may still fail all else); SF of the timeout test,
  because `time_after` on a growing `jiffies` is true from some point on, while
  the state machine looks at it again and again.  `ThreadAwake` may be the end
  of the delay, which `wait_event_interruptible_timeout` guarantees.
* `CaRead`: WF of what `read_data` has begun and of a call that has begun; SF of
  a new read, for a process that reads again and again between its other calls.
  Fragments need not arrive, slots need not come up again.
* `DmxdevLife`: WF of a process inside a call, of a reader that can run, and of
  a timer that is armed.  Packets and new calls need not come.
* `MantisDma`: SF of the card's writing a line, because it waits for nobody: that
  interrupt and tasklet follow in time is the meaning of the latency, and a
  guard that holds it back again and again is an artefact of the model.  WF of an
  interrupt that is pending and enabled, of the tasklet and of a call that has
  begun.  I2C transfers need not come or end.
* `FrontendThread`: WF of the thread, to its last wake-up, and of its delay, SF of taking the
  semaphore, whose waiters are served in order of arrival, by the thread and by
  a caller that has begun.  New calls, signals and changes of the signal need
  not come.

### What the CA runs assume

Durations are left out, so a sleep may be over at any time.  In poll mode the
card reports presence and no latched `CAM_CHANGED`.  `MAX_RX_PACKETS_PER_ITERATION`
is 1.  `InsertedRuns` is claimed in interrupt mode on one processor without
CA_RESET: with a reset between WAITREADY and `slot_reset`, the ready interrupt
of the first reset validates a CAM that is resetting (listed as a hazard).
`ResetHonoured` and `NoLostChange` are claimed for interrupt mode.  `write_data`
fails only where CAMs may be faulty.

## Findings

Each is a violation run; the quoted line is in `PROJECT.json`.

1. `section_restart` (`dvb_demux.c:892`): starting a section feed does not clear
   `pusi_seen`.  The comment at 207 relies on it; some cards' hooks do it, the
   Mantis hook does not.
2. `pkt_ring_unlocked` (`dvb_ringbuffer.c:164`): `pkt_write` sets PKT_READY before
   the payload is copied, and publishes a payload that wraps in two parts, so
   `pkt_next` returns a packet that is not all there, although note (2) of
   `dvb_ringbuffer.h:68` says that one reader and one writer need no lock.  The CI
   driver relies on it: its thread writes `rx_buffer` while `io_read` reads.
3. `frontend_stop` (`dvb_frontend.c:604`): `dvb_frontend_stop` waits for
   `thread_pid` 0 "until the frontend thread has exited" (636), but the thread
   clears it before its last `dvb_frontend_wakeup` (607), which uses `fepriv`; an
   unregister in between has freed it.
4. `ca_read_two` (`dvb_ca_en50221.c:1381`): with two slots the read condition
   looks in the second slot for the connection id it met in the first, and
   `io_read` then hits its "BUG: read packet ended before last_fragment".

## Limits of the code

What the models show to be possible, and what the properties therefore exclude.

* `dvb_demux.c:283`: the loss of a multiple of 16 packets is invisible to the
  continuity counter; at most 2 in a row are lost in `demux_path`.
* `dvb_demux.c:311`: a pointer field beyond the packet is ignored, and what is in
  the buffer then goes on with the next packet, so that sections can be joined
  wrongly; only their CRC, which is not modelled, tells.  The model's multiplexer
  sends none.
* `dvb_ringbuffer.c:164` (`astray`): a packet whose payload wraps can be met, read
  and disposed of while it is being written (finding 2).  Disposing of it sends the
  clean-up beyond `pwrite`; the reader is not followed from there on.  `CaRead` stores
  a fragment in one step and so does not see this window: its properties hold when
  reader and thread do not meet inside one fragment.
* `dvb_ringbuffer.c:238` (`astray`): `consumed` is too large by `Word % Size` (1 for
  the 65535 bytes of the CI driver) when `idx` has wrapped and `pread` has not.  A
  payload of two bytes or more makes up for it, except when less than that is free:
  then the end of the ring counts as consumed 0, and `pkt_next` walks on into what
  an earlier lap left there.  `WalkFindsAll` is claimed with `Word % Size` bytes free,
  the other properties until a walk has gone astray.
* `dmxdev.c:84`: a non-blocking read can return half of a section whose second
  half is being stored behind the wrap; a blocking reader meets the same after an
  overflow.  `WholeSections` says in which modes it is claimed.
* `dmxdev.c:389` (`past.late`): `del_timer` does not wait for a handler, so a late
  timeout makes a stopped filter count as started, and its next stop goes through a
  feed it does not have.  `PointersSafe`, `ActiveServed`, `NoLeak`, `CardStreams` and
  `DecoderOwned` are claimed until then.  `feed_restart` also sets a
  filter that is DONE or TIMEDOUT back to GO.
* `dmxdev.c:830`: a read sleeps with the filter's mutex, and a call on that
  filter waits with the device mutex held.
* `dmxdev.c:578`: when the card's start_feed fails, `start_filtering` is undone.  The
  model has this path; the Mantis hook fails only without a frontend, which a
  running demux has, so no run takes it.
* `dmxdev.c:690`: a signal during close loses the filter.
* `dmxdev.c:193`: two processes that write to the DVR device lose the original
  frontend.
* `dvb_demux.c:775` (`past.refused`): releasing a TS feed that was refused clears
  the entry of the decoder stream's owner.  A feed of the whole stream (PID
  0x2000) is called back even when it is not filtering.
* `dvb_ca_en50221.c:1017`: `exit`, `open` and `wakeup` are bit fields of one word
  written without a lock; on several processors an assignment can be lost, and
  the properties that need it say `~mode.smp`.  `release` (1759) frees what an
  interrupt of the card may still use.
* `dvb_ca_en50221.c:1138`, `:1548`: the rx buffer is not flushed for a new CAM and
  is flushed in mid-message on open; one message is damaged (`cut`).  What is
  left when a slot comes up again is only read with the next message
  (`past.left`).  Slots with different connection ids keep each other waiting,
  and a process that polls before each read may be led to one slot only.
* `mantis_i2c.c:60` (`past.eaten`): a page write clears a pending DMA interrupt.
  The blocks then come with the next one, unless that is cleared as well: this is the
  one way delivery can stop (`KeepsDelivering`).
  `mantis_int_stat` is never cleared, so the wait for an acknowledge (39) waits
  for the first one only.  `mantis_dma.c:196`: stop clears the
  pending I2C interrupts too.
* `mantis_core.c:143` (`past.backlog`): the buffer is freed before the tasklet is
  killed.
* `dvb_frontend.c:700` (`past.orphan`): a device opened while the thread exits has
  no thread.  `:193` (`past.doubled`): an interrupted get_event releases a
  semaphore it does not hold.  `:1048` (`past.raced`): open empties the queue
  beside the thread.  `:189` (`past.stale`): two readers woken by one event.
  A DISEQC, tone or voltage command replaces RETUNE (`past.clobbered`), and a
  stop that is interrupted does not wait (`past.hasty`).  The overflow flag survives
  open, and the inversion that is found overwrites INVERSION_AUTO.  After a lost
  lock the fast scan need not be complete, so `SlowAfterAll` speaks of the scan
  since the request.  With `step_size` 0 the counter never wraps.  With
  FE_CAN_RECOVER and `max_drift` 0 a search that has gone slow is left alone.

## Proofs

Eight modules hold theorems; all are checked from nothing by `tlapm`, for every
value of the constants that satisfies the named assumptions of the modules (which
TLC evaluates in each run).  Each has the same shape: the inductive invariant is
defined in the component's module (for `dvb_demux` in the proof module) as a
conjunction of named parts and was checked by TLC first; one lemma per action shows that it is kept, with a step for each
part that the action can disturb; the temporal theorems follow from it.

| module | proved for every instance | property of the runs |
|---|---|---|
| `DvbRingbufferProofs` | `RingInvariant`, `TypeCorrect`, `AccountingHolds`, `ContentsHold`, `ReadsStreamHolds`; the ring implements `ByteQueue`: `RingIsByteQueue` | `TypeOK`, `Accounting`, `Contents`, `ReadsStream`, `IsByteQueue` |
| `DvbDemuxProofs` | `ResyncTypeOK` (`tsbuf` is never overrun), `ResyncInSync`, `ResyncChunking`; `SectionBuffer`, `SectionsDelivered`, `SectionsLossless` | `TypeOK`, `InSync`, `ChunkingIrrelevant`; `BufferOK`, `SectionsRight`, `Lossless` |
| `CaThreadProofs` | `CaSafe`, `CountedAlways`, `ResetAlways` | `ChangesCounted`, `ResetHonoured` |
| `CaReadProofs` | `ReadSafe`, `MessageAlways`, `ConditionAlways`; `PktSafe`, `PktWalkAlways`, `PktSpaceAlways` | `MessageWhole`, `ConditionTrue`; `WalkRight`, `SpaceReclaimed` |
| `DmxdevReadProofs` | `ReadSafe`, `CoherentAlways`, `StopsAlways`, `WholeAlways` | `RingCoherent`, `StopsStoring`, `WholeSections` |
| `FrontendThreadProofs` | `FrontendSafe`, `MutExAlways`, `OwnStatusAlways`, `ScanCompleteAlways`, `EventsAlways` | `MutEx`, `OwnStatus`, `ScanComplete`, `EventsTrue` |
| `DmxdevLifeProofs` | `LifeSafe`, `PointersAlways`, `ServedAlways`, `AccountedAlways`, `StreamsOnceAlways` | `PointersSafe`, `ActiveServed`, `Accounted`, `StreamsOnce` |
| `MantisDmaProofs` | `MantisSafe`, `InRing`, `FreedUnused`, `HandsOnAlways` | `TypeOK`, `NoUseAfterFree`, `HandsOnStream` |

`DvbRingbufferProofs`.  The inductive invariant is `RingInv`, the conjunction of
the properties with `WriterInv` and `ReaderInv`: none of the properties is
inductive alone, because that a byte is stored over nothing unread depends on the
space the writer found when it began.  `WriterInv` says that this space stays
reserved (the reader only makes it larger) and that the bytes copied so far are
the next ones; `ReaderInv` says the same of the bytes the reader found.  `Publish`
and `Release` carry the two index updates that the wrap in mid-transfer and the
end of a transfer share.  For the refinement, `Queue` is the segment of the stream
between the two indices, the writer's and the reader's index updates are the two
steps of the abstract queue, and everything else stutters.  Assumptions:
`SizeAssumption` and the bounds are naturals.

`DvbDemuxProofs`, synchronisation.  `SyncInv` adds to `InSync` that `tsbuf` holds the
bytes just before `pos` and that they begin at a packet boundary (`Aligned`).
`ChunkingIrrelevant` compares what was found with one greedy pass over the stream, a
recursive function.  `CutInv` says that the packets found so far, followed by the
pass from the beginning of `tsbuf` on, are the pass from 0, up to any later end: a
chunk then moves packets from the second part to the first, wherever it is cut.

`DvbDemuxProofs`, sections.  `SectionBuffer` is shown from `BufferInv` alone, whatever
the packets hold.  The other two need to know what the buffer holds: consecutive
bytes of the stream (`Linked`), cut at no section at its beginning or at `secbufp`
(`Between`; together `Steady`), and, unless packets are missing, up to where the
multiplexer is (`Joins`).  `Tracks` ties this to the continuity counter: a feed that
has seen a section start and is `k` packets behind has a counter that is `k` behind,
so a loss of fewer than a full cycle shows at the next packet.  `AirInv` keeps the
same of the packet that can be repeated (`Fresh`: the bytes behind its pointer),
`OrderInv` says that what was delivered comes before what is in the buffer, and
`OwedInv` that from `owed` on everything sent completely was delivered.  The lemmas
on one packet (`CopyDump`, `SectionPacket`) are independent of the state machine.
`SectionsDelivered` and `SectionsLossless` have the hypothesis `ResetsPusiSeen`, which
is what the run `section_restart` shows to be necessary.  Assumption:
`SectionConstants` (a section has at least its header of three bytes).

Recursion.  The recursive functions (the greedy pass, the loop over the sections in
the buffer, `FlattenSeq`, the two walks over packet headers) are a `CHOOSE` to the
provers.  A lemma first shows that a function with that equation exists, from
the fact that every walk has an end or has none (`WalkExists`, `WalksStop`); after
that the equation can be used, and what it computes is shown by the least
counterexample (`Least`) or downwards from a bound (`Downwards`), both from the
well-foundedness of `<` with a set in place of a predicate.

`CaThreadProofs`.  `CaInv` is `StateTypes` with three parts.  `CountInv`:
`camchange_count` plus the changes whose interrupt is still under way never
exceeds what happened to the slot, and is positive while the thread handles a
change, so that its decrement does not go below zero.  `WakeInv`, with
interrupts on one processor: while a change is counted, `wakeup` is set or about to
be, or the thread is on its way to look.  `ResetInv`: a slot
that is RUNNING without its transport stream is due to be looked at.

`CaReadProofs`.  Two layers.  `ReaderInv` is about one call of `io_read`: what the
condition found is still there (`AheadInv`: the last fragment of the message is
still ahead of the walk; `PromiseInv`: the slot that was promised has not been
passed by the search), although the thread stores fragments and the reader drops
the lock between its steps.  That the message is whole does not follow from any
one state of the reader: it depends on what CAM, thread and flushes did before.
`ChainInv` therefore looks at one line per slot, from what the reader has got
through the rx buffer and the packet in flight to what the CAM will send next, and
says that along each connection a packet joins the one before it (same message,
next number; or a first fragment after a last one) or is marked as cut.  Each
action moves packets along this line or takes a piece out of it, and then marks
what follows.  Assumption: `SetupsAssumption`.

`CaReadProofs`, the ring of packets.  `PktInv` says that the ring is a row of packets:
packet `Base` is at `pread`, each packet begins where the one before it ends, up to the
one being written (`LayoutInv`), all are whole and ready or disposed of as `live`
says, and of the last one as much is there as was written (`PartInv`).  Everything
is counted from `pread` (`Off`), so that wrapping is the matter of a few lemmas on
indices; disposing of a packet moves the origin.  `NextReady` is the heart of
`WalkRight`: a search that starts with `consumed` too large by less than the shortest
payload still stops where the right one stops, because it only ends early where
three bytes or fewer are left and every packet is longer.  Behind the last whole
packet it may stop at the one being written, whose header is complete by then
(`Arriving`), and nothing comes after that (`NextPart`).  The reader may run at any
step of a write; `PktInv` is claimed until it is `astray`.  Assumption `PktConstants`
(`Word % Size < MinLen`; it is 1 for the CI driver, whose packets have two bytes or
more).

`DmxdevReadProofs`.  `ReadInv` is `RingTypes`, `WriterInv`, `ReaderInv` and
`StreamInv`.  The difficulty is the flush after an overflow, which the callback
does under `dev->lock` while the reader copies without it: `buffer.error` hides the
flushed ring from the reader until its next call, and the invariant only speaks of
the ring while it is not hidden (`Live`).  The callback may enter its part under the lock with an error set meanwhile
(`cb = "lock"`), and then stores into a ring the reader is going to flush.  Between the indices every byte is linked
to the one before it (`Unread`, `After`, `Linked`), which does not need to know
where sections begin.  `WholeSections` is claimed in the plain mode (no
overflow, blocking reads, no signals); there `KeptUp` adds where the reader is within its section (`Cursor`,
`Held`, `Asked`).  `StopsAlways` is an action property: once the filter is DONE or
TIMEDOUT no step stores anything.  Assumption: `ReadConstants` (a section with its
header fits the ring, as the sizes of the code do).

`FrontendThreadProofs`.  `FrontendInv` joins the types with `LockInv` (the count of
the semaphore and the number of those between their `down` and `up` add up to one,
unless a release without a hold is on record), `RequestInv`
(what the hardware is tuned to is what was last asked for, or nothing, unless that
is still to be done or a new thread has not initialised it yet) and `ScanInv`: the positions tried since the request are those the zig-zag
has covered up to its present step (`Covered`), in both
inversions where the inversion is automatic.  `FrontendConstants` says that the
step counter does not wrap before `max_drift` is reached.  `EventsInv` is about the
queue, whose slots are published before the status is entered in them: with nobody
between these steps the unread slots are exactly the events added and not read
(`QueueHas`), and with somebody there the last of them lacks only its status
(`Pending`).  That there is one at most follows from the semaphore (`LockInv`), and
that a call is under way only on an open file (`CallerInv`) keeps a reopening, which
empties the queue, apart from the callers.

`MantisDmaProofs`.  `MantisInv` (`CardTypes`, `DriverTypes`, `RisciInv`,
`RemovalInv`): the blocks that card, interrupt and tasklet speak of are blocks of
the ring, and what removal frees is used by nobody afterwards, except where
`past.backlog` says so.  It holds for every buffer that `mantis_calc_lines` can cut
into lines (`MantisLines`).  That the stream is handed on in order is about time:
nothing but a delay shorter than the card's way through half the ring keeps the
reader in front of the writer.  `OrderInv` says that a report that is still under way
is the latest one and not older than the delay so far (`LatencyInv`, `ReportInv`); that
the tasklet has served the report before it, or is at one of the blocks the latest
one is about (`StreamInv`); and which lap those blocks are of, in the first
round after a start (`FirstRound`: what the ring held before) and from then on
(`LaterRound`).  Assumption `MantisLatency`: blocks are whole lines and the delay is
below seven blocks.  That is the exact limit, not a convenience of the proof: with
seven the run fails.

`DmxdevLifeProofs`.  The properties speak of a device between two calls, or of
what the tasklet may meet in the middle of one; none is inductive, because a call
takes the tables apart and puts them together again in several steps.  `LifeInv`
says what holds at every step.  `Live` is about the tables: a feed in use is
filtering, except the one that the running call has stopped or not yet started
(`Worked`); the card's count is the number of filtering feeds; a section filter is
in the list of its feed, once and in no other; a section feed is the only one of its
PID and its filters' owners know it, except for a filter whose owner is not yet
entered (`Nameless`); and a device filter that has a feed is served by it, whether
it is started or about to be (`Holding`).  `Decoders` is about `pesfilter`,
`StageInv` and `CallInv` about what a call relies on from one step to the next: that
a shared feed found by `feed_restart` is still there when the filter is entered, for
example.  The proof has three layers: what an operator of DemuxFeeds does to a
table entry, how that keeps `Live` and `Decoders`, and how each action composes such
changes.  Each action is shown to keep first what no timeout can disturb (`Base`:
types, calls, the frontend, the list of feeds, the DVR count) and then the rest
(`Tidy`), which is claimed until a timeout has come late (`past.late`).  `refused`
is a parameter of `Decoders`, since a refused TS feed breaks only the ownership of
decoder streams.  Assumptions: `LifeConstants` and `DemuxConstants`.

Only model-checked:

* liveness, which is outside the prover: `ReaderServed`, `InsertedRuns`,
  `RemovedNoticed`, `UnloadEnds`, `SlotServed`, `CallsReturn`, `KeepsDelivering`,
  `RetuneDone`, `FindsSignal`, `StopEnds`.

Every safety property of a passing run is stated by a theorem.  The four
properties that are violated (see *Findings*) are not.

## Not modelled

Register and tuple access to CAMs, tuners and I2C (its outcome is a choice where
it matters); filter matching and CRC (one filter that accepts everything); the
contents of tables; `demux->mutex` (its callers hold the device mutex); the
delays between the frontend thread's tries (a sleep may end at any time);
registration of device nodes; `dvb_net` (ULE reassembly is the next kernel
component worth a module); user space, of which the transport layer of
`libdvben50221` is the next one; tuner chips, other bridges and V4L, which this
package only carries along and which make up nearly all of its lines: they are
register programming without a protocol of their own.  The reasons are in
`PROJECT.json`.

## Plan

1. *Done*: byte ring with abstract queue and proofs; packet ring; stream
   synchronisation with proofs; section assembly; data path of a section filter;
   CI slot; CI receive path.
2. *Done*: `DmxdevLife` over `DemuxFeeds`; `MantisDma`; `FrontendThread`; poll,
   open, close, reset and CAM replacement in `CaRead`.
3. *Done*: proofs of the refinement of the byte queue and of the safety of
   `CaThread`, `CaRead`, `DmxdevRead`, `FrontendThread`, `MantisDma` and `DmxdevLife`.
4. *Done*: proofs about section assembly, the cut of the stream, the event queue,
   the order of the DMA blocks and the packet ring.
5. ULE reassembly; the transport layer of `libdvben50221` against `CaRead`.
