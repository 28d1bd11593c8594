# A verification project for the ZZ9000 SDK

TLA+ models, TLC runs and TLAPS proofs about the host side of the ZZ9000 SDK:
the mailbox transport between AmigaOS programs and the firmware of the ZZ9000's
ARM cores, the blocking wait on its interrupt, the shared library that
multiplexes asynchronous calls and the programs that wait for its replies, the
pipelined crypto batches and the offload layer of the AmiSSL provider, and the
three ways to the card's audio: lock-free PCM rings, streamed MP3 decoding and
the sound of a film. Paths below are relative to the repository (`src/`). Every
definition that models code is listed in `PROJECT.json` under `map`, with the
lines it stands for.

## 1. Inventory

### How the parts interact

```
 programs, tools, provider, datatype       tasks; each with its own context,
        |              \                   or through the shared library
        |           zz9k.library           one context, one semaphore, a pending
        |              |    ^              list, a dispatcher process
        v              v    | interrupt
 zz9k_host.c: contexts; submit / poll / call / armed wait / batches
        |  named semaphore "zz9000.sdk.mailbox"
        v
 card memory: request ring, completion ring, audio rings and control lines
        ^
        |  doorbell, completion interrupt (one enable bit, one acknowledge)
 firmware on the ARM cores (not in this repository)
```

Tasks are preempted at any instruction; the firmware runs truly in parallel and
completes requests in any order. All contexts share the two mailbox rings, so
any context can read any other's completion. Interrupt servers share one chain,
one enable bit and one acknowledge register.

### The components

| Part | Source | State it keeps | Operations |
| --- | --- | --- | --- |
| Mailbox transport | `host/src/zz9k_host.c` | ring indices and entries in card memory, the semaphore, `next_request_id`, `sync_cookie_mask` | attach, close, submit, poll, call |
| Armed completion wait | `host/src/zz9k_host.c`, used by `tools/zz9k-archive.c` | interrupt server, signal, heartbeat timer, `late_irq_expected` | arm, await, drain after Ctrl-C, disarm with watch |
| Crypto batches | `host/src/zz9k_host.c` | `submitted_total`, `completed_total`, `in_flight`, `wait_ticks`, result slots | hash, stream and AEAD batch |
| Audio rings | `include/zz9k/audio.h`, `host/src/zz9k_host.c`, `tools/zz9k-fabriclease.c` | two control lines (seqlocks), PCM ring, cursors, lease generation | session begin/end, write, publish, take credits, feed and drain |
| zz9k.library | `amiga/src/zz9k_library.c`, `zz9k_library_resident.c` | pending list, open count, dispatcher process and its start/stop hand-shake, `irq_task` | open, close, call async, cancel, wait, call, poll |
| Event-wait helpers | `amiga/include/zz9k/event_wait.h`, the `zz9k-libevent*` tools | timer request, reply ports, signals, what has been drained | wait for one or several replies with a timeout, cancel, end of the program |
| Shared memory, surfaces | `host/src/zz9k_host.c` | Zorro II aperture layout | allocate, map, free |
| Crypto offload | `amiga/provider/zz9k_offload.c` | cached scratch buffers, `in_use` | open with probe, five operations with retries on BUSY, close |
| Streamed MP3 | `tools/zzplay-mp3.c`, `zzplay-mp3-transport.c`, `zz9k-mp3.c`, `amiga/mpega/mpega_resident.c` | `produced_seen`, pending credit, ring offset, EOF sent; the card's two rings | feed, read with credit, flush, decode a frame, seek |
| zzplay, films | `tools/zzplay.c`, `zzplay-media.c`, `zzplay-ahi.c`, `zzplay-audio-clock.c`, `zzplay-sync.c` | transport, held frame, AHI double buffer, clock | feed, decode, submit, present or discard, pause, stop, loop, drain |
| Builders, tables, tools, datatype, software crypto, examples | `host/include`, `include/zz9k`, `tools`, `amiga/datatypes` | none, or sequential | packing, printing, decoding |

`PROJECT.json` (`components`) says of each whether it is modelled.

### What is hard, and what must hold

* **Transport.** A call that times out leaves its request in flight. Its
  completion arrives later, in front of another call, possibly of another
  context whose ids also start at 1. *A call returns only its own reply; nothing
  is lost or duplicated by the host; a slot is not reused before it is read; no
  path keeps the semaphore.*
* **Armed wait.** The interrupt may be taken by another context's server,
  disabled by another's disarm, or arrive between the poll and the `Wait`. After
  Ctrl-C the card may still write the caller's buffers. *The line is never
  enabled without a handler; nobody sleeps for ever; buffers outlive the request;
  the watch after a disarm outlasts an abandoned request.*
* **Library.** Three parties race over one context: callers, the dispatcher and
  the interrupt; and `CloseLibrary` waits under `Forbid`, which breaks it.
  *A queued request is reported exactly once, with its own reply, and no wake-up
  is lost.*
* **Waiting programs.** A wait wakes for a reply, for the timer or for Ctrl-C, and
  each leaves something behind: a signal without its message, a timer request that
  still runs, a request still on the library's list. *No program sleeps on a reply that
  is there; none that ends well leaves a request behind; each ends.*
* **Batches.** Completions come in any order, rings fill in mid-burst, and a
  batch that failed leaves requests behind. *Each slot gets its own record's
  result; OK means every slot is filled; the count in flight is exact.*
* **Offload.** A call that timed out is executed late, on buffers that are by then used
  for the next operation, and an allocation whose answer nobody reads is lost. *A result is
  computed from the inputs passed; no block is leaked, freed twice or used after it was
  freed.*
* **Audio rings.** No lock at all: 64-bit cursors cross in 32-bit words under a
  sequence word; producers die in mid-update; leases are revoked and granted
  again. *No torn cursor is believed; unplayed PCM is never overwritten; an old
  lease neither gets credit from nor ends a new one.*

* **Streamed MP3.** PCM is acknowledged late and in batches, the card decodes only while
  there is room, and a refused feed must be repeated with the same bytes. *PCM is heard in the
  order of the file; the stream plays to its end; no loop of feeds and reads lasts for ever.*
* **Films.** Frames wait for the sound, the sound is decoded only when frames are, and AHI
  plays its two buffers meanwhile. *The sound is heard in order and whole; no underrun is
  made up; picture and sound never wait for each other.*

`PROJECT.json` (`hazards`) lists each of these at its line, with the properties
that cover it or the reason why none does.

## 2. Modules

| Module | Models | Composition |
| --- | --- | --- |
| `RingChannel` | the promise of a ring: a bounded FIFO channel | abstract specification |
| `Mailbox` | attach, submit, poll, call, timeouts, both rings, the firmware's side | implements two `RingChannel`s |
| `IrqWait` | arm, armed call, Ctrl-C drain, disarm and watch, the archive tool's buffers | rings reduced to what `Mailbox` shows |
| `AsyncLibrary` | pending list, library calls, dispatcher, interrupt, open and close | mailbox reduced likewise |
| `CryptoBatch` | the submit/poll loop | two bounded sequences for the rings |
| `AudioRing` | both control lines, PCM ring, session and feeding loop, firmware tick | stands alone |
| `EventWait` | the waits with a timer and the five programs built on them | library reduced to what `AsyncLibrary` shows: each queued request is answered once, in any order, or never |
| `Offload` | the provider's buffers and operations over shared allocations | calls reduced to what `Mailbox` shows: a call gets its own reply or times out |
| `Mp3Stream` | the four streaming clients and the card's decoder | stands alone |
| `Zzplay` | the film player: stream, decoder, AHI, clock, user | stands alone |
| `MailboxProofs`, `IrqWaitProofs`, `OffloadProofs`, `Mp3StreamProofs`, `ZzplayProofs` | theorems | extend the module they are named after |
| `AsyncLibraryProofs`, `CryptoBatchProofs`, `AudioRingProofs` | theorems | extend `MCAsync`, `MCCrypto`, `MCAudio`; the last two instantiate `OffloadProofs`, and `Mp3StreamProofs` and `ZzplayProofs` |
| `MC*` | model values, symmetry, small instances for TLC | below |

An MC module may hold instances of several modules that share nothing (`MCLive`: `Mailbox` and
`AudioRing`; `MCAsync`: `AsyncLibrary` and `EventWait`; `MCAudio`: `AudioRing`, `Mp3Stream` and
`Zzplay`; `MCCrypto`: `CryptoBatch` and `Offload`). The initial state chooses which of
them runs; the others stand at their end, where nothing of them is enabled, so the states are
the sum and not the product, and a liveness property of one is not weakened by the other. What
the instantiated modules ask of their constants (`EventWaitAssumption`, `OffloadAssumption`,
`Mp3StreamAssumption`, `ZzplayAssumption`) is assumed, and evaluated, there.

Definitions headed "Faulty variant" are not part of a model: each is a plausible
bug of the definition it stands before, and is used to see that a property would
notice.

### Mailbox

One action per step at which another party can see a difference. Within
`zz9k_enqueue_request_locked` the slot is written (`EnqueueWrite`) before the tail
moves (`EnqueuePublish`); within `zz9k_consume_next_completion_locked` the entry
is read (`ConsumeRead`) before the head moves (`ConsumeRetire`). The task holds
the semaphore (`lock`), but the firmware runs in between. `zz9k_call` draws its id
and builds its cookie before it looks at the ring (`CallDraw`), `zz9k_submit` after
it found room. `CallIdle` and `Tick` are the ends of the call loop, with the
timeout after any iteration (a wall clock) or after `TimeoutTicks` of them.

Abstracted: payloads; the cookie `id ^ mask` is the pair `[mask, id]` (cookies are
compared only between entries of equal id, where xor with the same id is
injective); a 32-bit word is read and written at once. Argument checks and a
semaphore that cannot be created return before anything changes. Requests carry a
ghost token that the code never reads: it says which request a completion really
answers. The armed branch of the wait is in `IrqWait`.

### IrqWait

`StartArm` to `ArmEnable` are the four effects of `zz9k_arm_completion_irq` in
order; `Await*` the loop of `zz9k_await_completion_locked`; `Drain*` its Ctrl-C
branch; `Disarm*` and `Watch*` `zz9k_disarm_completion_irq` with its watch of the
interrupt status. Time appears as choice: the hard bound, the end of the drain and
the end of the watch may come at any iteration and must come by `HardBeats`,
`DrainPolls`, `WatchReads` of them; the heartbeat may wake the task whenever it
sleeps. The server chain is a set (all have one priority): any server may be first, and
the first one acknowledges, signals its own task and ends the chain. The card may assert after it was
disabled, because it may have looked at the enable bit before. A dead card's
status register reads as anything. The caller is the archive tool: buffers are freed
on every end of a call except CANCELLED, and a cancelled run makes no more calls.

### AsyncLibrary

Each task has one `ZZ9KAsyncRequest`. The reply to a port and the callback are the same
step. Operations under `base->lock` that do not wait are one action; `ZZ9KWaitAsync`,
`ZZ9KCall` and the wrappers built on `zz9k_call` keep `owner` over several. The
dispatcher's life (`created`, `waiting`, `polling`, `exiting`) follows
`zz9k_lib_dispatcher_proc`, with the start and stop signals to the task that waits
for it. `DispatcherPoll` takes one completion at a time where `ZZ9KPoll(16)` takes
up to sixteen under the lock: more interleavings than the code. A call may time
out at any step. A task closes the library only with nothing queued:
a close cancels what is queued and reports it to nobody. `MixedCalls` lets synchronous wrappers be used while requests are
pending, `OpenInClose` lets a task open the library while the last closer waits.

### CryptoBatch

The three batch functions are one loop written three times; `map` names each copy
where the definitions were read. `StartBurst` and `SubmitOne` are the inner
`zz9k_submit_batch`, `PollOne` and `TakeReplies` the inner `zz9k_poll_batch` and the
placing of its replies. Records of a later batch have the same indices, so the
ghost `batch` tells them apart, and `unclean` names the batches that did not return OK, or did
with another context's result. Other contexts do two things to the rings: a request of theirs is
completed with any cookie (`FwCompleteForeign`), and a call of theirs takes the next completion,
whosever it is (`ForeignConsumes`); `foreign` says how often they still may.

### EventWait

A signal and what it stands for are kept apart: `Wait` clears the bit, the message stays in its
port, and a bit may be set with nothing behind it. `Start`, `Block`, `Decide` and `Finish` are the
parts of the helpers' loop around `Wait`; the drain looks at the ports one by one (`at`). The
programs differ in how many requests they queue, on how many ports, and in what they do
afterwards: cancel, queue again, give up. Callbacks count as a port whose messages are the
calls made.

### Offload

The task's blocking call is three steps: the request enters the card's inbox (`Call`), the card
executes it, and the task takes the reply (`TakeReply`) or times out (`GiveUp`), in any order of the
last two. A block holds the number of the operation whose bytes were last written to it;
a result computed from inputs of different operations is 0. The card executes any of the queued
requests next: the operation overdue may run before, after or in the middle of the one that took its
buffers over. `stray` names the blocks written last by an operation nobody waited for: a result read
from, or computed with, one of those is "overwritten". `window` says whether the host can map a
block: at once (Zorro III, the 4 MB board), after a refresh of the layout, or not at all.
`BlocksAccounted` allows exactly the blocks a timeout lost.

### Mp3Stream

One step is one call of the client, with the decoding the card does within it, or one unit
of bookkeeping between calls. The sizes keep the order of the real ones: the ring against a chunk of
the file, against AHI's period, against the credit worth a call. A feed of more than the
input ring has room for is refused and changes nothing; a refused feed does not decode, a
read does (`tools/zzplay-mp3-transport.c:27`, `tests/mp3_tool_logic_test.c:40`). `ReadsKeepFlag`
says that the reply of a read repeats BACKPRESSURE while the input is full: the clients look at
the flag of the last reply, which a read overwrites, and would otherwise not repeat a feed that was
refused. The drain of `zz9k-mp3` is a loop with a bound of its own (`rounds`).

### Zzplay

A frame lasts as long as one unit of sound. The loop of `zzplay.c` is one action per step: feed,
take sound, submit a buffer, look at the clock, take a frame, show or drop it, drain. AHI plays a
unit, changes buffers and moves the clock between any two steps; the user pauses, goes on or stops
at any time. The card decodes the stream strictly in its order and stops at the mark
of PCM it holds ahead. A pass of the loop feeds several chunks and then decodes, whether the card has
room for more or not (`tools/zzplay.c:2836`); how many is left open.
`AhiStalls` is the sink dying, and `CallFails` any call of the card returning an error; both end the
film or stop the sound and are then excepted by name.

### AudioRing

One action per word written or read of a control line. Cursors have an abstract
unit and two words of base `CursorBase`, so a carry from the low to the high word
happens within a few steps. Cache flushes and invalidates are taken to be
effective. The heartbeat clock is not kept: the firmware may revoke a lease at any
time. A crash of the producer leaves its line as it is. A release call may be
served late. One slot is modelled, for slots share nothing. Ring cells carry the
ghost position of the PCM copied into them.

## 3. Runs

Seven runs pass and five are expected to find a violation, all of them of a statement the
repository makes.

| Run | Question | Bounds, and why they are enough |
| --- | --- | --- |
| `mailbox` | Are the rings FIFO channels, is anything lost or doubled, does a call get its own reply? | Two contexts with equal ids; rings of two messages, so that they wrap, fill and empty; two requests per context, so that a late completion of the first meets the call of the second; two polls per call; a card that may die at any step |
| `live` | Does every mailbox operation return and give the semaphore back? Does an audio session end? | Mailbox: rings of one message, one request per context, a card that may die. Audio: one client, no fairness for the firmware |
| `irq_wait` | Is the line ever enabled without a server, are buffers of a cancelled call safe, is a completion ever slept on, does the watch outlast a cancelled request, do calls and disarms return? | A task alone makes three calls, so that a timed-out one precedes a cancelled one. Once a second has armed (stolen interrupts, one disarming under the other), both keep to one call and one round of each loop but the watch. Two status reads, so that the watch can see an assert and then quiet |
| `async` | Is each request reported once, with its own reply, with no lost wake-up, and does every call return? Does a waiting program sleep on a reply, leave a request behind, or hang? | Library: two tasks, a ring of two, two contexts one after the other with two requests each: cancel, late completion, a second queueing of the same object, and a completion that outlives the context it was asked in all happen. Programs: all five, two requests, two rounds, with and without another opener of the library |
| `crypto` | Are results in their slots, is OK complete, is the count exact, does the batch return? Is a result that of the inputs passed, and is card memory accounted for? | Batches: three records through a window of two over rings of one: full rings in mid-burst; two batches, the first possibly abandoned; one act of another context. Offload: two operations out of three (x25519, verify and a record), which share roles and need them in different lengths, so that a buffer grows; an inbox of two, so that a late request meets the next |
| `audio` | Are cursors torn or PCM overwritten, is a cooperative producer faulted, does drained mean played? Is MP3 heard in order and to its end? Is a film's sound heard in order and whole, are underruns real, does playback end? | Rings: two successive leases; two periods; seven units fed in chunks of three, so that writes wrap and the last period is partial; carry at 4; a sequence word that wraps at 6. MP3: eight setups of the four clients; twenty units, five rings' worth; one seek. Films: seven interleavings, with sound ahead and behind, more of the one than of the other, less than AHI's buffers hold; one pause, one frame too many for AX, a loop |
| `audio_ring_reuse` | Does the holder of a lost lease take the next one's credit, or end it? | The smallest ring, the slot granted again while its last holder still runs |

Disagreements between the code and what the repository says of it:

* `async_library_wrapper`: `zz9k_call` throws away completions that are not its own
  (`host/src/zz9k_host.c:3817`), also those of requests queued in zz9k.library when a
  synchronous wrapper of another task reads them. The request is then never reported.
  `async` assumes the wrappers are not mixed with pending requests.
* `async_library_race`: the last closer does not look at the open count again after it
  waited for the dispatcher (`amiga/src/zz9k_library_resident.c:893`). A task that opened
  meanwhile loses its context, and its request is cancelled without a report.
* `irq_wait_buffers`: after a TIMEOUT of the armed wait the archive tool frees buffers the
  card may still write (`tools/zz9k-archive.c:4936`); it keeps them only on CANCELLED.
  `CancelledKeepsBuffers` is the property with that exception.
* `event_wait_timer`: a wait that got its reply aborts the timer request, whose reply sets the
  port's signal; nothing clears it (`amiga/include/zz9k/event_wait.h:68`). The next wait of the same
  program may report TIMEOUT at once.
* `mp3_compact`: on the compact rings of Zorro II the streaming loop of mpega.library
  (`amiga/mpega/mpega_resident.c:1249`) returns the credit of the ring without looking at what the
  card has decoded meanwhile: it ends with MPEGA_ERR_EOF before the last PCM, and it feeds ahead until
  feeds are refused, which it does not notice. zzplay's AHI period at 44.1 kHz (35280 bytes) is
  larger than the compact ring (32768), so nothing is ever taken from it. `audio` has the setups
  that play.

Symmetry under permutation of contexts, tasks or clients is used in runs that check
safety only; no liveness run uses it. Deadlock checking is off everywhere: in each
model all tasks may legally be finished, with the bounds on requests, batches or leases spent.

### Fairness

* `Mailbox`: weak fairness of the steps of an operation (a task that is ready runs) and
  strong fairness of obtaining the semaphore (exec queues its waiters first in, first out).
* `IrqWait`: weak fairness of each task's own steps. That includes waking up, because
  `timer.device` answers the heartbeat. Beginning a call or a disarm is the program's choice.
* `AsyncLibrary`: strong fairness of the task's and the dispatcher's steps (semaphores
  are handed on in turn), weak fairness of the interrupt, and of the completion of each
  request; only `QueuedIsReported` depends on the last.
* `EventWait`: weak fairness of the task and of `timer.device`. Replies need not come.
* `CryptoBatch`, `AudioRing`: weak fairness of the caller or client.
* `Mp3Stream`: weak fairness of the client and of AHI playing what it has. The card's part of a
  call is in the call's step.
* `Zzplay`: weak fairness of the program, of AHI, of time, and of the user ending a pause. A
  sink that dies (`AhiStalls`) plays no more, whatever is assumed of it.

Except for `QueuedIsReported` (and for the answers of the decoder, which are part of the client's
call) nothing is assumed of the firmware: everything that must return returns although the card
never answers.

## 4. Proofs

For every value of the constants that satisfies the assumption of the module. Where a
theorem assumes more, it says so, and the reason is below.

| Module | Theorem | States | Assumes also |
| --- | --- | --- | --- |
| `MailboxProofs` | `TypeCorrect` | `TypeOK` | |
| | `OwnReply` | `CallGetsOwnReply` | distinct cookie masks |
| | `RingsRefineChannels` | `RingsAreChannels` | |
| | `NothingLostOrDoubled` | `Conservation` | |
| `IrqWaitProofs` | `TypeCorrect` | `TypeOK` | |
| | `NoUnhandledInterrupt` | `EnabledHasServer` | |
| | `BuffersOutliveCancelled` | `CancelledKeepsBuffers` | |
| | `NeverSleepsOnReply` | `NoMissedWake` | |
| | `WatchOutlasts` | `WatchOutlastsCancelled` | |
| `AsyncLibraryProofs` | `TypeCorrect` | `TypeOK` | |
| | `EachReportedOnce` | `ReportedOnce` | `~OpenInClose` |
| | `NoWakeupIsLost` | `NoLostWakeup` | `~OpenInClose` |
| | `ReplyIsOwn` | `OwnReply` | |
| | `OnePollerAtATime` | who takes completions: the dispatcher or a task, alone | |
| | `ProgramNeverSleepsOnReply` | `NoReplySleptOn` | |
| | `ProgramSuccessIsClean` | `SuccessLeavesNothing` | |
| | `ProgramTypeCorrect` | `TypeOK` of `EventWait` | |
| `CryptoBatchProofs` | `TypeCorrect` | `TypeOK` | |
| | `OkMeansFilled` | `OkFillsEverySlot` | |
| | `ResultsAreOwn` | `ResultIsOwn` | |
| | `BooksAreRight` | `InFlightExact` | |
| | `OffloadBlocksAreAccounted` | `BlocksAccounted` | |
| | `OffloadResultsAreOwn` | `OffloadResultIsOwn` | |
| `OffloadProofs` | `TypeCorrect` and the invariants of the last two | `TypeOK` | |
| `AudioRingProofs` | `TypeCorrect` | `TypeOK` | |
| | `CreditIsOfOwnLease` | `NoCreditFromLaterLease` | |
| | `LateReleaseIsHarmless` | `OnlyOwnLeaseEnds` | |
| | `CursorsNeverCross` | `CursorChain` | `~ReuseWhileHeld` |
| | `NothingUnplayedIsLost` | `PublishedPcmIntact` | `~ReuseWhileHeld` |
| | `CreditKeepsTheLease` | `NoSpuriousFault` | `~ReuseWhileHeld` |
| | `OkMeansPlayed` | `DrainedMeansPlayed` | `~ReuseWhileHeld` |
| | `FileHeardInOrder` | `HeardInOrder` | `GoodSetups` |
| | `FilePlaysToItsEnd` | `StreamPlays` | `GoodSetups`, `Patient` |
| | `FilmHeardWhole` | `HeardWhole` | |
| | `FilmUnderrunsAreGaps` | `UnderrunsAreGaps` | |
| `Mp3StreamProofs` | `StreamTypeCorrect` | `TypeOK` | `GoodSetups` |
| | `HeardIsInOrder`, `SuccessIsWhole` | `HeardInOrder`; success means the whole file | `GoodSetups` |
| | `EveryStreamPlays` | `StreamPlays` | `GoodSetups`, `Patient` |
| `ZzplayProofs` | `SoundIsHeardWhole`, `ReportedAreGaps` | `HeardWhole`, `UnderrunsAreGaps` | |

The assumptions are those the properties need, and each marks a limit of section 5:

* `~OpenInClose`: no task opens the library while the last closer waits for the dispatcher.
  With `OpenInClose`, `async_library_race` finds a request cancelled without any report.
* `~ReuseWhileHeld`: the slot of a revoked lease is granted again when its holder has noticed.
  Otherwise two producers write one line and no order of cursors survives
  (`include/zz9k/audio.h:562`, a hazard without a property).
* `GoodSetups`: the reply of a read repeats BACKPRESSURE (`ReadsKeepFlag`), and mpega.library, which
  does not look at that flag, has a card that decodes all it can within one call, a PCM ring no
  smaller than its batch of credit and an input ring no smaller than a chunk. Without it
  `mp3_compact` is what happens: data is skipped.
* `Patient`: for the other clients, a chunk fits the input ring, an AHI period fits the PCM ring, and a
  loop of `Retries` calls is longer than a full input ring has units, the unit being the least that
  a call decodes when there is room. `mp3_compact` shows that the period is needed. The length of the loop
  is a real limit as well: the code gives up after 64 calls, or 128 rounds of zzplay's flush
  (`tools/zzplay-mp3.c:412`), whatever is left. 128 KB of input at 32 kbit/s are over 5 MB of PCM, which
  is more than 128 compact rings of 32 KB: files of a low bit rate on Zorro II may lie outside it.
  In `audio`, `Retries` is 12 where the theorem needs 11; with 11 TLC finds no violation either.
* Distinct masks: see *Equal masks* below.

### The arguments

*Mailbox.* `TypeOK` is inductive as it stands; the parts worth noting are the four ring indices
(`NextRingIndexInRange`) and the id counter with its wrap to 1 (`NextRequestIdInRange`). That a
call returns its own reply is not inductive: it depends on what is in the slots, in the
firmware's hands and in the locals of calls in progress. `OwnReplyInv` adds that every entry,
wherever it is, also in a slot long overtaken, is *genuine*: if its cookie was made from a mask,
it was made by a context with that mask, for the token it carries (`EntriesGenuine`); that ids
are the ordinals of the draws (`IdsAreOrdinals`); and that a call keeps its request from its draw
to its return (`CallsHoldTheirRequest`). `MatchIsOwn` is the heart of it: equal id and cookie mean
equal mask, hence the same context, hence the same request. The module's assumption that an
attachment draws at most `IdLimit` ids, i.e. 2^32 - 1, is used here: after that, ids repeat.

*Its rings.* A ring is two indices and an array; `Messages` reads it as a sequence. Three lemmas
say what the three ways to touch a ring do to that sequence: writing the slot at the tail changes
nothing, moving the tail appends, moving the head takes the first away. They need the remainders
gone (`WindowForm`: below twice its modulus a remainder is one comparison), and that the slot of
the tail is never one of those in the window. From these, each step of `Mailbox` is a step of
`RingChannel` or a stutter, for both rings. `Conservation` speaks of cardinalities; `OneHome` says
what they mean, that four sets share out a fifth, and `HandsOnRings` that an entry being copied
is still, or already, where the indices say it is.

*IrqWait.* One context's disarm disables the interrupt for all, so what a context believes about
the bit may be false. `ArmingInv` says what survives: a context past its arming and not past its
disarm has its server in the chain, and if the bit is set, some context is armed. `BufferInv` adds
that a completion in the ring is not being worked on, and that requests are numbered past all
that went before: so what a reply releases is idle, and what is sent anew was never released.
`NoMissedWake` holds of a context whose interrupt nobody else touches, and that "alone" is a
fact about the past of the others (`WakeInv`). `WatchInv` says what the watch knows: until the
context has given up on a request, the card works on one of its own at most, the last; it is
marked late when its call has returned; and it is over when the interrupt is asserted after the
disarm.

*AsyncLibrary.* `BaseInv` (types, each pending request once, `lib_OpenCnt` counts the tasks that
have it open) needs no assumption. `CloseInv` says that one task closes for good while no
other has the library open: that is what `OpenInClose` breaks. On it rest `ReportInv` (a request is
queued and unreported, or completed and reported once), `WaitersInv` and `DispatcherInv` (who waits
for the dispatcher's start or end, and that it is told so once and when it is true); and while
the dispatcher serves, the interrupt is enabled and its own, which is what `NoLostWakeup` needs.
`ContextInv` numbers the contexts in the order they are opened: what is queued belongs to the open one,
and no completion in the ring or at the card to a later one. A completion found by its id in the
open context is thus that very request's, or an older context's, which is all `OwnReply` says.

*EventWait.* `SignalInv` says where a message may stand without its signal: in a port the drain
has still to come to. For the callback there is no port to look into; it has run only with its
signal set, or just taken. `SentInv` says a request on the library's list is reported nowhere
else, and that a program that leaves well has seen all. The proof that `Handle` ends the wait
only with everything seen is a cardinality turned into a set (`FS_Subset`).

*CryptoBatch.* The counters are bounded only together: `BooksInv` adds
`submitted = completed + inFlight`, and that a burst never asks for more than the room left when it
was planned. The loop counts replies and not slots: `SlotsInv` says the count is the number of
filled slots as long as no error was returned, for a reply is taken only for an empty slot and the
replies taken together name different ones (`ListedOnce` turns that into a cardinality). `OwnInv`
follows each request through the ring, the firmware, the other ring and the replies: it is in one
of them, once (`EntriesInv`); its cookie is its index, which is not known of another context's; it was
submitted by this batch, or is no older than some unclean one, and has filled no slot yet (`OutInv`).
The step that needs all of it is the next `Begin`: after OK every slot is filled, so what is still on
its way found its slot taken, by an abandoned batch's request or by another context's; that makes
the batch unclean. `ExactInv` counts: undisturbed, what is in the four places together is `inFlight`.

*Offload.* `Place` is where the task is, or will be when its call returns. `CallInv`: at most one
queued request has a caller, and what the caller waits for tells what the request is. `BlockInv`
strengthens `BlocksAccounted` by what makes it inductive: a block is freed by one request only, is
there until then, and a block in a reply is neither named nor being freed. `ResultInv` needs no order
at the card: a queued operation with a caller is the one in progress, on the buffers it names
(`CallerIsThisOp`); each input stands as it was filled or is stray (`InputsKept`), for only an
operation without a caller writes to it, and that marks it; hence a good answer is this
operation's, unless one of its buffers is stray.

*AudioRing.* `FirmwareLineInv` and `ProducerLineInv` are the argument for the lock-free reads: for each
place of the writer within its update and of the reader within its snapshot, if the sequence word
the reader holds is even and still there, the words it has are those of the line at rest. A
producer may die between any two of its writes, so nothing says the producer line is ever at rest
again. `CursorInv` orders the cursors for a holder alive or not, and `PcmInv` says which positions the
ring holds: what the firmware adopted, what it could adopt next, and what the client believes it
staged. The lemmas under them are about quotients, remainders and two-word cursors.

*Mp3Stream.* `HeardInOrder` is a flag of the history: nothing taken was other than the next unit of the
file. What makes it inductive is that all the card and the client have of the file is one stretch
of it. The input ring continues the PCM ring, which continues what has been heard (`InputOK`, `RingOK`); the
chunk in the client's buffer continues the input, as long as it is refused (`Given`). The PCM ring
has every position whose credit has not been returned, and credit is returned only for what was
copied (`TakeOK`, and `FrameOK` for the frames of mpega.library, which counts what it has left of a batch).
`CardOK` is the card's part: with an empty PCM ring it has no input left, and if it does not slice its
decoding, it leaves input only behind a full one. `EndOK` says that a stream which reports success has had the whole file.

That no loop gives up is an argument by a measure, made an invariant by counting it against the
loop's own counter (`PlayInv`). In the loops before the EOF each counted call either finds the card
with less input than the one before, or ends the loop (`RoomOK`, `RepeatOK`: input and counter together
never exceed the input ring). In the flush loop the measure is `Rank`: the units left to decode, and one
for PCM not yet returned. Each round lowers it, or there is nothing left and the round is the last
(`FlushOK`). The inner loop of `zz9k-mp3`'s drain has the first measure again (`RoundsOK`): a round that
finds PCM is followed by a call that decodes, or was the last. With `Patient` the counters cannot reach
their bound before the measure is spent.

*Zzplay.* `FilmInv` says that the units between the one heard last and the one copied last are in AHI's two
buffers, one behind the other, in the order the double buffer was linked (`SlotsOK`); that what was
returned, copied, seen and decoded of the card's ring come in this order (`SoundOK`); and that the card's place in
the stream is what was decoded of either kind, with the frames in between (`StreamOK`). `CountOK` is
about underruns: those reported are paid for by gaps, except one at the end of the sound,
which is counted before the player knows that it was the end and which the drain takes back. In the
drain the card has decoded all, so "drained" means that the unit heard last is the last of the film.
The sums need how many of the items of a stream up to a place are sound; that is a cardinality,
and the lemmas under `ItemsKnown` say how a step changes it.

*Composition.* The runs check `EventWait`, `Offload`, `Mp3Stream` and `Zzplay` inside `MCAsync`, `MCCrypto` and
`MCAudio`. `EventWait` is proved about there directly, under the name its instance has (`Program!`). The others
are instantiated twice: by the MC module, and, with their proofs, by `CryptoBatchProofs` (`OP`) and
`AudioRingProofs` (`MP`, `ZP`). The lemmas at the end of these two show that every step the MC module
takes is one of the instance that has the proofs, operator by operator, and the theorems are
then about the very specification TLC ran. An instance in which the program does not run stands
still (`AtRest`, `Starts`).

Every invariant that a passing run checks is stated by a theorem. Out of the provers' reach, and left to
TLC: the liveness properties (fairness and ENABLED), and facts that need induction over data with
the installed back ends. `FileLength`, the rings and the films have any size in the proofs; that
the sizes of the real program satisfy the assumptions is read from the source, not proved.

## 5. Limits of what is shown

* **Equal masks.** `sync_cookie_mask` is made of the context's address and its task. A
  context closed and attached again at the same address by the same task has the same
  cookies; `CallGetsOwnReply` fails then, if a request of the first was in flight. The
  runs and `OwnReply` assume distinct masks.
* **Reopening the library.** `zz9k_find_pending` (`amiga/src/zz9k_library.c:27`) compares ids only,
  and ids restart with a new context: a completion of a request cancelled or timed out before the
  last close is taken for the reply of the request with that id queued since, whose own reply
  then finds nobody. `OwnReply` allows exactly this, and `async` reaches it. `docs/zz9k-library.md:1809`
  says such a stale completion is drained; that is so only until the library is opened again.
* **A second armed context.** `WatchOutlastsCancelled` is checked for one. With two, the watch
  takes the other's late assert for its own. After a hard timeout, too, `late_irq_expected`
  stays clear and the watch may end early; the property excepts it.
* **After an abandoned batch** a completion of the old batch with the same index is taken for
  the new one's. Even a batch that then returns OK may have taken one of them and leave its own to
  the next: `ResultIsOwn` says no more than the code gives.
* **Concurrent batches.** Batches of different contexts share the rings and number their records alike
  (`host/src/zz9k_host.c:3413`). The loop looks at the index, the slot and the opcode of a reply
  (3472), so it takes the other batch's result for its own record and returns OK; and any `zz9k_call` of
  another context discards the completions of a batch it meets (3817), which then times out.
  Both are in `CryptoBatch`, and `ResultIsOwn` and `InFlightExact` except them: a slot can hold another
  context's result once one was active, and the count is exact only while none is. That OK means
  every slot is filled, and that a batch returns, holds all the same.
* **Two producers on one line.** `audio_ring` grants a slot again only after its last holder
  has noticed the loss. The plan of the direct rings assumes cooperative clients
  (`docs/plans/2026-08-27-1453-feat-direct-audio-rings-plan.md:55`), and the firmware's grace
  period is not in this repository. `audio_ring_reuse` lifts the restriction for the
  properties that do not depend on it.
* **Sequence wrap.** A reader is never overtaken by half the range of the sequence word
  (2^31 publications) within one snapshot.
* **Order at the card.** Nothing in this repository says in which order the card executes what is
  queued. `Offload` lets it take any request next, and an operation that timed out then writes over an
  input of the next one, or over its output before that is read: the provider gets a wrong
  result with status OK. `OffloadResultIsOwn` excepts these cases, and only these (`stray`).
* **Flags of a reply.** `Mp3Stream` assumes that a read's reply still shows BACKPRESSURE
  (`ReadsKeepFlag`); otherwise a refused feed is not repeated. mpega.library is checked, and the
  theorems about it hold, with a full ring and a card that decodes all it can within one call
  (`GoodSetups`).
* **Films.** The films of `audio` are interleaved as an encoder does: where the sound runs
  ahead of the picture by more than the card's ring and both AHI buffers before a frame, the card
  cannot reach the frame and zzplay waits for it without playing; those films are left out. When
  the sound has run out, frames are shown as fast as they are decoded. AHI that stops answering in
  mid-film is noticed only by the user. A user who stops between the last buffer and
  the drain gets an underrun reported, so `UnderrunsAreGaps` speaks of films that end by themselves;
  it does not say every gap is counted: a buffer linked to one that has just finished hides one.
  Showing and dropping a frame are not told apart.
* Not modelled of zzplay: MHI, playing through AX (only that it may be busy), the picture window.
* Not modelled, with the reason in `components`: pure packing and tables, sequential tools,
  cryptographic arithmetic, vendored code, the firmware itself.

## 6. Plan

In order of importance, with what each would settle:

1. *The dispatcher beside armed contexts*: `AsyncLibrary` and `IrqWait` share the enable bit, the
   acknowledge register and the server chain; the dispatcher has no heartbeat.
2. *SharedAlloc* (`host/src/zz9k_host.c`): the failing paths of surface allocation, which do not
   free the card's handle, beside those of `Offload`.
3. *Archive streaming* (`tools/zz9k-archive.c`): the ring of a streamed decompression, whose
   protocol resembles `Mp3Stream`'s.
4. *The scatter-list and pump variants* of the audio lease.
