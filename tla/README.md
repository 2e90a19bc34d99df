# A TLA+ specification of the nvr recorder

The repository is the software of a network video recorder: a handful of
processes on an embedded Linux board that pull streams from IP cameras, pass
them through frame pools in a kernel module, record them to disks, and serve
them to a screen, to RTSP clients and to the web.  This directory holds TLA+
modules of its core, the TLC configurations that check them on small instances,
and theorems with TLAPS proofs.  Chinese comments of the sources are quoted in
translation; the sources are GBK-encoded (`iconv -f gbk -t utf8 -c`).

Contents: 1 the system; 2 the modules and the code; 3 the runs; 4 fairness;
5 the proofs; 6 where code and comments disagree; 7 what is not modelled;
8 what is left.


## 1. The system: an inventory

```
 camera ==> protocol server ==write==> +---------+ ==read==> storage ==> disks
            (ipnc/jxj_cu, ...)         | av_pool |           decoder, GUI
                ^   |                  | (kernel)|           rtsp server
  request/      |   | alarm status     +---------+           web, platforms
  response      |   +-------------------->  |  start/stop messages of readers
                |                           v
              +--------------------------------+   record start/stop
              | nvr_server: channels, alarms,  | ------------------> storage
              | recording, parameters          |
              +--------------------------------+
```

### av_pool: frame pools (`av_pool/driver`, `av_pool/lib`)

*State.*  Per camera and stream (and one for the talk channel): a ring of bytes;
the write position; number and position of the newest frame, of the newest I
frame, of the oldest frame and of the oldest I frame; the largest frame; counts
of writers and of readers; a wait queue.  Per read handle, in the library: the
number and position of the next frame wanted, a "must be an I frame" flag, and a
buffer.  Per camera, an alarm status with a wait queue.

*Operations.*  Start, write and stop by one writer; start, read (with or without
a wait, next frame or oldest) and stop by any number of readers; get and set the
alarm status.  The library also sends a message to nvr_server whenever a reader
starts or stops.

*Interactions.*  Every process of the recorder maps to it through ioctls.  The
writer never waits for readers: it overwrites what is oldest.  A reader holds no
lock between two reads, only a cursor into a ring that goes on without it.

*Hard.*  Positions remembered while the ring is overwritten; wrap-around
arithmetic; marks that must be moved before what they mark is overwritten, by
loops that run with a kernel semaphore held; copies that fail half-way; resets
under readers that stay; a wait that can miss what it waits for.

*Correct means:* what a reader gets is a frame that was written, whole, in
order, starting from an I frame after a gap; the marks mark frames; the loops
end; a waiting reader wakes.

### nvr_server: channels (`server/app/src/nvr_channel.c`)

*State.*  Per channel: a chain of handles (protocol server, camera, login, one
per stream), the configuration of the last check that succeeded, a count of
readers per stream, a mutex.

*Operations.*  A check (every 5 s, and when asked for) that walks the chain and
opens what is missing; start and stop messages from readers; stop timers of
30 s; get/set parameters and PTZ, each of which ends the login when it fails;
configuration updates.

*Hard.*  A check is several slow requests to another process, any of which may
fail, on a copy of a configuration that changes meanwhile; a reader is counted
through a queue, a thread, a mutex that is released before the count, and a
timer on another thread.

*Correct means:* no handle outlives what it hangs on; the channel ends connected
to the camera configured, or closed if disabled; a stream is pulled while it has
readers and given back when it has none.

### nvr_server: recording and alarms (`nvr_rec.c`, `nvr_alarm.c`)

*State.*  Per channel: does it record and with what type, as far as nvr_server
knows; alarm flag; alarm tail; manual flag.  In the alarm check: a three-valued
debouncing state and a countdown.

*Operations.*  A decision every 10 s and at every alarm, command or update
(manual, timed, alarm, timed-and-alarm, all day); an alarm check every second.

*Hard.*  What the storage process does is remembered, never asked; results of
stops are ignored; the storage process formats disks, dies and restarts on its
own; the tail counter is shared by several modes.

*Correct means:* the storage process records exactly when configuration, alarm
and command say so, and what it was told.

### storage (`storage/app/src`)

*Baskets* (`strg_basket.c`): preallocated files with a global record, a list of
fragments and an index of I frames; written by one channel at a time; read,
queried and scanned after a power cut.  *Disks* (`strg_disk.c`, `strg_mng.c`):
which basket a channel gets, the oldest one overwritten when none is free; a
global file and a flag file that tells a clean shutdown; disks that are
formatted, fail or disappear.  *Recording* (`strg_record.c`, `strg_server.c`):
one thread per channel that copies frames from a pool to a basket, players, a
format thread that stops and restarts them all.

*Hard.*  Two writes to a record that must agree, with a power cut between them;
an index whose old entries look valid; locks released between choosing a basket
and writing to it; formatting under readers and writers.

*Correct means:* after any crash a scan finds exactly what was completed; two
channels never share a basket; nobody reads a basket that is being overwritten;
what was recording before a format records after it.

### ipnc (`ipnc/lib`, `ipnc/*_cu`, `ipnc/jxj_ti`)

A client library and a server skeleton that exchange request and response over a
local socket, and one process per camera vendor behind it.  *State:* connections,
the pending request.  *Hard:* a response carries no number, so that a late one
answers the next request.  *Correct means:* each request gets its own answer.

### watchdog (`tools/wdt`)

Watches the processes of the recorder, restarts one or reboots the board, and
counts boots in a micro-controller so that repeated failures lead to the default
file system.  *Correct means:* a dead process is never left unnoticed, and a
board that fails to come up falls back.

### The rest

Parameters and network services of nvr_server, the RTSP server, decoder and GUI,
web server and platform clients, and the libraries under `private/` and
`public/`: request handlers, protocol encodings, user interface and vendored
code with little concurrency of their own.  PROJECT.json lists each with the
reason it is left out.


## 2. The modules and the code

| module                 | models                                                  | against                     |
|------------------------|---------------------------------------------------------|-----------------------------|
| `AvPool`               | one frame pool, its writer and its readers              | `av_pool_mng.c`, `av_pool.c` |
| `AvPoolWait`           | reads that wait for a frame; extends `AvPool`           | `av_pool_mng.c`             |
| `AvPoolClaims`         | what a comment says of a pool and the code does not do  | the same                    |
| `NvrChannel`           | one camera channel                                      | `nvr_channel.c`             |
| `MCNvrChannel`         | which stream each reader of an instance reads           |                             |
| `NvrRec`               | the recording of one channel, in two processes          | `nvr_rec.c`, `nvr_alarm.c`, `storage_lib.c`, `strg_record.c` |
| `StrgDisk`             | one disk: who records to which basket, who plays one    | `strg_disk.c`, `strg_mng.c`, `strg_record.c` |
| `StrgLog`              | what a basket promises                                  |                             |
| `StrgBasket`           | one basket: its file, the page cache, crashes, the scan | `strg_basket.c`             |
| `AvPoolProofs`         | types, integrity of frames and reads, order of delivery |                             |
| `AvPoolWalkProofs`     | the walks of the writer, the chain of frames, the oldest mark |                       |
| `AvPoolWaitProofs`     | a pool with waiting readers implements the pool         |                             |
| `NvrChannelProofs`     | the chain of handles, the camera a check ends with      |                             |
| `NvrChannelCountProofs`| the counts of readers                                   |                             |
| `NvrRecProofs`         | what nvr_server believes is recorded, types, tails      |                             |
| `StrgDiskProofs`       | where a basket is, and that played ones are kept        |                             |
| `StrgBasketProofs`     | a basket implements `StrgLog`                           |                             |

Two modules are refinements.  `StrgBasket` implements `StrgLog`: `ClosedNow` and
`TailNow` map a file, a disk and what is in memory to a sequence of finished
fragments and one open fragment.  `AvPoolWait` implements `AvPool`: the loop of a
blocking read does nothing to a pool that a read does not do.

A definition named `...Mutant`, introduced by a "Mutant:" comment, or written
just before the definition it varies and named after it (`NextSecUncounted`,
`RestartedRefused`), is a plausible bug: nothing uses it.  PROJECT.json names, for
every property, one definition and the mutant that makes the property fail in the
run that checks it.

### AvPool

*Unit.*  The driver rounds headers and payloads to 64 bytes, so that every
position it computes is a multiple of 64.  A cell of the model is 64 bytes: one
cell of header, `len` cells of payload.  `hdr[p]` is the header in cell `p`, if
the flags and the number there are those of one; `body[p]` is the number of the
write whose payload is in cell `p`.  A payload written over a header destroys it
(the payload of a frame never looks like a header: both start flags, end flag
and a number that is not 0).

*Atomicity.*  `av_pool_write_frame` holds `down_write` and a read `down_read`
from the first access to the ring to the last, hence `WriteFrame`, `WriteFault`,
`Reset` and `Read` are one action each.  The library's `-ENOMEM` loop is two
ioctls: `Read` leaves the cursor `short`, and `GrowBuffer` is a step of its own
between which and the next read the writer may write.

| code                                          | model                           |
|-----------------------------------------------|---------------------------------|
| `av_pool_write_frame`, `av_pool_write_av_data`| `WriteFrame` = `Stamp`, `Store` |
| the same when `copy_from_user` fails          | `WriteFault`                    |
| `av_pool_refresh_oldest_frame_pos`            | `RefreshOldest`, over `Walk`    |
| `av_pool_refresh_oldest_iframe_pos`           | `RefreshOldestI`, `FirstIFrom`  |
| `av_pool_reset_pool`                          | `Reset`                         |
| `av_pool_read_av_data`                        | `ReadPos`, `ReadWith`           |
| `av_pool_search_data`                         | `SearchData`                    |
| `av_pool_start/stop_read_frame` (library)     | `StartRead`, `StopRead`         |
| `av_pool_read_frame` (library)                | `Read`, `ReadOldest`, `GrowBuffer` |

Where a walk starts at a cell without a header (a mark lost to 0), the code reads
a length out of payload bytes: the model lets the walk go on at any cell
(`Garbage`).

*History variables* (`writes`, `epoch`, `faults`, `got`) observe and guard only
the bounds.

### AvPoolWait

A read with a timeout is a loop: look at the pool with the semaphore held, let it
go, sleep in the pool's wait queue, look again.  `at[r]` is the place in the loop,
`pending[r]` a signal that the reader takes when the call returns.  Time is left
out: a sleep may end by its timeout at any moment.  The gap between the look and
the sleep, in which a write wakes nobody, is the state `looked`.

| code (`av_pool_mng.c`, from line 745)           | model                          |
|-------------------------------------------------|--------------------------------|
| the read in the loop of `av_pool_read_frame`    | `Look`, which is `AvPool!Read` |
| `interruptible_sleep_on_timeout`                | `FallAsleep`, `TimeOut`        |
| a signal to the process that reads              | `Signal`                       |
| `wake_up_all` at the end of a write             | `WakeAll`, within `Write`, `Fault` |
| start, stop, a larger buffer: no read under way | `Outside`                      |

### NvrChannel

*Handles* are modelled by what they lead to: `server` is the protocol server
connected to, `ipnc` the camera, `stream[i]` the camera the stream comes from.
User, password, ports and the channel on a camera are part of the protocol or
the address, whichever of the two checks compares them.

*Atomicity.*  A check holds the channel's mutex from `CheckBegin` to its end, but
the av-message thread, the timers and the configuration do not all need that
mutex.  So each request of a check is an action (`CheckServer(ok)`,
`CheckIpnc(ok)`, `CheckLogin(ok)`, `CheckStream(i, ok)`), with `ok` the outcome,
and the others interleave where the code lets them: `HandleStart` and
`RequestFails` wait for the mutex, `CountReader`, `HandleStop`, `StopTimer` and
`SetCfg` do not.  `CheckRead`, the copy of the configuration, comes before the
mutex, as in the code.

| code                                              | model                      |
|---------------------------------------------------|----------------------------|
| `nvr_channel_check_status`                        | `CheckRead` ... `CheckSave`|
| `nvr_check_handle`, `_ipnc_handle`, `_logon_handle`, `_stream_handle` | `CheckServer`, `CheckIpnc`, `CheckLogin`, `CheckStream` |
| `nvr_channel_close_all_handle`                    | within `CheckBegin`        |
| `av_pool_start/stop_read_frame`, `av_pool_send_msg`| `OpenReader`, `CloseReader`, `Send` |
| `nvr_channel_av_msg_func`                         | `AvMsgThread`              |
| `nvr_channel_start_stream`                        | `HandleStart`, then `CountReader` |
| `nvr_channel_stop_stream`, its timeout            | `HandleStop`, `StopTimer`  |
| `nvr_channel_get_param`, `_ptz`, `_set_param_timeout` failing | `RequestFails` |
| `nvr_channel_update_cfg`                          | `SetCfg`                   |

Channels share nothing but the pool thread that checks them one after the other,
so one channel is modelled.

### NvrRec

*Two processes.*  `started`, `rtype`, `sec` are what nvr_server remembers
(`gStartRec`, `gRecType`, `gAlarmSec`); `store` and `format` are what the storage
process does (`write_info`, `g_format_status` and the two masks of channels).
Nothing but requests connects them, and a request ends in one of four ways
(`Answers`): answered; never heard; heard with the wait for the answer
interrupted; or the storage process dies with it, which
`storage_lib_send_and_recv_packet` takes for success, since `read` returns 0 at
the end of a connection and the request's own header, with a result of 0, is
still where the answer should be.

*Atomicity.*  `nvr_rec_ctrl` runs under a lock, one decision at a time, and makes
one or two requests.  Each request is an action; `pc` says which part of the
decision comes after the first.  In between the storage process takes its own
steps and a command may arrive, while the alarm check, which is on the same main
loop, and a change of configuration, of which a decision has a copy, wait.  The
storage process handles requests and the end of a format on one main loop, and a
format closes recordings on a thread: `FormatStart`, `FormatCloses(ok)` and
`FormatRestart` or `FormatEnd` are the steps.

| code                                            | model                        |
|-------------------------------------------------|------------------------------|
| `nvr_rec_ctrl`, manual part                     | `StopWrongKind`, `StartManual` |
| `nvr_rec_ctrl`, the rest                        | `Decide`: `Begins`, `Ends` or `GoesOn` |
| `nvr_alarm_check_timeout`, `nvr_rec_alarm`      | `AlarmCheck`                 |
| `nvr_rec_manual`, `nvr_rec_update`              | `SetManual`, `SetCfg`        |
| `storage_lib_record_start`, `strg_record_start` | `Start`                      |
| `storage_lib_record_stop`, `strg_record_stop`   | `Stop`; of another channel: `OtherStop` |
| `strg_record_format_disk_start`, `_stop`        | `FormatStart`, `FormatEnd`   |
| `__strg_record_format_disk_func`                | `FormatCloses`, `FormatRestart` |
| either process ends and is started again        | `ServerDies`, `StorageDies`  |

The five branches of `nvr_rec_ctrl` for the configured type are one decision over
`Due`, the types the configuration asks for now: begin with them, end, or go on.

*History variables* say when what nvr_server believes may be wrong through no
step of the two modelled protocols: `forgot` (the storage process lost the
recording), `apart` (a request did not end as nvr_server assumes), `quiet` (how
long there has been no alarm).

### StrgDisk

*State.*  The lists `new` (`bgi_new`) and `old` (`bgi_old`) of baskets to take,
those of the disk's present round and those of earlier ones; `recent`, the
baskets whose use count is that of the disk; of each basket its channel, the
reading flag in its status and the room left; `cur`, the basket each channel
writes.  The global file (`saved`) and the write-flag file (`flagged`) are what
the next start finds.

*Atomicity.*  A start holds the manager's lock from `TakeMng` to its end (`mng`),
but the disk's lock only in each of its steps, so that the main loop takes its own
steps in between.  A write of frames holds neither lock: setting the flag of a
full basket, a read and a write of the whole status word, is two actions, and a
player that sets or clears its flag between them loses.  `wrong` records that
this happened, or that a restart read back the flag of a player that is gone.

| code                                                       | model                     |
|------------------------------------------------------------|---------------------------|
| record thread begins, is stopped                           | `Begin`, `End`            |
| `strg_mng_write_start`                                     | `TakeMng`, then `Start`   |
| `strg_disk_write_start`, `strg_disk_alloc_basket`          | `Continue`, `Reset` (`strg_basket_reset`) |
| `strg_mng_write_start`, no basket: `strg_disk_reset`       | `GoRound`, `DiskReset`, `Refused` |
| `strg_basket_write`, and when a basket is full             | `Write`, `LoadFlags`, `StoreFlags` |
| `strg_mng_write_stop`, `strg_disk_write_stop`, `strg_disk_free_basket` | `Stop` over `GivenTo` |
| `strg_mng_write_set_overwrite`                             | `SetOverwrite`            |
| `strg_disk_read_start`, `_stop`, `strg_basket_read_start`, `_stop` | `PlayStart`, `PlayStop` |
| `strg_record_uninit`, `strg_mng_uninit`, `strg_disk_global_open` | `Restart`           |
| the process is killed; `strg_disk_global_scan`             | `Kill`                    |

A list is a set: which of the baskets that qualify comes first decides none of
the properties.

### StrgBasket

*Unit.*  A group: an I frame and the frames up to the next one.  A group takes one
index entry and one unit of space (`Slots`), and its number stands for the time
and the frame number of its I frame.

*Two copies.*  `file` is what the process reads and writes, `disk` what is there
after a power cut.  The kernel writes pages when it likes.  The global record and
the first headers are one page (`FirstPage`), which `WriteBack` and `PowerCut` may
write as a whole; of every other header, index entry and group of frames a power
cut takes or leaves each by itself.  A kill loses nothing that was written.

| code                                                     | model                         |
|----------------------------------------------------------|-------------------------------|
| `strg_basket_reset`                                      | `Reset`                       |
| `strg_basket_write_start`: two writes, one `fdatasync`   | `StartHeader`, `StartGlobal`, `StartSync` |
| `strg_basket_write`                                      | `Write`                       |
| `strg_basket_write_stop`                                 | `StopHeader`, `StopSync`      |
| `strg_basket_scan`                                       | `Scan` over `Good`, `Restored`, `Recovered` |
| `strg_basket_scan_iframe`                                | `Found`, `Follows`, `Salvage` |
| the kernel; the process dies; the power fails            | `WriteBack`, `Kill`, `PowerCut` |

`Header.late` is the one detail of time that matters: the time of the first frame
may have been taken before the begin time of its fragment, and the scan then
gives the fragment up.

### How they fit together

A stream that `NvrChannel` pulls (`stream[i] # Off`) is the writer of one
`AvPool`; `OpenReader`/`CloseReader` are the messages that `StartRead`/`StopRead`
of that pool send.  A recording of `NvrRec` (`store.on`) is a record thread of
`StrgDisk` (`rec[c] # "off"`), a reader of that pool; `StrgDisk`'s `Reset`,
`Write` and `Stop` are what `StrgBasket` does to one file: `Reset`, the starts,
writes and stops of its fragments.  What a basket holds decides nothing in
`StrgDisk` but whether there is room, and `StrgDisk`'s `Kill` lets a scan give
room back, which is what `StrgBasket` shows a scan to do.  The modules share no
variable: a ring does not depend on who asked for the stream, a channel only sees
readers come and go, and a basket belongs to one channel at a time, which is
`EachBasketOnce`.


## 3. The runs

`tlc -workers 2 -config X.cfg M` for each row.

### Passing runs

**pool_readers** (`AvPool`, `AvPoolReaders.cfg`; about 1,013,000 states).  A video
pool with I and P frames of 1 and 2 cells in a ring of 8, six writes, one of which
may fail after any number of cells, one reset, and a reader that starts, stops,
reads or asks for the oldest frame at any time, whose buffer may be too small,
whose delay limit is two frames, and which may be lapped.  The ring holds two to
four frames, so it is lapped more than once and frames end at, before and after
its end.  Readers do not influence each other or the writer, so that one is
enough.  `FramesAreChained`: from each frame, its length leads to the next, and no
more numbers are left out than copies failed.  `OldestIsFrame`: the oldest mark is
never left on an overwritten frame, and is on a frame whichever copies fail.  `RefreshTerminates`: the loops that run with the semaphore
held end, from every state and for every next write.  `DeliveredIntact`: header
and payload of one write.  `ReadsGoForward`: in one stream, a frame asked for as
the next is newer than the last.  `NoPAfterGap`: a P frame is delivered only right
after its predecessor.  `MissedOnlyIfLate`: a frame that is in the pool and recent
is not passed over.  The limits of the code (30 frames, 5 frames) are scaled
down with the ring, `AheadLimit` 3 and `FirstGap` 1, so that both sides of each
are reached.

**pool_wait** (`AvPoolWait`, `AvPoolWait.cfg`; about 374,000 states).  The talk
pool, audio only, ring of 7, seven writes, one failing copy, one reset, one reader
that waits, one signal.  `FramesAreWhole` and `ReadsGoForward` of the pool;
`NewestIsRead`: a reader that looked just before a frame came and slept just after
it was announced still gets it, though no other frame follows; `ReadEnds`: a read
with a timeout returns.

**channel_handles** (`MCNvrChannel`, `NvrChannelHandles.cfg`; about 617,000
states).  One protocol, two cameras, two readers of the second stream that may
start before the channel is logged on, requests that fail at any point,
configuration changes to cameras not chosen before.  `HandlesFormChain`,
`NeverOvercounted`, `CheckedIsConfigured`.  Two cameras are enough for a change;
two readers for one to overtake the other.

**channel_counts** (`NvrChannelCounts.cfg`; about 23,000 states).  Readers of
both streams come and go on a channel that is connected: `CountIsExact`, and the
liveness properties `ReadersServed` and `UnreadIsReleased`.

**channel_live** (`NvrChannelLive.cfg`; about 6,500 states).  Two protocols with
two cameras each, no readers, any change of configuration at any time, failing
requests: `DisabledIsClosed`, `LoggedOnAgain`.

**rec_believed** (`NvrRec`, `NvrRec.cfg`; about 557,000 states).  Everything that
can happen to the recording of one channel, in any order and as often as it
likes; nothing is counted or capped but the tail (2 decisions instead of 60) and
the debouncing of alarms (1 check instead of 10).  The types all-day, alarm, and
timed-and-alarm; plain timed recording is the last of them without an alarm.
`BelievedIsRecorded`: what nvr_server takes for recording is recorded, but for
the time of a format.  `TypeIsAsBelieved`: with the type it takes it for, unless
a request did not end as assumed.  `TailIsWhole`: a plain alarm recording ends
only after `Tail` decisions without an alarm.
`WantedIsRecorded` and `UnwantedIsStopped`: when configuration, command and clock
rest and both processes live, recording follows what is wanted.

**disk_baskets** (`StrgDisk`, `StrgDisk.cfg`; about 961,000 states).  Two baskets
of one frame each, two channels, two players, any change of the overwrite mask,
restarts and kills, nothing capped.  Two baskets for two channels leave none
over, so that rounds begin while baskets are written and played.
`EachBasketOnce`: two channels never write one basket, and none is lost between
the lists.  `ListsMatchUse`: a basket of the present round is not among those to
overwrite, also one given back after a round it was not taken in.
`UnsavedIsScanned`: while a channel writes, the flag that makes a start look at
the baskets is on the disk.  `PlayedIsKept`: a basket that is played is not reset,
unless its flag was lost to the race or left behind by a restart.
`WantedIsWritten`: a channel that is to record gets a basket, when all may be
overwritten and the players leave theirs alone, unless each basket is written or
has a player's flag.

**basket_log** (`StrgBasket`, `StrgBasket.cfg`; about 1,731,000 states).  A basket
of four groups and two fragments, used twice, four groups written, two crashes,
each a kill or a power cut, in any phase.  Two uses leave old index entries behind
new ones; two crashes let the second come before anything was synchronised after
the first; the limit of the scan is two groups, so that a fragment may be shorter,
as long and longer.
`KeepsLog`: it implements `StrgLog`.  `ReadableUnlessCut`: without a power cut,
what is there can be read to the end.  `FragmentsApart`: fragments lie one after
the other, also behind one that was recovered.  `KillCosts`: what a process that
dies while it writes leaves of its fragment, exactly: all groups but the last, up
to the limit of the scan, whatever older uses of the file left behind them.

Deadlock is not checked in `disk_baskets` and `basket_log`.  A basket whose uses,
groups and crashes are used up stops; a disk never does.

### Runs that refute a claim

**pool_first** (`AvPoolClaims`), **channel_reselect** (`MCNvrChannel`),
**rec_manual** (`NvrRec`) and **basket_gop** (`StrgBasket`): section 6.

### Bounds

| bound        | what it caps, and why it is enough                                  |
|--------------|----------------------------------------------------------------------|
| `MaxWrites`  | frames written: the ring is lapped at least once and mostly twice   |
| `MaxResets`  | writer restarts: one is enough to have two streams under one cursor |
| `MaxFaults`  | failed copies: one, at every length, in every phase                 |
| `MaxSignals` | signals to readers: one, in every phase of a read                   |
| `MaxMsgs`    | length of the message queue; large enough that nothing is dropped, see 7 |
| `MaxTimers`  | messages and timers pending when a reader starts                    |
| `MaxDrift`   | how far below zero a count may be when a reader starts              |
| `Players`    | read handles on a disk: two, so that one may leave another behind   |
| `Units`      | frames that fit in a basket: one, full and not full                 |
| `MaxUse`     | resets of a basket: two, so that there are old entries              |
| `MaxGop`     | groups written: as many as fit in one use, or fewer in each of two  |
| `MaxCrash`   | crashes: two, so that one meets what the scan of another left       |

Counts below zero drift without bound in the code (section 7), which is why
`MaxDrift` exists; `channel_handles` sets it to 1.


## 4. Fairness

Safety needs none.  The liveness runs of `NvrChannel` use its `FairSpec`:

- `WF_vars(Check)`: the 5 s timer is periodic and the pool has a thread for it;
  a check that has begun goes on, each request ending in success or failure
  (the library has timeouts).
- `SF_vars(AvMsgThread)`: the thread waits for a mutex that is free between any
  two checks, again and again but not always, which is why weak fairness says
  nothing.  A waiter on a mutex that is released for seconds every time gets it.
- `WF_vars(StopTimer(i))`: the main loop runs the timers that are due.
- `SF_vars(...(TRUE))` for each request: a request that is made again and again
  does not fail for ever.  No code can make a camera answer: this is the
  assumption under which "is logged on again" means anything.  That it succeeds
  once says nothing about the requests after it.

Nothing obliges a reader to start or stop, a configuration to change, or a
request to fail.

`FairSpec` of `NvrRec` is `SF_vars(Ctrl("ok"))`: the ten-second timer never
stops, and of the requests it makes again and again not all are lost.  Nothing
obliges a format to end, an alarm to come or go, or a process to live: the
liveness properties speak of behaviours that come to rest in these (`Steady`).

`WaitSpec` of `AvPoolWait` has weak fairness of a reader's own steps: it reads
again (`Look`), it goes to sleep (`FallAsleep`), a sleep ends (`TimeOut`, which is
what the timeout is for), and a reader told that its buffer is too small gets a
larger one (`GrowBuffer`).  Nothing obliges anyone to write, which is why
`NewestIsRead` says something: the frame that was missed is the last one.

`LiveSpec` of `StrgDisk` has `WF_vars(Start(c))`, since a thread with the lock of
the manager goes on, and `SF_vars(TakeMng(c))`, since that lock is held for a few
system calls, and who was refused sleeps for three seconds.  Nothing obliges a
channel to write, to fill a basket or to stop, or a player to go.


## 5. The proofs

`tlapm M.tla` for each of the eight `...Proofs` modules.  All theorems hold for
every value of the constants that satisfies the module's `ASSUME`s and, where one
is named below, a further hypothesis of the theorem.

### av_pool

**`TypeCorrect`** (`AvPoolProofs`): `Spec => []TypeOK`.  From `RingAssumption`
(payloads leave a cell for the header), `ReaderAssumption` and
`BoundAssumption`.  The type invariant is inductive; what needs work is that
every computed position stays in the ring (`AdvInCells`), and that a position a
refresh or a search returns is a cell or unset.

**`PoolIntegrity`**: `Spec => []FramesAreWhole`.  A frame of the ring is whole,
though no write looks at the frames it overwrites in the middle.  The invariant
`IntegrityInv` is `TypeOK`, `FramesAreWhole`, and the missing half `NoStraddle`:
the payload of a frame does not contain the write position, but for the frame
whose copy failed, which sits at the write position.  Then a write that takes the
cells from `w` meets the header of an old frame before its payload: either it
takes the header or it takes nothing of the frame.  That is arithmetic of arcs on
the ring (`DisjointArcs`, `NextNotInside`, `Survivors`).

**`ReadsIntact`**: `Spec => DeliveredIntact`, for any reader with any cursor and
with failing copies.  A read copies from a position that holds a header, and the
frame there is whole.

**`ForwardAlways`** and **`NoGapAlways`**: `ReadsGoForward` if `AheadLimit > 1`,
and `NoPAfterGap` in a video pool.  `OrderInv` relates what a reader was given
last to the number and the epoch its cursor asks for; it is the search for a late
reader (`SearchData`) that could go back, and the limit that keeps it from doing
so is the hypothesis: 30 in the code.

**`RefreshAlwaysTerminates`** (`AvPoolWalkProofs`): the loops end, if any two
frames with their headers leave a cell of the ring free (`SmallFrames`).  A walk
moves by at least one cell each step and stays behind the position it started
from, one turn of the ring later (`WalkProgress`).  `RingAssumption`, which is what
the driver checks, is not enough: two frames that fill the ring make the loop
turn for ever.

**`ChainedAlways`** and **`OldestIsFrameAlways`**: with `SmallFrames`, and whichever
copies fail.  The two need each other, since the walk that moves the mark starts
at it, and `WalkInv` adds `OldestApart`: the mark is at the write position only
while the first frame of a stream is written again and again.  That is the one
place from which a walk may step off the chain, through the length of a frame
that is not complete; it loses the mark, which becomes position 0, and position 0
is where the frame is written again.  Everywhere else a failed copy sits at the
write position, behind the chain, and no walk gets there (`WalkLeaves`).

**`MissedOnlyIfLateAlways`**: with `SmallFrames`.  The invariant `PlaceInv` relates
what a reader remembers to the ring: as long as no copy failed, the position is
where the frame asked for is, if the ring has it, and where it will be written, if
it is the next (`Placed`).  That a read leaves the cursor there is what the chain
is for; that a write keeps it so needs that numbers are not given twice
(`Distinct`).

**`WaitImplementsPool`**, **`WholeWhileWaiting`**, **`IntactWhileWaiting`**,
**`ForwardWhileWaiting`**, **`MissedWhileWaiting`** (`AvPoolWaitProofs`):
`WaitSpec => Spec`, and what follows from it.

### nvr_server

**`TypeCorrect`** and **`ChainHolds`** (`NvrChannelProofs`): `Spec => []TypeOK` and
`Spec => []HandlesFormChain`, for all sets of protocols, cameras and readers and
all failures.  The invariant `ChainInv` adds `StepsInOrder`: a check that is past
a step has the handle that step opens, *as long as it holds the mutex*.  Without
it a stream could be started for half a connection; a failing request cannot
break it because it waits for the mutex.

**`CheckedIsConfiguredAlways`**: if no camera is configured a second time, and all
speak one protocol.  `InTurn` says that configurations are checked, and then
saved, in the order in which they were set, and that the connection is to a later
camera than the saved one only if that one is gone for good.  Both hypotheses are
needed (section 6).

**`NeverOvercountedAlways`** (`NvrChannelCountProofs`): if the queue has room for a
message of every reader (`QueueHolds`).  The reader count and what is on its way
to it are sums over a queue, a thread, timers and readers; `Balance` says of each
step by how much each part changes.  What a stream still lacks, `Missing(i)`, is
at least 0, and never gets less.  `NoDrop` is the other half: an open reader still
has a place in the queue for its stop.

**`CountIsExactAlways`**: if, besides, readers start on a connected channel only
and nothing disturbs it (`Quiet`), `Missing(i)` is 0.  The invariant adds that
while anybody reads or is on the way the channel is connected.

**`TypeCorrect`** and **`RecordingHolds`** (`NvrRecProofs`): `Spec => []TypeOK` and
`Spec => []BelievedIsRecorded`, for any length of tail, any debouncing and any
recording types, from `RecAssumption` (the two lengths are positive).  Neither is
inductive.  `RecInv` adds, for the type, `TailLeft`: an alarm recording that goes
on has not used up its tail, although the counter is shared with other modes.
For the belief it adds `Held`: at each stage of a format, the recording is in the
mask from which *that way of ending* restarts it: a format that succeeds restarts
from `bak`, which stops may change, and one that fails from `was`, which they may
not.  And it adds `Between`: after the first of two requests nothing is taken for
recording.  `Held` is what breaks if the result of a refused start is not looked
at.

**`TypeIsAsBelievedAlways`**: `KindInv` adds that what nobody believes in is not
recorded, since a recording that goes on unnoticed is what a start finds busy,
with another type.

**`TailIsWholeAlways`**: `Spec => TailIsWhole`.  `TailInv`: the counter is not
ahead of the time since the last alarm; and a manual recording is nothing else,
so that no other decision ends an alarm recording.

### storage

**`DiskAlways`**, **`TypeCorrect`**, **`EachBasketOnceAlways`**,
**`ListsMatchUseAlways`**, **`UnsavedIsScannedAlways`**, **`PlayedIsKeptAlways`**
(`StrgDiskProofs`): for any number of baskets, channels, players and frames.
`DiskInv` adds to the five invariants `Owned`, that a thread has a basket exactly
while it writes and asks for one only while it does not, and `FlagStands`, that
the flag of a played basket is there unless the race or a restart spoilt it.

**`TypeCorrect`** (`StrgBasketProofs`): `Spec => []TypeOK`, for any number of
headers in the first page.  `TypeInv` adds that the header a start has written is
there until it is counted.  What needs work is that the `Max` of a scan exists and
lies in the basket (`RecoveredIs`).

**`BasketAlways`**, **`FragmentsApartAlways`**, **`BasketKeepsLog`**,
**`ReadableAlways`**: for any numbers of fragments, groups,
uses and crashes, and any limit of the scan, of each behaviour in which the
fragments counted have their headers in the page of the global record
(`[]FewFragments`; 64 in the code).  That is a hypothesis on what is done with the
basket, not on the constants; where all headers are in that page it always holds
(`AllInOnePage`).  `OnePageAlways` carries it over to what is on the disk, where a
scan after a power cut will look.

`BasketInv` says for each phase what file, disk and memory have to do with each
other.  Its core is about an open fragment (`OpenInv`): the closed fragments are
the same on the disk as in the file, the header on the disk is the one the
fragment began with, and behind what is written there are only index entries from
before.  From it follow what the scan computes (`Salvage`, `Recovered`) after a
kill and after a power cut, which `KillMaps` and `PowerCutMaps` map to
`StrgLog!Crash`, and that a scan changes nothing that can be seen (`ScanMaps`).

**`FileAlways`**, **`ApartUntilCut`**, **`KillCostsAlways`**: the same constants, and
no hypothesis on where the headers lie.  `FileInv` leaves the disk aside and says
what a process that reads its own writes has in file and memory: the headers of
what it closed (`ClosedInv`), how many there are (`CountInv`), and of an open
fragment that its groups have successive times from its begin time to now, with
nothing behind them but entries from before (`InStep`).  A power cut may leave any
mixture of pages, but the scan makes of it a list the process then agrees with, so
`FileInv` holds through cuts as well; only that the fragments lie one after the
other holds until the first of them (`ApartInv`).  `KillCosts` follows: the entries
that go on from the first one are those up to the limit (`KillFinds`), and the
older ones behind them end the scan.  `FileInv` and `KillCosts` were checked with
TLC at `Shared = 1` before they were proved.

### What is not proved

Induction over numbers is used where it can be stated of a set (`Least`, by the
minimum of a well-founded relation; `Induction`, from that), as the walks of
`AvPoolWalkProofs` and the `Max` of the scan need.  Out of reach are the induction
theorems that take an operator.

Every safety property of the passing runs is the subject of a theorem, under the
hypotheses named.  Only model-checked are the liveness properties (`NewestIsRead`,
`ReadEnds`, `ReadersServed`, `UnreadIsReleased`, `DisabledIsClosed`,
`LoggedOnAgain`, `WantedIsRecorded`, `UnwantedIsStopped`, `WantedIsWritten`), since
liveness under fairness is out of the prover's reach.  Of a basket with more
fragments than headers in the first page `TypeCorrect`, `ApartUntilCut` and
`KillCostsAlways` are proved; the log of `StrgLog` and the order of the fragments
are not kept there by a power cut between two pages (section 7).


## 6. Where code and comments disagree

- **pool_first.**  The first read is to return the newest frame
  (`av_pool_mng.c:669`).  It copies from the position of the newest I frame, which
  no audio frame sets: in the talk pool that is position 0, and a reader is given
  whatever frame begins there.
- **channel_reselect.**  A check is to close everything if the camera connected
  is not the one configured (`nvr_channel.c:156`).  It compares with the last
  configuration that was *saved*: after A, a failed check for B, and A again, the
  handles to B stay.  The same happens without a return to A if C speaks A's
  protocol and B another one: C is then sought through the protocol server of B.
  `channel_handles` checks the property with one protocol and configurations that
  do not return, where it holds and is proved.
- **rec_manual.**  A manual recording is to replace another one, which is stopped
  first (`nvr_rec.c:118`).  The result of that stop is not looked at
  (`nvr_rec.c:122`): if it was lost, the start that follows finds the channel busy,
  counts as a success, and the recording goes on with the old type.
  `ManualIsManual` is about the start after a stop only.  An automatic start that
  was carried out but not answered, and so is not stopped, ends in the same way;
  the comment does not speak of that.
- **basket_gop.**  The scan is to cost at most the last group of pictures
  (`strg_basket.c:991`).  It compares each I frame with the *first* one of the
  fragment and ends at the first that is more than 10 s or 200 frames later: in
  the run, where that limit is two groups, a fragment of four comes back with two.
  `OnlyLastGop` is about fragments whose scan begins at all: one whose first frame
  was taken before its begin time is given up before that (`strg_basket.c:987`).
  `KillCosts` is what does hold of both, and is proved.

Read and not run: `u32NewestIFrameNo` is one less than the number
`av_pool_mng.h:54` says it is, and an oldest mark that is lost becomes position 0,
not "none".  A first read of a video pool is not checked for an I frame, as
`av_pool_mng.c:670` says; the check is commented out.  The search for the oldest I
frame goes once round the ring (`av_pool_mng.c:396`), past the write position: if
the only I frame left is the one the write is about to overwrite, the mark is put
on it.  Only a read with a forced I frame uses that mark.


## 7. What is not modelled

*In the modelled components.*  Of a pool: the statistics, the reader and writer
counts of the ioctls, the I-frame request of a reader, and payloads as large as
the ring, which the size check of a write lets through and which would overwrite
their own header (`RingAssumption`).  A reader that stayed through a reset may
find a P frame of the new stream with the number and at the place of the one it
wants: nothing in the driver tells the streams apart, and `ReadsGoForward` and
`NoPAfterGap` speak of one stream.

Of a channel: the parameters set on a camera after a login, `nvr_channel_uninit`,
and that no check is made while the file system is the default one.
A reader that starts before its channel is logged on is not counted while its
stop is, so that the count of a stream falls below what it should be, and below
zero.  No comment claims otherwise; `NeverOvercounted` is the half that holds,
and `CountIsExact` is checked for readers that start on a connected channel.
Likewise a full message queue loses starts and stops: with a queue shorter than
the runs' (`MaxMsgs`), `NeverOvercounted` fails at the lost stop.  The end of the
av-message thread at the first failing `msgrcv`, and protocol servers that
restart, are hazards of PROJECT.json without a property: the model of the ipnc
library is a request that succeeds or fails.

Of a recording: which stream is recorded and the overwrite setting, which decide
nothing there; in particular a change of stream is not noticed while a recording
goes on.  A recording that is timed as well as alarm does not start its tail
afresh when an alarm returns, and `TailIsWhole` says nothing of it.  A channel
whose storage process restarted is not recorded until something else ends what
nvr_server takes for a recording (`forgot`), and one that nvr_server left
recording when it died, or whose stop was lost or put off, is not stopped until
something wants it recorded first (`apart`): no comment says otherwise.

Of a disk: other disks, which are tried one after the other in the same way;
disks that fail, are removed or formatted (`NvrRec` has what a format does to a
recording); queries; a write-flag file that cannot be created.  Pictures: the main
loop saves one through the same start, write and stop as a recording
(`strg_record.c:1025`), without a look at the basket the record thread of the
channel may be writing, which it replaces; `EachBasketOnce` holds only where no
picture is saved while its channel records.  A basket that keeps the flag of a
player that is gone, because the flag of a full basket was written over the
player's change or was saved with it, cannot be written again until a crash: that
is `AllInUse` in `WantedIsWritten`; and one that lost the flag is no longer kept:
that is `wrong` in `PlayedIsKept`.  No comment denies either.

Of a basket: a clock that is set back while old index entries are there; a power
cut in the half minute after a kill in which the kernel still has pages to write;
write errors; the cursor of a player; the copies of headers in the global file.
Headers beyond the page of the global record, from the 64th fragment on: after a
power cut between two pages the global record may count a header of an earlier
use, which `strg_disk.c:319` takes for impossible.

*Components.*  The **watchdog** counts boots together with a micro-controller and
a boot script, neither of which is in the repository: what a count means is not
decided by `wdt.c`, and what is left is one loop over process names.  The **ipnc
library** gives a late answer to the wrong request; nothing in its code prevents
it and no comment claims otherwise, so that there is no property to check that is
not a restatement of that.  The **alarm status** of the av_pool module has a wait
that nothing in the repository calls.  The others of section 1 are encodings, user
interface and vendored code; PROJECT.json gives the reason for each.


## 8. What is left

- Players and the format thread of `strg_record.c`: the list of players that both
  walk, and what a format does to those who play.
- Several disks in `StrgDisk`: which one a channel gets, and a disk that is
  removed under a record thread.
- Queries and the cursor of a player in `StrgBasket`.
- The ipnc library with a number in each response, as a specification of what a
  corrected library would have to keep.
- The composition of `NvrChannel` with `AvPool`, in which a stream that is closed
  resets the pool its readers stay in.
