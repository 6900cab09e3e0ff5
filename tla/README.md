# A verification model of libeasyice

TLA+ modules for the parts of libeasyice that are hard to test: the ring
without locks between two threads, the threads of the live analyser, of the
HLS analyser and of its recording, the state machines of the TR 101 290 checks
that see a stream packet by packet and section by section, and the counts and
lists their errors end in. Paths are relative to the repository; `EasyICEDLL/` is
`libeasyice/src/EasyICEDLL/`.

To check: `tlc -config <run>.cfg MC<Module>` for a run, `tlapm <Module>Proofs.tla`
for the proofs. `PROJECT.json` lists the runs, what each property is broken by
(`mutants`: a changed definition per property), which lines each definition
translates (`map`), where the code disagrees with its own texts (`findings`) and
what is hard to test (`hazards`).

## 1. Inventory

| component | state | operations | how it meets the others |
|---|---|---|---|
| C API (`libeasyice/src/libeasyice.cpp`) | a handle with options and one analyser | init, setopt, process, getinfo, cleanup | calls the analysers in the application's thread |
| ring (`EasyICEDLL/CircularBuffer.cpp`) | slots, `m_start`, `m_end` | `WriteItem`, `ReadItem` | two threads, no lock |
| UDP source (`LiveSource*.cpp`) | a thread, `m_bStop` | run, stop | calls `OnRecvData` in its thread |
| live analyser (`LiveAnalysisImpl.cpp`) | two rings, parsers, probe buffer, record file | open, stop, start and stop of recording | worker, media and record threads; callbacks of the application |
| rate and PCR lists (`LivePcrProc.cpp`) | lists under a lock | `ProcessBuffer`, `AddPcrPid`, `LockGet...` | worker |
| TS and section parser (`MpegDec.cpp`, `DemuxTs.cpp`, `tables/`) | tables, pid types | `LiveProcessPacket`, `ProcessBuffer` | worker, file analyser |
| TR 101 290 (`libtr101290/src`) | sync buffer, counters, tables, clock, times of pids and sections | `AddPacket` | the worker or file analyser pushes packets, errors come back by callback |
| error messages and views (`TrMsgMgr`, `TrMsgView`, `TrView`) | error lists | report, filter, write JSON | callback of TR 101 290 |
| file analyser (`FileAnalysis.cpp`) | read position | `ProcessFile` | calls the parsers in order |
| HLS downloader (`libhlsanalysis/src/cdownloader.cpp`) | playlist, queue of segments, flags | run, stop | main and reload threads, message queue |
| HTTP client, playlist parser | a transfer; the parsed playlist | get, cancel; parse | called by both threads of the downloader |
| HLS messages (`MsgMgr.cpp`) | a queue, a worker | post, clear, destroy | posts from two threads, callback of the application |
| HLS recording (`AsyncSaveFile.cpp`, `csavefile.cpp`) | a queue, a thread, files | start, stop, `OnRecvTs`, `OnRecvM3u8` | segments from the main thread, playlists from the reload thread, stop from the application; only through the C++ class |
| HLS buffer and segment analysis (`BufferAnalysis`, `DlBuffer`, `TsAnalysis`) | buffer level | add | downloader |
| probes, RTP filter, logging, events, vendored code | | | |

What is hard, and what makes a component correct:

* **Ring.** Two threads and no lock; the reader uses an item after `m_start` has
  left it. Correct: a bounded FIFO whose items are never torn.
* **Live analyser.** Five threads share one object that `easyice_cleanup` takes
  apart; recording starts and stops while the worker writes. Correct: every
  thread has ended before what it uses is deleted; recorded data in order and
  complete up to full rings; callbacks that come once come once; calls return.
* **HLS downloader and messages.** A window of segments slides while the main
  loop downloads, retries and pops; Stop comes at any time. Correct: segments in
  order, none twice and none lost without a report; the end is reported, once and
  last; Stop returns.
* **HLS recording.** A third thread writes what the main loop hands over, deletes
  what is old, and is started, told to stop and joined by three different
  threads. Correct: files in the order of the downloads; none deleted that the
  local playlist names; a presentation on demand complete, also when continued
  after an interruption; no thread left behind.
* **TR 101 290.** Long sequences of bytes and packets, off-by-ones, unsigned and
  wrapping arithmetic, times that are stale. Correct: sync is found again, and
  an error is reported exactly when there is one.
* **Sections and error counts.** Sections are cut into packets that get lost,
  damaged or repeated; every error is counted in several counters and kept in
  two bounded lists. Correct: a section is received whole and once or not at
  all; counts are those of the stream, totals the sum of their parts.

## 2. Modules

| module | of | composed of / used by |
|---|---|---|
| `CircularBuffer` | the ring, every access of a shared field a step | refines `BoundedFifo` |
| `BoundedFifo` | what the ring promises | abstract specification |
| `LiveAnalysis` | `CLiveAnalysisImpl` and its threads | uses a FIFO of n - 1 items for a ring of n, which `CircularBuffer` justifies |
| `Downloader` | `CDownloader` and `CHlsAnalysisImpl::Stop` | |
| `HlsRecording` | `CAsyncSaveFile`, `CSaveFile`, with the steps of `CDownloader` and `~CHlsAnalysisImpl` they meet | the downloader of `Downloader`, more coarsely |
| `MsgMgr` | `CMsgMgr` and the destruction of the analyser | |
| `TrSync` | `CTrCore::AddPacket`, `TryToReSync` | what comes before `TrContinuity` and `TrDemux` |
| `TrContinuity` | the continuity check of `CTrCore::ProcessPacket` | |
| `SysClock` | `CSysClock`, `diff_pcr` | the clock of `TrDemux` and `TrReports` |
| `TrDemux` | `CDemux` | |
| `PsiCheck` | `CPsiCheck::PushPacket`, `AddPmtPid` | puts together the sections `TrReports` starts from |
| `TrReports` | `CPsiCheck::OnRecvNewSection` and `OnCrcError`, `CTrMsgMgr`, `CTrMsgView`, `CTrView` | composes four classes, from a section to the counts shown |
| `...Proofs` | theorems about the module of that name, `QueueProofs` about `CircularBuffer` and `MsgMgr`, `TrPacketProofs` about `TrContinuity` and `TrDemux` | |
| `MC...` | constants for TLC | |

State has the names of the code's members; variables that only properties need
are marked *(history)*. A thread is a program counter (`workerPc`) and one
action per stretch of code between two accesses of shared state. A critical
section under a mutex is one action. `ZEvent` waits have a timeout, after which
the loop asks again, so events shorten a wait and are not modelled.

### CircularBuffer

`WriteItem` is `WriteFull` or `WriteBegin`, `WriteData`, `WriteInfo`,
`WritePublish`; `ReadItem` is `ReadEmpty` or `ReadBegin`, `ReadInfo`,
`ReadAdvance`. The fields are plain `int`s. The model lets the accesses of a
thread take effect in program order, which the builds for x86 keep (stores are
not reordered with stores, nor loads with loads); for another memory order the
code gives no guarantee, and neither does the model.

### LiveAnalysis

`Delays` are the times that may pass between two datagrams (`now`), the worker's
phases follow `ProcessItem`, and each `pthread_create` may fail. What the model
takes as given: the application makes its calls from one thread of its own, not
from a callback, and does not start a recording while one runs. `StartRecord`
makes the buffer and initialises it in two steps, as a worker that saw the flag
of the recording before may write in between. On memory deleted or not yet
initialised anything may follow; the model goes on as if the item were lost, and
`LiveAnalysis_recordbuffer` shows that such an access happens. All datagrams have
one length.

### Downloader and MsgMgr

The origin server is external: a window of `Window` segments that slides, and may
end. Playlists are compared by content and segments by name in the code; in the
model a playlist is a window and a segment a number. A transfer ends with
success, a timeout or another failure; after `Cancel`, which sets the flags of
both clients (one flag here), none succeeds. A segment that arrived is popped and
analysed (`LoopPop`, `LoopAnalyse`); one that failed is reported by
`EM_HRT_PROTOCOL_HLS_DOWNLOAD_ERRORS` and dropped (`DownloadFails`, `LoopDrop`);
one that timed out stays. What a live playlist has at the start is skipped. The
checks of the licence (`nHlsAnalysis`, `nlibtr101290`) pass, as the constructors
of the library's own objects make them. Recording is off. In `MsgMgr` a message is its sender and a
number.

### HlsRecording

Recording is on (`SetRecord`, of the C++ class). The threads are `Main`,
`Reload`, `Save` (`CAsyncSaveFile::WorkFun`) and the application (`Stop`).
`CAsyncSaveFile::Start` is two steps, because the new thread and a concurrent
`Stop` run between `pthread_create` and the assignment of `m_bWorkThreadValid`.
A live presentation may end: `ParseStream` clears `b_live` before the last
segments are queued (`ReloadEnd`), and `MainLoop` may leave by then.
`WorkFun` takes its iterator in one critical section and pops in another;
`SaveWrite`, outside both, writes the file, moves its name to the end of the
history and deletes the oldest. On demand the directory may hold what an
interrupted recording left (`Init`). The second `Stop`, in the destructor, joins
a thread already joined: undefined for `pthread_join`, which here returns at
once, as glibc's does. Bytes and names of files are left out, and so are files
cut short.

### PsiCheck and TrReports

In `PsiCheck` a payload is some cells and a section a header of cells and as many
more as its length says. A cell knows its section and its place, so that the CRC
is right just if the cells put together are those of one section, in order.
`PushPacket` is the function up to its loop; `TakeHeader`, `TakeSection` and
`TakeRest` are the three ways through a turn of the loop. `b_discontinuity` is 1
from `NewHandle` on and never cleared, so the test for duplicates (481) never
succeeds; the variable is therefore left out, and a duplicate is a discontinuity.

`TrReports` starts from sections in any order, at any distance. A packet is a tick
of the true time, and a section comes with the packet counted last. The clock is
`SysClock`, driven as `CDemux::UpdateClock` drives it: `PayloadPacket` counts,
`PcrPacket` brings a PCR that goes on from the last or jumps to another offset
from the time. The PCR stays away from its wrap. An error is reported, filtered,
counted and shown in one step, as all of it runs in the thread that adds packets (`OnTrReport` is the callback). The counters, one
member each in the code, are a bag of what was counted: a type, or a table with a
cause; what the forty branches of `ProcessReport` add to them by hand is one rule
(`Causes`, `Totals`), so a slip in a single branch would not show in the model. The other reports of
the library (`OtherReport`) are represented by the PCR interval, whose type depends on its value.

### TrSync, TrContinuity, TrDemux

`TrSync` keeps of a byte only whether it is 0x47. `TrContinuity` has a sender
that counts and a network that loses and repeats; `m_pCC` is the unsigned word
of the code. `TrDemux` keeps of a packet its pid and whether it carries a PCR
or the end of a table; the packets themselves, at constant rate, are the true
time against which the reported times are held. `double` arithmetic is exact
there: the rate is kept as packets over time.

## 3. Runs

| run | asks | bounds |
|---|---|---|
| `CircularBuffer_safety` | no slot shared, items whole, refines `BoundedFifo`; an accepted item is read | 4 slots, 2 items |
| `LiveAnalysis_sessions` | nothing used after it is freed; recorded order; every call returns | 2 datagrams, 2 recordings, rings of 1 |
| `LiveAnalysis_analysis` | once-only callbacks; a gap in a recording means a full ring | 3 datagrams, timeout 1, delays 0 and 2, 1 recording |
| `LiveAnalysis_recordbuffer` | is the record buffer valid when it is written? No (below) | 2 datagrams, 1 recording |
| `Downloader_safety` | order; nothing lost without a report; Stop returns; VOD finishes; queued segments are handled | window 2, 4 segments |
| `HlsRecording_safety` | recorded as downloaded; listed files stay; no thread left; cleanup returns; VOD complete | window 1, 5 segments, 1 failure, both modes on, a live presentation may end |
| `MsgMgr_safety` | order; delivery; Destroy returns | 2 posters, 3 posts each |
| `TrSync_safety` | no byte twice; relock after 7 clean packets; offsets | packets of 2 bytes, buffer of 10, 13 packets |
| `TrContinuity_safety` | losses are reported, and only they | counter of 4, word of 16, 5 lost in a row |
| `TrDemux_safety` | missing pids, true alarms, unreferenced pids, PAT interval | 8 packets, 1 program, 1 stray pid, 1 jump of the PCR |
| `PsiCheck_safety` | CRC errors mean damage; what nothing happened to is received once | payload of 6, sections of 3, 5 and 9 cells, 3 sections, 3 faults, counter of 3 |
| `TrReports_safety` | intervals and P/F against the stream; parts, totals and replay agree | 4 streams for the counts (4 packets, 4 reports), 2 for the clock (8 and 5 packets, 3 reports, 1 jump of the PCR), lists of 2 and 4 |

Two runs allow deadlock: in `PsiCheck` the stream and the faults end, in
`TrReports` the reports do. Everywhere else the only states without a step of
the code are those in which everything has ended, and they stutter.

Why the bounds are enough. The ring's four slots wrap after four items and two
items tell an order from another; the theorems carry it to every size. In
`LiveAnalysis` a ring of one item is full and empty within two datagrams, and
two recordings are needed, and enough, for one to see what the other left; a
third datagram comes when the probe buffer may be past its half, and a delay of 2
passes the timeout of 1. Four
segments let a window of two slide past both of its first segments while the
main loop still has the first. Seven clean packets for a relock were also
checked with buffers of 7 and 12 packets and with packets of three bytes; six
are too few. A loss of five packets is more than the scaled counter's period.
`HlsRecording` with `realtime_mode`
keeps three times as many files as the first playlist had segments, so five
segments make it delete one; a window of one keeps that small, and a failure may
hit any transfer, file or playlist. `Starts` has a live presentation with one
segment and two on demand, one of them empty; a live one that starts empty was
also checked, in four times the states. `PsiCheck`'s lengths make two sections that fit
into one packet, one whose body or header is split over two packets, and one
beyond `MaxLength`; three sections and three faults put a fault
before, in and after a section. `TrReports` needs two sections of a table for an
interval, three for one on each side of a jump, and four reports to pass
`MAX_MSG_SAVE_CNT` and `MAX_MSG_CNT`; the streams are separate to keep the
interleavings few. The offsets of the PCR, 2, 3 and 20, make jumps within the
tolerance of the clock (10 ms, here 1) and beyond it, forwards and backwards;
eight packets hold three PCRs and three sections further apart than the timeout.
`TrDemux` counts time in packets: the 10 ms of the code are 2 packets, so PCRs one
and two packets apart are within and those three apart beyond; 8 packets hold a
PAT, a PMT, two PCRs and an absence longer than the timeout.

`CB_INTERVAL`, `PMT_TIMEOUT`, `PidTimeout` and the like are the code's constants,
scaled. `MaxItems`, `MaxTime`, `MaxSessions`, `MaxSegments`, `MaxPosts`,
`MaxPackets`, `MaxLost`, `MaxSplices`, `MaxFailures`, `Starts`,
`MaxSections`, `Lengths`, `MaxFaults`, `MaxJumps` and `Muxes` (with
the packets, reports and offsets of each stream) are bounds of the model only.

### Where the code disagrees with its texts

`LiveAnalysis_recordbuffer` is expected to end in a violation, and `findings`
quotes the text: the worker writes to a record buffer already deleted, because it
tests the flag before the lock that, says the comment on it, keeps the pointer
valid.

The properties of the passing runs are stated so that they hold of the code as
it is; where a reader would expect more, the models show this:

* `LiveAnalysis`: the worker may read `m_pSource` (in
  `LiveCallBackProgramInfoBrief`) when Stop has already set it to NULL.
* `Downloader`: when a live playlist gets its `#EXT-X-ENDLIST`, `MainLoop` returns
  on the next empty queue, but `Run` then joins the reload thread, which ends only
  on `m_bStop`: `EM_HRT_SYS_FINISH`, which `examples/hls.cpp:105` takes for the end,
  is not posted until the application stops (`cdownloader.cpp:195`); `VodFinishes`
  therefore is about presentations on demand. The last
  segments may be appended after `MainLoop` has left, and stay in the queue
  (`QueuedSegmentHandled` excepts the end). A segment whose transfer fails is not
  tried again: it is reported and dropped, so `NoSegmentLost`, `VodFinishes` and
  `QueuedSegmentHandled` take it as dealt with, in a set of its own (`failed`).
* `LiveAnalysis`: the probe buffer takes an item before its fill level is compared
  (`LiveAnalysisImpl.cpp:266`): there is room only in a buffer of two of the
  largest datagrams, and `EASYICEOPT_UDPLIVE_PROBE_BUF_SIZE` takes any size. The
  model has no lengths of datagrams and no property about it.
* `HlsRecording`: `EM_HRT_SYS_FINISH` comes while segments may still wait to be
  written, and a cleanup at that moment leaves them (`VodRecorded` excepts
  `m_bStop`). The number of files kept is three times the length of the first
  playlist; a shorter first playlist, or a playlist that could not be written,
  lets listed files be deleted (`ListedNotRemoved` excepts both). In continue
  mode a file that exists counts as recorded, even if it was cut short.
* `MsgMgr`: once Stop or Destroy calls `Clear`, the worker may call `front()` on
  the empty queue (`WorkFrontOfEmpty`); `FrontHasMessage` says that it cannot before.
* `TrSync`: bytes dropped while out of sync are missing from the offsets
  (`OffsetIsPosition` adds them back); the search leaves out the last phase that fits.
* `TrContinuity`: `m_pCC` is unsigned and starts as -1, so the first packet of a
  pid is reported unless its counter is 0 (or 15 without payload;
  `TrCore.cpp:244`), and the first repetition of a packet is reported, where the
  text of the error says "more than twice". `NoFalseError` excepts both.
* `TrDemux`: PCRs more than 10 ms apart look like a jump to a clock without a
  rate, which each of them resets, so that it never gets one (`Demux.cpp:245`, where
  the comment at 515 expects a rate with the second PCR). Without further PCRs a
  missing pid is not reported, hence the slack in `MissingPidReported`. The error
  about an unreferred pid names the pid of the packet at hand, hence
  `UnreferencedPidsCounted` counts. After a jump of the PCR, and in the last second
  before it wraps (`StartPcr` near `PcrMax`), pids that never stopped are reported
  missing, hence `splices = 0` and a wrap out of reach.
* `PsiCheck`: a duplicate packet destroys the section it is in, and the one
  around it (`b_discontinuity` is never cleared); a packet without payload right
  after a lost one has the counter expected, so that the loss is not seen and two
  sections may be joined; a section longer than 1021 bytes disappears without an
  error; a new PAT replaces the handle of a PMT pid, and the section under way is
  lost (`AddPmtPid`). A section without syntax indicator is valid whatever its CRC,
  so TOT's CRC is never checked; pid 0x13 has no handle, so no RST is looked at on
  its own pid. `UndisturbedReceived` speaks of sections none of this met. A
  packet that comes twice has the sections within it received twice, and in the
  order 1, 2, 1, 2, hence the exception in the order of `UndisturbedReceived`.
* `TrReports`: without a rate `GetPcr` returns the last PCR (`csysclock.cpp:81`):
  between the first two PCRs, and for ever when each is more than 10 ms from the
  one before. Two sections between two such PCRs are measured 0 apart however far
  they are, 26 ms say, and counted as "Repetition less than 25ms"
  (`string_res_en.h:99`), and one that is late may go unnoticed;
  `IntervalErrorsAreTrue` therefore is exact with a rate, and up to the time since
  the last PCR without one. Intervals are kept per table_id, over all pids,
  services and section numbers (`PsiCheck.cpp:209`), and stay over a jump of the
  PCR; a rate taken across a jump within 10 ms is wrong until the next PCR. What is
  measured across or in these is left open (`maybeLate`, `maybeEarly`). A PCR that
  jumps back makes a negative PCR interval, which the filter drops (`Demux.cpp:363`).
  Services that interleave their present and following sections are P/F errors
  although both are there (`PFErrorsAreTrue` is about runs of one subtable). Short
  intervals of RST are in the brief of SI repetition and not in its count
  (`TrMsgMgr.cpp:606-615`), hence the extra term of `BriefAddsUp`. Reports below
  their threshold fill `m_vecMsg` as well, which keeps one more than its maximum;
  `GetErrorMsgListByErrorType` throws away the messages not yet read;
  `CTrView::ClearError` leaves the counters of `CTrMsgMgr` as they are.

### Fairness

* `CircularBuffer`: a call of `WriteItem` that has begun ends, and the reading
  thread keeps polling (both reading loops do, every 10 ms). Items need not come.
* `LiveAnalysis`: each thread is scheduled, a call that has begun goes on.
  `select` has a timeout, so the source sees its flag without data. The
  application need not call anything.
* `Downloader`: both threads are scheduled and each transfer ends, since the
  client gives up after `MAX_TIME_OUT` without data. `AnsweringSpec`, for the
  properties that need a segment to arrive, adds that one segment does not time
  out for ever (strong fairness of `DownloadEnds`): the loop retries without limit.
  `StopReturns` does not need it: whatever the outcome of the transfer, the loop
  then sees `m_bStop`.
* `HlsRecording`: the same, and the writing thread is scheduled and `fopen`
  returns. Nobody has to call Stop, and nothing says that a download succeeds.
* `MsgMgr`: the worker is scheduled and the callback returns.

## 4. What is proved

For every value of the constants their modules' assumptions allow:

* `QueueProofs`, of the ring for every `m_size >= 2` and every set of items:
  `TypeCorrect`, `SlotsDisjoint`, `ReturnedItemWhole`, `RingIsFifo`. The first
  three properties are not inductive: that the writer's slot differs from the one in use follows only
  from what the writer knew when it found the ring not full. The invariant
  `IInv` adds that the writer's slot is the one after `m_end`, that it is not one
  of the published slots, and that every published slot holds one whole item;
  the modular arithmetic is in the lemmas `SuccDef` and `SuccTwice`. `RingIsFifo`
  is the refinement of `BoundedFifo` under the mapping of `CircularBuffer`, one
  case per action: `WriteBegin` accepts, `WriteFull` refuses, `WritePublish` puts,
  `ReadBegin` and `ReadEmpty` release what was held, `ReadAdvance` takes; the other
  steps are stutters, because the slots they write are not among those the queue
  is read from.
  Of `MsgMgr`, for every set of posting threads: `MessagesTyped`,
  `DeliveredAsPosted`, `MessageKept`. Order is not inductive without saying where
  every posted message is (`Places`): delivered, in the worker's hands, in the
  queue, or thrown away by a `Clear`.
* `TrPacketProofs`, for every set of pids, every counter period `CC >= 2` and
  every `Word` that is a multiple of it: `TypeCorrect`, `LossesReported`,
  `ErrorsMeanLossOrRepetition`. The invariant relates `m_pCC` of a pid that has
  occurred to the sender's counter and to the number of packets lost since,
  modulo `CC`; the lemmas about `%` are proved from its definition. Of `TrDemux`
  it has `AbsenceReportedOnce`, for every set of programs and every stream with any
  number of jumps of its PCR: a pid that was reported is marked, and only a packet
  of it takes the mark away (`MarkInv`). And it has the four properties of the run,
  which compare what the code measures with the true time: `MissingAreReported`,
  `ReportedAreMissing`, `UnreferencedAreOverdue`, `PatIntervalIsTrue`. They rest on
  what `CSysClock` may show: with a rate, which is then that of the stream, it is one
  packet ahead; without one it stands at the last PCR (`ClockInv`, `Near`). The
  time noted of a pid is such a reading (`OccurInv`, `ListInv`), and two readings
  are as far apart as the times they were taken at, up to `Slack` (`Measured`),
  because a rate is never lost again: a PCR that finds the clock off only resets a
  clock without a rate. The pids reported as unreferred are known, so they do not
  come back to the list, and are as many as the errors (`ReportInv`). All four
  assume `[]BeforeWrap`, that the PCR is more than a second from its wrap, since
  the code is wrong there (see `diff_pcr` in section 3). As a behaviour may stop
  anywhere, they say of every stream that they hold until its PCR gets there, after
  up to 26 hours. `PatIntervalIsTrue` also assumes that no PMT calls pid 0 an
  elementary stream: the mark of a reported pid would be taken for a time.
* `LiveAnalysisProofs`, for every size of the rings and of the probe buffer,
  every set of PCR pids, all timeouts, and any number of datagrams and
  recordings. `TypeCorrect` needs that a thread that holds an item holds a
  datagram (`ItemInv`). `NothingUsedAfterFree` follows from how far the calls have
  come: `StopInv` ties each step of `Stop` to the threads that have ended by then,
  `RecordInv` does so for `StopRecord`, whose own buffer and file go the same way.
  `CleanupQuiesces` alone is not inductive: nothing in it keeps a thread from being
  started between a join and the delete. `ReportsMadeOnce` rests on the flags set
  before the callbacks (`CallbackInv`).
  `RecordingOrdered` and `RecordingWhole` follow a datagram through the live ring,
  the worker's hands, the record buffer, the record thread's hands and the files.
  Each place is in order and holds only later datagrams than the next
  (`PlacesInv`), even items a recording left in the buffer for the one after it;
  `SessionInv` says what each recording finds there. What the worker took since a
  recording began is in one of these places or was refused by a full ring
  (`ReceivedInv`, `GapInv`).
* `HlsRecordingProofs`, for every window, either mode, any number of segments and
  failures: `TypeCorrect`; `NoThreadLeft`, from when each thread is started and
  joined (`ThreadsInv`: the worker only by the main thread, which is joined before
  the flag is read for the second time); `RecordingInOrder`, from that the queue
  is not empty while the worker has its front (`FrontInv`);
  `NoListedFileRemoved`, under the two conditions of the property itself. Segments
  written, waiting, in `MainLoop`'s hands and yet to be downloaded come in this
  order, each place strictly rising (`OrderInv`), so a name that leaves a history
  of three windows is far behind the newest; the playlist is at most one window
  behind what was queued when it was written (`ListInv`), and nothing is in any
  place before the first playlist (`StartInv`). `AddedSegments` is the lemma about
  what `CompareSegment` finds new. The history is built with `Remove` and
  `Append`, a name being in it at most once.
* `DownloaderProofs`, for every window, number of segments and set of endings:
  `FinishPostedLast`; the reload thread is started past the only early return and
  joined before the other (`ReloadInv`). `AnalysedInOrder`: what was analysed or is
  in `MainLoop`'s hands, the queue, and what the reload thread has still to append
  are three stretches of one rising sequence (`StretchesInv`), no later than the
  playlist parsed last (`BoundInv`); the origin's window only moves on
  (`ServedInv`), so what a playlist adds is behind all of it. `NothingDropped` is
  about the segments a playlist *has*, not those found new in it: one it shares
  with the playlist it is compared with was offered before, or skipped at the
  start (`ComparedInv`), and each step of either thread moves a segment from one
  place to the next or reports it (`KeptInv`).
* `TrSyncProofs`, for every packet length of at least two bytes and every buffer
  of more than six packets (20 in the code): `TypeCorrect` (the buffer stays below
  `BUFFER_SIZE`), `OffsetRight`, `ProcessedInOrder` and `SyncRestored`. That seven
  clean packets restore sync is far from inductive. The invariant `SyncInv` adds
  how much stays in the buffer in sync (`BufferInv`), that out of sync everything
  but the last five packets was searched in vain (`SearchedInv`), so that a lock is
  within the last six packets; where the sync bytes of a clean run are
  (`PatternInv`); and the stages of the relock (`StageInv`): from the second clean
  packet on the code is in sync only at the right phase, with a waiting packet only
  up to the second, and out of sync only up to the sixth, with all bytes since the
  first still there. Seven is the least: when
  sync is lost with no old bytes left, the sixth packet gives the search five
  packets, of which it tries one phase only.
* `PsiCheckProofs`, for every size of payload and header, every set of lengths,
  every period of the continuity counter, and any number of sections and faults:
  `NoFalseErrors` and `UndisturbedAreReceived`. `Init` builds the stream with
  folds; `StreamLaid` says of it only where its sections are (`Layout`): section
  `n` has the cells `a[n] + 1` up to `e[n]`, sections do not overlap, and what is in
  none is stuffing up to the end of the packet. The invariant follows one section
  in progress through that layout. What was put together of it are its first cells
  and `i_need` is what is missing (`SectionInv`); the payload at hand is that of the
  last packet sent (`PacketInv`) and `p_new_pos` where the first section begins in it
  (`PointerInv`), so that a section found after a loss begins where the stream has
  one; the counter expected is behind the sender's by what was lost (`NetInv`), so
  that no loss is taken for the next packet. Sections nothing happened to are received before the place
  reached and none is after it (`CountInv`), and what is received rises, apart
  from what a repeated packet brings again (`OrderInv`). `SizesAssumption` has what
  is assumed: the buffer holds more than a payload (184 bytes of 1024), a
  section has a body, the counter has at least two values.
* `TrReportsProofs`, for every set of streams, tables and services, every limit and
  all lengths of the lists: `TypeCorrect`, `BriefAdds`, `ReplayMatches`,
  `IntervalErrorsTrue` and `PFErrorsTrue`. The properties compare what the views
  show with the stream or with each other, so the invariant holds them together: the
  clock has the last PCR and the packets since, and a rate that is the stream's
  unless it was taken across a jump (`ClockInv`, kept by `PayloadCounts` and
  `PcrCounts`), so that it shows the time of the stream less what it is behind
  (`Shows`); the times noted of a table are such readings (`TimesInv`), two of which
  give the interval up to what they were behind (`Measured`); the counters of `CTrMsgMgr`
  and of its views are the same bag and the saved messages are what was counted, up
  to the maximum (`ViewsInv`), and an interval or P/F error counted has its pair
  of sections in the stream (`IntervalsInv`, `PFInv`). The brief is a sum over
  types and the replay one over messages; `SumGrows`, `SumZero` and `ReplayAppend`
  are the inductions over them, each by the least counterexample, which needs no
  theorem with an operator parameter. Assumed of the constants: that
  `SetPsiTimeOutDVB`, the only source of the timeouts, sets none below the 25 ms
  of a repetition that is too short, and that no PCR is within a second of its
  wrap (`ClockAssumption`; `TrDemux` shows that `diff_pcr` is wrong there).

The theorems about properties no run lists (types, `FinishIsLast`, `OneReportPerAbsence`) replace runs: they hold for every value, and
TLC agrees on the instances above.

Only model-checked is liveness (`CallsReturn`, `StopReturns`, `CleanupReturns`,
`VodRecorded`, `AcceptedItemIsRead`, ...): fairness and `ENABLED` are beyond the
prover. Every invariant and action property of the passing runs is a theorem.

No module uses `RECURSIVE`.

## 5. What is not modelled

`components` in `PROJECT.json` has the list with reasons. In short:

* Vendored code: the JM H.264 decoder, rapidjson, curl's headers, libdvbpsi,
  jsoncpp. It is most of the repository: the decoder alone has about half of the
  implementation's lines. None of it keeps state that libeasyice's own threads
  share, and a share of lines counted over it stays small whatever is modelled.
* JSON and text formatting (`tables/`, the views' `ToJson`, `ShowBrief`), logging.
* Sockets and HTTP transfers beyond their outcomes; probes through MediaInfo and
  ffprobe.
* Sequential parsers without shared state: `MpegDec`, `DemuxTs`, `ProgramParser`,
  the playlist grammar, the file analyser's loop, `TsAnalysis`, the RTP filter.
* The PCR accuracy and PTS checks (the PTS interval is never reported, since
  `llPrevPts_occ` starts as -1 and is set only where it is not), and the rates of
  `LivePcrProc` and `CCalcPcrN1`: `double` arithmetic over long streams.
* The buffer level of HLS (`DlBuffer`, `BufferAnalysis`): wall-clock `double`s.
* Errors of TR 101 290 that come from a single packet (scrambling, transport
  error, sync byte): one test each, counted as modelled in `TrReports`.
* Lengths of datagrams and messages; files cut short; other memory orders than
  that of x86.

## 6. Plan

Done: the ring, the live analyser, the HLS downloader, its messages and its
recording, TR 101 290 from bytes to error counts, and the proofs of section 4.
Next, in this order:

1. `LivePcrProc` and `CCalcPcrN1`: rate and PCR lists across the wrap, in whole
   numbers.
2. `DlBuffer`/`BufferAnalysis`: the buffer level against a reference.
3. Segments of an ended or stale playlist: an origin that serves older windows.
4. `DemuxTs`: when all tables of all programs are complete, which starts the
   callbacks of `LiveAnalysis`.
