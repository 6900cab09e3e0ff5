----------------------------- MODULE LiveAnalysis -----------------------------
(***************************************************************************)
(* CLiveAnalysisImpl: the analyser of a live UDP stream.  Five threads     *)
(* meet in one object:                                                     *)
(*                                                                         *)
(*   source   CLiveSourceUdp::WorkFun, hands each datagram to OnRecvData   *)
(*   worker   WorkFun/ProcessItem, the analysis and most callbacks         *)
(*   media    MediaInfoThread, the two slow probes                         *)
(*   record   RecordThread, writes the recorded file                       *)
(*   api      the application: easyice_process, start and stop of          *)
(*            recording, easyice_cleanup                                   *)
(*                                                                         *)
(* The two rings between them are sequences here: CircularBuffer shows     *)
(* that a ring of n slots is a FIFO of n - 1 items whose reader may keep   *)
(* the item it took.  A critical section under m_mutexRecordFp or          *)
(* m_mutexRecordBuf is one step.  ZEvent's wait has a timeout of 10 ms     *)
(* and the worker asks the ring again however it ends, so the event only   *)
(* shortens the wait and is not a variable.                                *)
(***************************************************************************)
EXTENDS Integers, Sequences, FiniteSets, SequencesExt

CONSTANTS
  PcrPid,          \* pids a PMT may name as the PCR pid of its program
  RingCapacity,    \* items the live ring holds (8192*3 - 1)
  RecordCapacity,  \* items the record ring holds (8192 - 1)
  PROBE_BUF_SIZE,  \* udplive_probe_buf_size, in datagrams
  CB_INTERVAL,     \* udplive_cb_update_interval
  PMT_TIMEOUT,     \* WAIT_FOR_ALL_PMT_TIMEOUT
  Delays,          \* times that may pass between two datagrams
  MaxItems,        \* bound: datagrams received
  MaxTime,         \* bound: the clock
  MaxSessions      \* bound: recordings started

ASSUME BoundsAssumption ==
  /\ RingCapacity \in Nat \ {0} /\ RecordCapacity \in Nat \ {0}
  /\ PROBE_BUF_SIZE \in Nat
  /\ CB_INTERVAL \in Nat \ {0} /\ PMT_TIMEOUT \in Nat \ {0} /\ Delays \subseteq Nat
  /\ MaxItems \in Nat /\ MaxTime \in Nat \ {0} /\ MaxSessions \in Nat

OnceCallbacks == {"MEDIAINFO", "FFPROBE", "PSI", "PROGRAM_INFO_BRIEF"}

VARIABLES
  api,         \* where the application's call is
  objects,     \* the members ~CLiveAnalysisImpl deletes: "live" or "deleted"
  m_pSource,   \* [ptr, stop]: the pointer, and m_bStop of what it points to
  m_bStop,
  sourcePc, workerPc, mediaPc, recordPc,
  now, sent,   \* clock; number of datagrams received so far
  ring,        \* m_pCircularBuffer: waiting items [id, time]
  item,        \* the item the worker took last
  lost,        \* ids refused by a full ring (history)
  m_llFirstByteRecvTime, m_llCbUpdateTime,
  m_nMediaInfoBufferLen, m_bMediaInfoChecked, m_bInited,
  brief,       \* PCR pids in CMpegDec's m_allProgramBrief
  pcrInfo,     \* keys of CLivePcrProc's m_mapProgramPcrInfo
  told,        \* callback -> times it was called
  m_bStartRecord, m_fpRecordFile,
  m_pRecordBuffer, \* [ptr, items]
  recordItem,      \* the item the record thread took last
  files,           \* contents of the recorded files, the current one last
  recordsFrom      \* the item the worker had when each recording began (history)

apiVars    == <<api, objects, m_pSource, m_bStop>>
inputVars  == <<now, sent>>
probeVars  == <<m_nMediaInfoBufferLen, m_bMediaInfoChecked, mediaPc>>
initVars   == <<m_bInited, brief, pcrInfo>>
timeVars   == <<m_llFirstByteRecvTime, m_llCbUpdateTime>>
recordVars == <<m_bStartRecord, m_fpRecordFile, m_pRecordBuffer, recordPc, recordItem, files, recordsFrom>>

vars == <<apiVars, inputVars, probeVars, initVars, timeVars, recordVars,
          sourcePc, workerPc, ring, item, lost, told>>

NoItem == [id |-> 0, time |-> 0]
Running(pc) == pc \notin {"none", "done"}

Init ==
  /\ api = "new" /\ objects = "live" /\ m_bStop = FALSE
  /\ m_pSource = [ptr |-> "null", stop |-> FALSE]
  /\ sourcePc = "none" /\ workerPc = "none" /\ mediaPc = "none" /\ recordPc = "none"
  /\ now = 1 /\ sent = 0
  /\ ring = <<>> /\ item = NoItem /\ lost = {}
  /\ m_llFirstByteRecvTime = -1 /\ m_llCbUpdateTime = -1
  /\ m_nMediaInfoBufferLen = 0 /\ m_bMediaInfoChecked = FALSE /\ m_bInited = FALSE
  /\ brief = {} /\ pcrInfo = {}
  /\ told = [c \in OnceCallbacks |-> 0]
  /\ m_bStartRecord = FALSE /\ m_fpRecordFile = FALSE
  /\ m_pRecordBuffer = [ptr |-> "null", items |-> <<>>]
  /\ recordItem = NoItem /\ files = <<>> /\ recordsFrom = <<>>

Tell(c) == told' = [told EXCEPT ![c] = @ + 1]

-----------------------------------------------------------------------------
(* Source thread *)

\* the loop's test of CLiveSourceBase::m_bStop, then select
SourceCheck ==
  /\ sourcePc = "check"
  /\ sourcePc' = IF m_pSource.stop THEN "done" ELSE "select"
  /\ UNCHANGED <<apiVars, inputVars, probeVars, initVars, timeVars, recordVars,
                 workerPc, ring, item, lost, told>>

\* select timed out (3 s), or failed and the thread gives up
SourceNoData ==
  /\ sourcePc = "select"
  /\ sourcePc' \in {"check", "done"}
  /\ UNCHANGED <<apiVars, inputVars, probeVars, initVars, timeVars, recordVars,
                 workerPc, ring, item, lost, told>>

\* CCircularBuffer::Full of the live ring
RingFull == Len(ring) = RingCapacity

\* OnRecvData: stamp the datagram, put it in the ring or drop it
OnRecvData ==
  /\ sourcePc = "select" /\ sent < MaxItems
  /\ \E d \in Delays :
       /\ now + d <= MaxTime
       /\ now' = now + d
       /\ sent' = sent + 1
       /\ IF RingFull
            THEN ring' = ring /\ lost' = lost \cup {sent + 1}
            ELSE ring' = Append(ring, [id |-> sent + 1, time |-> now']) /\ lost' = lost
  /\ sourcePc' = "check"
  /\ UNCHANGED <<apiVars, probeVars, initVars, timeVars, recordVars, workerPc, item, told>>

Source == SourceCheck \/ SourceNoData \/ OnRecvData

-----------------------------------------------------------------------------
(* Worker thread *)

WorkerCheckStop ==
  /\ workerPc = "check"
  /\ workerPc' = IF m_bStop THEN "done" ELSE "read"
  /\ UNCHANGED <<apiVars, inputVars, probeVars, initVars, timeVars, recordVars,
                 sourcePc, ring, item, lost, told>>

WorkerReadItem ==
  /\ workerPc = "read"
  /\ IF ring = <<>>
       THEN /\ workerPc' = "check"
            /\ UNCHANGED <<ring, item>>
       ELSE /\ workerPc' = "record"
            /\ item' = Head(ring)
            /\ ring' = Tail(ring)
  /\ UNCHANGED <<apiVars, inputVars, probeVars, initVars, timeVars, recordVars,
                 sourcePc, lost, told>>

\* if (m_bStartRecord), read without the lock
WorkerTestRecord ==
  /\ workerPc = "record"
  /\ workerPc' = IF m_bStartRecord THEN "recordbuf" ELSE "process"
  /\ UNCHANGED <<apiVars, inputVars, probeVars, initVars, timeVars, recordVars,
                 sourcePc, ring, item, lost, told>>

\* WriteItem under m_mutexRecordBuf.  On a buffer that is deleted, or not yet
\* initialised, anything may follow; here the item is gone.
WorkerRecordItem ==
  /\ workerPc = "recordbuf"
  /\ workerPc' = "process"
  /\ IF m_pRecordBuffer.ptr = "live" /\ Len(m_pRecordBuffer.items) < RecordCapacity
       THEN /\ m_pRecordBuffer' = [m_pRecordBuffer EXCEPT !.items = Append(@, item)]
            /\ lost' = lost
       ELSE /\ lost' = lost \cup {item.id}
            /\ UNCHANGED m_pRecordBuffer
  /\ UNCHANGED <<apiVars, inputVars, probeVars, initVars, timeVars, m_bStartRecord, m_fpRecordFile,
                 recordPc, recordItem, files, recordsFrom, sourcePc, ring, item, told>>

\* the fill level that ends the collection
ProbeBufferHalf == PROBE_BUF_SIZE \div 2

\* m_bMediaInfoChecked = true (mutant: forgotten)
CheckAgain == UNCHANGED m_bMediaInfoChecked
CheckedOnce == m_bMediaInfoChecked' = TRUE

(* ProcessItem, up to the packet loop: an item that has lost sync is skipped
   whole; the first good one starts both clocks; until enough is collected the
   item is added to the probe buffer, and then the media thread is started and
   the PSI reported. *)
ProcessUnsynced ==
  /\ workerPc = "process"
  /\ workerPc' = "check"
  /\ UNCHANGED <<apiVars, inputVars, probeVars, initVars, timeVars, recordVars,
                 sourcePc, ring, item, lost, told>>

ProcessProbe ==
  /\ workerPc = "process"
  /\ workerPc' = "packets"
  /\ IF m_llFirstByteRecvTime < 0
       THEN m_llFirstByteRecvTime' = item.time /\ m_llCbUpdateTime' = item.time
       ELSE UNCHANGED timeVars
  /\ IF m_bMediaInfoChecked
       THEN UNCHANGED <<probeVars, told>>
       ELSE /\ m_nMediaInfoBufferLen' = m_nMediaInfoBufferLen + 1
            /\ IF \/ m_nMediaInfoBufferLen' > ProbeBufferHalf
                  \/ item.time - m_llFirstByteRecvTime' > PMT_TIMEOUT
                 THEN /\ mediaPc' \in {"media", "none"} \* pthread_create may fail
                      /\ CheckedOnce
                      /\ Tell("PSI")
                 ELSE UNCHANGED <<mediaPc, m_bMediaInfoChecked, told>>
  /\ UNCHANGED <<apiVars, inputVars, initVars, recordVars, sourcePc, ring, item, lost>>

\* the packet loop, then the periodic callbacks when they are due
ProcessPackets ==
  /\ workerPc = "packets"
  /\ workerPc' = "init"
  /\ m_llCbUpdateTime' = IF item.time - m_llCbUpdateTime >= CB_INTERVAL
                           THEN item.time ELSE m_llCbUpdateTime
  /\ UNCHANGED <<apiVars, inputVars, probeVars, initVars, recordVars,
                 m_llFirstByteRecvTime, sourcePc, ring, item, lost, told>>

\* AddPcrPid for the pids of the list
AddPcrPids == pcrInfo' = pcrInfo \cup brief'

(* Once, when the TR 101 290 demultiplexer has seen every PMT or after
   PMT_TIMEOUT: FillPacketType fills the program list from the tables the
   other parser has by now, and the PCR pids of the list are registered. *)
ProcessInit ==
  /\ workerPc = "init" /\ ~m_bInited
  /\ \/ /\ item.time - m_llFirstByteRecvTime <= PMT_TIMEOUT \* ~IsDemuxFinish() && ~b_time_out
        /\ workerPc' = "check"
        /\ UNCHANGED initVars
     \/ /\ workerPc' = "brief"
        /\ brief' \in SUBSET PcrPid
        /\ AddPcrPids
        /\ m_bInited' = TRUE
  /\ UNCHANGED <<apiVars, inputVars, probeVars, timeVars, recordVars,
                 sourcePc, ring, item, lost, told>>

\* LiveCallBackProgramInfoBrief; it reads m_pSource->m_strRemoteAddress, whatever
\* Stop has made of m_pSource by now
LiveCallBackProgramInfoBrief ==
  /\ workerPc = "brief"
  /\ workerPc' = "check"
  /\ Tell("PROGRAM_INFO_BRIEF")
  /\ UNCHANGED <<apiVars, inputVars, probeVars, initVars, timeVars, recordVars,
                 sourcePc, ring, item, lost>>

\* CLivePcrProc::ProcessBuffer
ProcessBuffer ==
  /\ workerPc = "init" /\ m_bInited
  /\ workerPc' = "check"
  /\ UNCHANGED <<apiVars, inputVars, probeVars, initVars, timeVars, recordVars,
                 sourcePc, ring, item, lost, told>>

Worker ==
  \/ WorkerCheckStop \/ WorkerReadItem \/ WorkerTestRecord \/ WorkerRecordItem
  \/ ProcessUnsynced \/ ProcessProbe \/ ProcessPackets
  \/ ProcessInit \/ LiveCallBackProgramInfoBrief \/ ProcessBuffer

-----------------------------------------------------------------------------
(* Media thread *)

\* CheckMediaInfo and its callback; the temporary file may not open
MediaInfoProbe ==
  /\ mediaPc = "media"
  /\ Tell("MEDIAINFO")
  /\ mediaPc' \in {"ffprobe", "done"}
  /\ UNCHANGED <<apiVars, inputVars, m_nMediaInfoBufferLen, m_bMediaInfoChecked, initVars,
                 timeVars, recordVars, sourcePc, workerPc, ring, item, lost>>

FfprobeProbe ==
  /\ mediaPc = "ffprobe"
  /\ Tell("FFPROBE")
  /\ mediaPc' = "done"
  /\ UNCHANGED <<apiVars, inputVars, m_nMediaInfoBufferLen, m_bMediaInfoChecked, initVars,
                 timeVars, recordVars, sourcePc, workerPc, ring, item, lost>>

Media == MediaInfoProbe \/ FfprobeProbe

-----------------------------------------------------------------------------
(* Record thread *)

otherThanRecord == <<apiVars, inputVars, probeVars, initVars, timeVars,
                     sourcePc, workerPc, ring, item, lost, told, recordsFrom>>

\* under m_mutexRecordFp: a closed file is the order to stop
RecordCheckFp ==
  /\ recordPc = "check"
  /\ recordPc' = IF m_fpRecordFile THEN "read" ELSE "done"
  /\ UNCHANGED <<otherThanRecord, m_bStartRecord, m_fpRecordFile, m_pRecordBuffer,
                 recordItem, files>>

\* mutants: the item stays in the ring; the item taken is not written
RecordReadAgain ==
  /\ recordPc = "read"
  /\ IF m_pRecordBuffer.items = <<>>
       THEN recordPc' = "check" /\ UNCHANGED recordItem
       ELSE recordPc' = "write" /\ recordItem' = Head(m_pRecordBuffer.items)
  /\ UNCHANGED <<otherThanRecord, m_bStartRecord, m_fpRecordFile, m_pRecordBuffer, files>>

RecordReadDrop ==
  /\ recordPc = "read"
  /\ recordPc' \in {"check", "write"}
  /\ IF m_pRecordBuffer.items = <<>>
       THEN UNCHANGED <<m_pRecordBuffer, recordItem>>
       ELSE /\ recordItem' = Head(m_pRecordBuffer.items)
            /\ m_pRecordBuffer' = [m_pRecordBuffer EXCEPT !.items = Tail(@)]
  /\ UNCHANGED <<otherThanRecord, m_bStartRecord, m_fpRecordFile, files>>

RecordReadItem ==
  /\ recordPc = "read"
  /\ IF m_pRecordBuffer.items = <<>>
       THEN recordPc' = "check" /\ UNCHANGED <<m_pRecordBuffer, recordItem>>
       ELSE /\ recordPc' = "write"
            /\ recordItem' = Head(m_pRecordBuffer.items)
            /\ m_pRecordBuffer' = [m_pRecordBuffer EXCEPT !.items = Tail(@)]
  /\ UNCHANGED <<otherThanRecord, m_bStartRecord, m_fpRecordFile, files>>

\* under m_mutexRecordFp again: the file may have been closed meanwhile
RecordWriteFile ==
  /\ recordPc = "write"
  /\ IF m_fpRecordFile
       THEN /\ files' = [files EXCEPT ![Len(files)] = Append(@, recordItem.id)]
            /\ recordPc' = "check"
       ELSE recordPc' = "done" /\ UNCHANGED files
  /\ UNCHANGED <<otherThanRecord, m_bStartRecord, m_fpRecordFile, m_pRecordBuffer, recordItem>>

Record == RecordCheckFp \/ RecordReadItem \/ RecordWriteFile

-----------------------------------------------------------------------------
(* The application's calls *)

otherThanApi == <<inputVars, probeVars, initVars, timeVars, ring, item, lost, told>>

\* OpenMRL: no source (easyice_process ignores the failure), or one that runs
OpenFails ==
  /\ api = "new" /\ api' = "idle"
  /\ UNCHANGED <<otherThanApi, objects, m_pSource, m_bStop, recordVars, sourcePc, workerPc>>

OpenSource ==
  /\ api = "new" /\ api' = "open"
  /\ m_pSource' = [ptr |-> "live", stop |-> FALSE]
  /\ sourcePc' = "check"
  /\ UNCHANGED <<otherThanApi, objects, m_bStop, recordVars, workerPc>>

OpenWorker ==
  /\ api = "open" /\ api' = "idle"
  /\ workerPc' \in {"check", "none"} \* pthread_create may fail
  /\ UNCHANGED <<otherThanApi, objects, m_pSource, m_bStop, recordVars, sourcePc>>

recordApi == <<otherThanApi, objects, m_pSource, m_bStop, sourcePc, workerPc, recordItem>>

\* StartRecord
StartRecordOpen ==
  /\ api = "idle" /\ ~m_fpRecordFile /\ Len(files) < MaxSessions
  /\ api' = "newbuffer"
  /\ m_fpRecordFile' = TRUE
  /\ files' = Append(files, <<>>)
  /\ UNCHANGED <<recordApi, recordsFrom, m_bStartRecord, m_pRecordBuffer, recordPc>>

\* the worker of the recording before may still be about to write to it
StartRecordNew ==
  /\ api = "newbuffer" /\ api' = "initbuffer"
  /\ m_pRecordBuffer' = [ptr |-> "new", items |-> <<>>]
  /\ UNCHANGED <<recordApi, recordsFrom, m_bStartRecord, m_fpRecordFile, recordPc, files>>

StartRecordInit ==
  /\ api = "initbuffer" /\ api' = "newthread"
  /\ m_pRecordBuffer' = [ptr |-> "live", items |-> <<>>]
  /\ UNCHANGED <<recordApi, recordsFrom, m_bStartRecord, m_fpRecordFile, recordPc, files>>

StartRecordBuffer == StartRecordNew \/ StartRecordInit

StartRecordThread ==
  /\ api = "newthread" /\ api' = "setflag"
  /\ recordPc' \in {"check", "none"} \* pthread_create may fail
  /\ UNCHANGED <<recordApi, recordsFrom, m_bStartRecord, m_fpRecordFile, m_pRecordBuffer, files>>

StartRecordFlag ==
  /\ api = "setflag" /\ api' = "idle"
  /\ m_bStartRecord' = TRUE
  /\ recordsFrom' = Append(recordsFrom, item.id)
  /\ UNCHANGED <<recordApi, m_fpRecordFile, m_pRecordBuffer, recordPc, files>>

\* StopRecord, called by the application and by ~CLiveAnalysisImpl
StopRecordFlag ==
  /\ api \in {"idle", "destroyed"} /\ api' = "closefile"
  /\ m_bStartRecord' = FALSE
  /\ UNCHANGED <<recordApi, recordsFrom, m_fpRecordFile, m_pRecordBuffer, recordPc, files>>

ReturnFromStopRecord == api' = IF objects = "deleted" THEN "cleaned" ELSE "idle"

StopRecordClose ==
  /\ api = "closefile"
  /\ IF m_fpRecordFile THEN api' = "joinrecord" ELSE ReturnFromStopRecord
  /\ m_fpRecordFile' = FALSE
  /\ UNCHANGED <<recordApi, recordsFrom, m_bStartRecord, m_pRecordBuffer, recordPc, files>>

StopRecordJoin ==
  /\ api = "joinrecord" /\ ~Running(recordPc)
  /\ api' = "freebuffer"
  /\ UNCHANGED <<recordApi, recordVars>>

StopRecordFree ==
  /\ api = "freebuffer"
  /\ m_pRecordBuffer' = [ptr |-> "deleted", items |-> <<>>]
  /\ ReturnFromStopRecord
  /\ UNCHANGED <<recordApi, recordsFrom, m_bStartRecord, m_fpRecordFile, recordPc, files>>

\* easyice_cleanup: Stop, then the destructor
stopOnly == <<otherThanApi, recordVars, sourcePc, workerPc>>

\* mutant: the source is not told to stop
StopSourceSilently ==
  /\ api = "idle"
  /\ api' = IF m_pSource.ptr = "null" THEN "setstop" ELSE "joinsource"
  /\ UNCHANGED <<stopOnly, objects, m_bStop, m_pSource>>

StopSource ==
  /\ api = "idle"
  /\ IF m_pSource.ptr = "null"
       THEN api' = "setstop" /\ UNCHANGED m_pSource
       ELSE api' = "joinsource" /\ m_pSource' = [m_pSource EXCEPT !.stop = TRUE]
  /\ UNCHANGED <<stopOnly, objects, m_bStop>>

StopJoinSource ==
  /\ api = "joinsource" /\ ~Running(sourcePc)
  /\ api' = "nullsource"
  /\ m_pSource' = [m_pSource EXCEPT !.ptr = "deleted"]
  /\ UNCHANGED <<stopOnly, objects, m_bStop>>

StopNullSource ==
  /\ api = "nullsource" /\ api' = "setstop"
  /\ m_pSource' = [m_pSource EXCEPT !.ptr = "null"]
  /\ UNCHANGED <<stopOnly, objects, m_bStop>>

StopWorkFlag ==
  /\ api = "setstop" /\ api' = "joinworker"
  /\ m_bStop' = TRUE
  /\ UNCHANGED <<stopOnly, objects, m_pSource>>

StopJoinWorker ==
  /\ api = "joinworker" /\ ~Running(workerPc)
  /\ api' = "joinmedia"
  /\ UNCHANGED <<stopOnly, objects, m_pSource, m_bStop>>

\* mutant: no join of the media thread
StopNoJoinMedia ==
  /\ api = "joinmedia" /\ api' = "destroy"
  /\ UNCHANGED <<stopOnly, objects, m_pSource, m_bStop>>

StopJoinMedia ==
  /\ api = "joinmedia" /\ ~Running(mediaPc)
  /\ api' = "destroy"
  /\ UNCHANGED <<stopOnly, objects, m_pSource, m_bStop>>

Destroy ==
  /\ api = "destroy" /\ api' = "destroyed"
  /\ objects' = "deleted"
  /\ UNCHANGED <<stopOnly, m_pSource, m_bStop>>

InCall ==
  \/ OpenWorker
  \/ StartRecordBuffer \/ StartRecordThread \/ StartRecordFlag
  \/ (api = "destroyed" /\ StopRecordFlag)
  \/ StopRecordClose \/ StopRecordJoin \/ StopRecordFree
  \/ StopJoinSource \/ StopNullSource \/ StopWorkFlag \/ StopJoinWorker
  \/ StopJoinMedia \/ Destroy

NewCall ==
  \/ OpenFails \/ OpenSource \/ StartRecordOpen
  \/ (api = "idle" /\ StopRecordFlag) \/ StopSource

Cleaned == api = "cleaned" /\ UNCHANGED vars

Next == NewCall \/ InCall \/ Source \/ Worker \/ Media \/ Record \/ Cleaned

Spec == Init /\ [][Next]_vars

(* Every thread is scheduled; a call that has begun goes on.  Nothing obliges
   the application to make a call, nor datagrams to arrive (Source covers the
   3 s timeout of select). *)
Fairness ==
  /\ WF_vars(InCall) /\ WF_vars(Source) /\ WF_vars(Worker)
  /\ WF_vars(Media) /\ WF_vars(Record)

FairSpec == Spec /\ Fairness

-----------------------------------------------------------------------------
(* Properties *)

ApiPcs == {"new", "open", "idle", "newbuffer", "initbuffer", "newthread", "setflag",
           "closefile", "joinrecord", "freebuffer", "joinsource", "nullsource", "setstop", "joinworker",
           "joinmedia", "destroy", "destroyed", "cleaned"}
Datagrams == [id : 1 .. MaxItems, time : 1 .. MaxTime]
Items == Datagrams \cup {NoItem}

CallsOK ==
  /\ api \in ApiPcs /\ objects \in {"live", "deleted"} /\ m_bStop \in BOOLEAN
  /\ m_pSource \in [ptr : {"null", "live", "deleted"}, stop : BOOLEAN]

ThreadsOK ==
  /\ sourcePc \in {"none", "check", "select", "done"}
  /\ workerPc \in {"none", "check", "read", "record", "recordbuf", "process", "packets",
                   "init", "brief", "done"}
  /\ mediaPc \in {"none", "media", "ffprobe", "done"}
  /\ recordPc \in {"none", "check", "read", "write", "done"}

ReceivedOK ==
  /\ now \in 1 .. MaxTime /\ sent \in 0 .. MaxItems
  /\ ring \in Seq(Datagrams) /\ Len(ring) <= RingCapacity /\ item \in Items
  /\ lost \subseteq 1 .. MaxItems

AnalysisOK ==
  /\ m_llFirstByteRecvTime \in -1 .. MaxTime /\ m_llCbUpdateTime \in -1 .. MaxTime
  /\ m_nMediaInfoBufferLen \in Nat
  /\ m_bMediaInfoChecked \in BOOLEAN /\ m_bInited \in BOOLEAN
  /\ brief \subseteq PcrPid /\ pcrInfo \subseteq PcrPid
  /\ told \in [OnceCallbacks -> Nat]

RecordOK ==
  /\ m_bStartRecord \in BOOLEAN /\ m_fpRecordFile \in BOOLEAN
  /\ m_pRecordBuffer \in [ptr : {"null", "new", "live", "deleted"}, items : Seq(Datagrams)]
  /\ Len(m_pRecordBuffer.items) <= RecordCapacity
  /\ recordItem \in Items /\ files \in Seq(Seq(1 .. MaxItems))
  /\ recordsFrom \in Seq(0 .. MaxItems)

TypeOK == CallsOK /\ ThreadsOK /\ ReceivedOK /\ AnalysisOK /\ RecordOK

(* ~CLiveAnalysisImpl deletes the ring, the parsers and the probe buffer only
   when no thread that uses them is left; StopRecord frees the record buffer,
   which RecordThread reads without a lock, only when that thread has ended; and
   easyice_cleanup leaves no thread, no open file and no record buffer behind,
   whatever recording was going on. *)
CleanupQuiesces ==
  /\ objects = "deleted" => /\ ~Running(sourcePc) /\ ~Running(workerPc)
                            /\ ~Running(mediaPc)
  /\ Running(recordPc) => m_pRecordBuffer.ptr = "live"
  /\ api = "cleaned" => /\ ~Running(recordPc) /\ ~m_fpRecordFile
                        /\ m_pRecordBuffer.ptr \notin {"new", "live"}

(* The recorded files hold datagrams in the order they were received, none
   twice, across all recordings of a session. *)
RecordedInOrder ==
  \A r, s \in DOMAIN files : \A i \in DOMAIN files[r], j \in DOMAIN files[s] :
    (r < s \/ (r = s /\ i < j)) => files[r][i] < files[s][j]

(* Of the datagrams the worker takes once a recording has begun, one is missing
   before a recorded one only if a full ring refused it; an item that is left
   from the recording before may come first. *)
RecordedWithoutGap ==
  \A r \in DOMAIN recordsFrom :
    files[r] # <<>> => recordsFrom[r] + 1 .. Last(files[r]) \subseteq ToSet(files[r]) \cup lost

(* README.md:154, :157, :173 and sdkdefs.h:115-118: MEDIAINFO, FFPROBE and PSI
   are reported at most once (and so is the program list). *)
ReportedOnce == \A c \in OnceCallbacks : told[c] <= 1

(* Every call of the application returns: no join of a thread that waits for
   the caller, in StopRecord or in easyice_cleanup. *)
CallsReturn == api \notin {"new", "idle"} ~> api \in {"idle", "cleaned"}

(* LiveAnalysisImpl.h:117 says m_mutexRecordBuf keeps m_pRecordBuffer valid
   while the worker writes to it. *)
RecordBufferValid == [][WorkerRecordItem => m_pRecordBuffer.ptr = "live"]_vars
=============================================================================
