-------------------------- MODULE LiveAnalysisProofs --------------------------
(***************************************************************************)
(* LiveAnalysis proved for every size of its rings and of the probe        *)
(* buffer, every timeout and every number of datagrams and recordings.     *)
(*                                                                         *)
(* That nothing is used after it is freed follows from how far Stop,       *)
(* StopRecord and the destructor have come (StopInv, RecordInv): what a    *)
(* thread uses is freed only past the join of the thread, and past it      *)
(* nobody starts the thread again.  That a callback is made once follows   *)
(* from the flags that are set before it (CallbackInv).                    *)
(*                                                                         *)
(* A recorded datagram goes from the live ring to the worker, the record   *)
(* buffer, the record thread and the file; each of these places holds only *)
(* later ones than the next (PlacesInv), even what a recording left behind *)
(* for the one after it.  What the worker took since the flag was set is   *)
(* in one of them or was refused by a full ring (ReceivedInv, GapInv), so  *)
(* the file is in order and has no other gap.                              *)
(***************************************************************************)
EXTENDS LiveAnalysis, SequenceTheorems, TLAPS

HasItem == workerPc \in {"record", "recordbuf", "process", "packets", "init", "brief"}

ItemInv ==
  /\ HasItem => item \in Datagrams
  /\ recordPc = "write" => recordItem \in Datagrams
  /\ m_fpRecordFile => files # <<>>

\* how far easyice_cleanup has come
StopInv ==
  /\ m_pSource.ptr # "live" => ~Running(sourcePc)
  /\ api = "nullsource" => m_pSource.ptr = "deleted"
  /\ api \in {"setstop", "joinworker", "joinmedia", "destroy"} => m_pSource.ptr = "null"
  /\ api \in {"joinmedia", "destroy"} => ~Running(workerPc)
  /\ api = "destroy" => ~Running(mediaPc)
  /\ api \in {"destroyed", "cleaned"} => objects = "deleted"
  /\ objects = "deleted" =>
       /\ api \in {"destroyed", "closefile", "joinrecord", "freebuffer", "cleaned"}
       /\ ~Running(sourcePc) /\ ~Running(workerPc) /\ ~Running(mediaPc)

\* how far StartRecord and StopRecord have come
RecordInv ==
  /\ Running(recordPc) => m_pRecordBuffer.ptr = "live"
  /\ m_pRecordBuffer.ptr \in {"new", "live"} =>
       m_fpRecordFile \/ api \in {"joinrecord", "freebuffer"}
  /\ api \in {"newbuffer", "initbuffer", "newthread", "setflag"} => m_fpRecordFile
  /\ api \in {"newbuffer", "initbuffer"} => ~Running(recordPc)
  /\ api = "newthread" => m_pRecordBuffer.ptr = "live"
  /\ api \in {"joinrecord", "freebuffer"} => ~m_fpRecordFile
  /\ api = "freebuffer" => ~Running(recordPc)
  /\ api = "cleaned" => ~m_fpRecordFile

CallbackInv ==
  /\ \A c \in OnceCallbacks : told[c] <= 1
  /\ ~m_bMediaInfoChecked =>
       mediaPc = "none" /\ told["PSI"] = 0 /\ told["MEDIAINFO"] = 0 /\ told["FFPROBE"] = 0
  /\ mediaPc = "media" => told["MEDIAINFO"] = 0
  /\ mediaPc \in {"media", "ffprobe"} => told["FFPROBE"] = 0
  /\ ~m_bInited \/ workerPc = "brief" => told["PROGRAM_INFO_BRIEF"] = 0
  /\ workerPc = "brief" => m_bInited

-----------------------------------------------------------------------------
(* Types *)

TInv == TypeOK /\ ItemInv

(* The constructor leaves a well-typed object. *)
LEMMA InitTypes == Init => TInv
<1> SUFFICES ASSUME Init PROVE TInv
  OBVIOUS
<1> USE BoundsAssumption DEF Init
<1>1. CallsOK /\ ThreadsOK
  BY DEF CallsOK, ThreadsOK, ApiPcs
<1>2. ReceivedOK
  BY EmptySeq DEF ReceivedOK, Items
<1>3. AnalysisOK
  <2>1. m_llFirstByteRecvTime \in -1 .. MaxTime /\ m_llCbUpdateTime \in -1 .. MaxTime
    OBVIOUS
  <2>2. told \in [OnceCallbacks -> Nat] /\ m_nMediaInfoBufferLen \in Nat
    OBVIOUS
  <2> QED BY <2>1, <2>2 DEF AnalysisOK
<1>4. RecordOK
  <2>1. /\ m_pRecordBuffer \in [ptr : {"null", "new", "live", "deleted"}, items : Seq(Datagrams)]
        /\ Len(m_pRecordBuffer.items) <= RecordCapacity
    BY EmptySeq
  <2>2. files \in Seq(Seq(1 .. MaxItems)) /\ recordsFrom \in Seq(0 .. MaxItems)
    BY EmptySeq
  <2> QED BY <2>1, <2>2 DEF RecordOK, Items
<1>5. ItemInv
  BY DEF ItemInv, HasItem
<1> QED BY <1>1, <1>2, <1>3, <1>4, <1>5 DEF TInv, TypeOK

(* The source thread keeps the types. *)
LEMMA SourceTypes == TInv /\ Source => TInv'
<1> SUFFICES ASSUME TInv, Source PROVE TInv'
  OBVIOUS
<1> USE DEF TInv, TypeOK
<1>1. /\ UNCHANGED <<apiVars, probeVars, initVars, timeVars, recordVars, workerPc, item, told>>
      /\ sourcePc' \in {"check", "select", "done"}
  BY DEF Source, SourceCheck, SourceNoData, OnRecvData
<1>2. CallsOK' /\ ThreadsOK' /\ AnalysisOK'
  BY <1>1 DEF apiVars, probeVars, initVars, timeVars, recordVars, CallsOK, ThreadsOK, AnalysisOK
<1>3. RecordOK' /\ ItemInv'
  BY <1>1 DEF recordVars, RecordOK, ItemInv, HasItem
<1>4. ReceivedOK'
  <2>1. CASE SourceCheck \/ SourceNoData
    BY <2>1 DEF SourceCheck, SourceNoData, inputVars, ReceivedOK
  <2>2. CASE OnRecvData
    <3>1. PICK d \in Delays :
            /\ now + d <= MaxTime /\ now' = now + d /\ sent' = sent + 1
            /\ IF RingFull
                 THEN ring' = ring /\ lost' = lost \cup {sent + 1}
                 ELSE ring' = Append(ring, [id |-> sent + 1, time |-> now']) /\ lost' = lost
      BY <2>2 DEF OnRecvData
    <3>2. now' \in 1 .. MaxTime /\ sent + 1 \in 1 .. MaxItems
      BY <2>2, <3>1, BoundsAssumption DEF OnRecvData, ReceivedOK
    <3> DEFINE datagram == [id |-> sent + 1, time |-> now']
    <3>3. datagram \in Datagrams
      BY <3>2 DEF Datagrams
    <3> HIDE DEF datagram
    <3>4. CASE RingFull
      <4>1. ring' = ring /\ lost' \subseteq 1 .. MaxItems
        BY <3>1, <3>2, <3>4 DEF ReceivedOK
      <4> QED BY <1>1, <3>1, <3>2, <4>1 DEF ReceivedOK
    <3>5. CASE ~RingFull
      <4>1. ring' = Append(ring, datagram) /\ lost' = lost
        BY <3>1, <3>5 DEF datagram
      <4>2. ring' \in Seq(Datagrams) /\ Len(ring') = Len(ring) + 1
        BY <3>3, <4>1, AppendProperties DEF ReceivedOK
      <4>3. Len(ring) \in Nat /\ Len(ring) # RingCapacity
        BY <3>5, LenProperties DEF RingFull, ReceivedOK
      <4> QED BY <1>1, <3>1, <3>2, <4>1, <4>2, <4>3, BoundsAssumption DEF ReceivedOK
    <3> QED BY <3>4, <3>5
  <2> QED BY <2>1, <2>2 DEF Source
<1> QED BY <1>2, <1>3, <1>4

(* The worker keeps the types; the item it works on is a datagram. *)
LEMMA WorkerTypes == TInv /\ Worker => TInv'
<1> SUFFICES ASSUME TInv, Worker PROVE TInv'
  OBVIOUS
<1> USE DEF TInv, TypeOK
<1> DEFINE Plain == \/ WorkerCheckStop \/ WorkerTestRecord \/ ProcessUnsynced \/ ProcessBuffer
           Analysing == ProcessProbe \/ ProcessPackets \/ ProcessInit \/ LiveCallBackProgramInfoBrief
<1>0. Plain \/ Analysing \/ WorkerReadItem \/ WorkerRecordItem
  BY DEF Worker
<1>1. CASE Plain
  <2>1. /\ UNCHANGED <<apiVars, inputVars, probeVars, initVars, timeVars, recordVars,
                      sourcePc, ring, item, lost, told>>
        /\ workerPc' \in {"done", "read", "recordbuf", "process", "check"}
        /\ HasItem' => HasItem
    BY <1>1 DEF WorkerCheckStop, WorkerTestRecord, ProcessUnsynced, ProcessBuffer, HasItem
  <2>2. CallsOK' /\ ThreadsOK' /\ ReceivedOK'
    BY <2>1 DEF apiVars, inputVars, probeVars, recordVars, CallsOK, ThreadsOK, ReceivedOK
  <2>3. AnalysisOK' /\ RecordOK'
    BY <2>1 DEF probeVars, initVars, timeVars, recordVars, AnalysisOK, RecordOK
  <2>4. ItemInv'
    BY <2>1 DEF recordVars, ItemInv
  <2> QED BY <2>2, <2>3, <2>4
<1>2. CASE Analysing
  <2>1. /\ UNCHANGED <<apiVars, inputVars, recordVars, sourcePc, ring, item, lost>>
        /\ workerPc' \in {"packets", "init", "brief", "check"}
        /\ mediaPc' \in {mediaPc, "media", "none"}
        /\ HasItem
    BY <1>2 DEF ProcessProbe, ProcessPackets, ProcessInit, LiveCallBackProgramInfoBrief,
                probeVars, HasItem
  <2>2. CallsOK' /\ ThreadsOK' /\ ReceivedOK'
    BY <2>1 DEF apiVars, inputVars, recordVars, CallsOK, ThreadsOK, ReceivedOK
  <2>3. RecordOK' /\ ItemInv'
    BY <2>1 DEF recordVars, RecordOK, ItemInv
  <2>4. item.time \in 1 .. MaxTime
    BY <2>1 DEF ItemInv, Datagrams
  <2>5. AnalysisOK'
    <3>1. CASE ProcessProbe
      <4>1. /\ m_llFirstByteRecvTime' \in -1 .. MaxTime
            /\ m_llCbUpdateTime' \in -1 .. MaxTime
        BY <2>4, <3>1 DEF ProcessProbe, timeVars, AnalysisOK
      <4>2. m_nMediaInfoBufferLen' \in Nat
        BY <3>1 DEF ProcessProbe, probeVars, AnalysisOK
      <4>b. m_bMediaInfoChecked' \in BOOLEAN
        BY <3>1, Zenon DEF ProcessProbe, probeVars, CheckedOnce, AnalysisOK
      <4>3. told' \in [OnceCallbacks -> Nat]
        BY <3>1 DEF ProcessProbe, Tell, AnalysisOK
      <4> QED BY <3>1, <4>1, <4>2, <4>b, <4>3 DEF ProcessProbe, initVars, AnalysisOK
    <3>2. CASE ProcessPackets
      <4>1. m_llCbUpdateTime' \in -1 .. MaxTime
        BY <2>4, <3>2 DEF ProcessPackets, AnalysisOK
      <4> QED BY <3>2, <4>1 DEF ProcessPackets, probeVars, initVars, AnalysisOK
    <3>3. CASE ProcessInit
      BY <3>3 DEF ProcessInit, AddPcrPids, probeVars, initVars, timeVars, AnalysisOK
    <3>4. CASE LiveCallBackProgramInfoBrief
      <4>1. told' \in [OnceCallbacks -> Nat]
        BY <3>4 DEF LiveCallBackProgramInfoBrief, Tell, OnceCallbacks, AnalysisOK
      <4> QED BY <3>4, <4>1 DEF LiveCallBackProgramInfoBrief, probeVars, initVars, timeVars, AnalysisOK
    <3> QED BY <1>2, <3>1, <3>2, <3>3, <3>4
  <2> QED BY <2>2, <2>3, <2>5
<1>3. CASE WorkerReadItem
  <2>1. UNCHANGED <<apiVars, inputVars, probeVars, initVars, timeVars, recordVars,
                    sourcePc, lost, told>>
    BY <1>3 DEF WorkerReadItem
  <2>2. /\ workerPc' \in {"check", "record"}
        /\ ring' \in Seq(Datagrams) /\ Len(ring') <= RingCapacity /\ item' \in Items
        /\ HasItem' => item' \in Datagrams
    BY <1>3, HeadTailProperties, LenProperties, BoundsAssumption
    DEF WorkerReadItem, ReceivedOK, Items, HasItem
  <2>3. CallsOK' /\ ThreadsOK' /\ ReceivedOK'
    BY <2>1, <2>2 DEF apiVars, inputVars, probeVars, recordVars, CallsOK, ThreadsOK, ReceivedOK
  <2>4. AnalysisOK' /\ RecordOK'
    BY <2>1 DEF probeVars, initVars, timeVars, recordVars, AnalysisOK, RecordOK
  <2>5. ItemInv'
    BY <2>1, <2>2 DEF recordVars, ItemInv
  <2> QED BY <2>3, <2>4, <2>5
<1>4. CASE WorkerRecordItem
  <2>1. /\ UNCHANGED <<apiVars, inputVars, probeVars, initVars, timeVars, m_bStartRecord,
                       m_fpRecordFile, recordPc, recordItem, files, recordsFrom, sourcePc,
                       ring, item, told>>
        /\ workerPc' = "process" /\ workerPc = "recordbuf"
    BY <1>4 DEF WorkerRecordItem
  <2>2. item \in Datagrams /\ item.id \in 1 .. MaxItems
    BY <2>1 DEF ItemInv, HasItem, Datagrams
  <2> DEFINE buffered == m_pRecordBuffer.items
  <2>3. /\ lost' \subseteq 1 .. MaxItems
        /\ m_pRecordBuffer' \in [ptr : {"null", "new", "live", "deleted"}, items : Seq(Datagrams)]
        /\ Len(m_pRecordBuffer'.items) <= RecordCapacity
    <3>1. CASE m_pRecordBuffer.ptr = "live" /\ Len(buffered) < RecordCapacity
      <4>1. /\ m_pRecordBuffer' = [m_pRecordBuffer EXCEPT !.items = Append(buffered, item)]
            /\ lost' = lost
        BY <1>4, <3>1 DEF WorkerRecordItem
      <4>2. /\ Append(buffered, item) \in Seq(Datagrams)
            /\ Len(Append(buffered, item)) = Len(buffered) + 1 /\ Len(buffered) \in Nat
        BY <2>2, AppendProperties, LenProperties DEF RecordOK
      <4>3. m_pRecordBuffer'.items = Append(buffered, item)
        BY <4>1 DEF RecordOK
      <4>4. Len(m_pRecordBuffer'.items) <= RecordCapacity
        BY <3>1, <4>2, <4>3, BoundsAssumption
      <4>5. m_pRecordBuffer' \in [ptr : {"null", "new", "live", "deleted"}, items : Seq(Datagrams)]
        BY <4>1, <4>2 DEF RecordOK
      <4> QED BY <4>1, <4>4, <4>5 DEF ReceivedOK
    <3>2. CASE ~(m_pRecordBuffer.ptr = "live" /\ Len(buffered) < RecordCapacity)
      BY <1>4, <2>2, <3>2 DEF WorkerRecordItem, RecordOK, ReceivedOK
    <3> QED BY <3>1, <3>2
  <2>4. CallsOK' /\ ThreadsOK' /\ ReceivedOK'
    BY <2>1, <2>3 DEF apiVars, inputVars, probeVars, CallsOK, ThreadsOK, ReceivedOK
  <2>5. AnalysisOK'
    BY <2>1 DEF probeVars, initVars, timeVars, AnalysisOK
  <2>6. RecordOK'
    BY <2>1, <2>3 DEF RecordOK
  <2>7. ItemInv'
    BY <2>1, <2>2 DEF ItemInv
  <2> QED BY <2>4, <2>5, <2>6, <2>7
<1> QED BY <1>0, <1>1, <1>2, <1>3, <1>4

(* The media thread keeps the types. *)
LEMMA MediaTypes == TInv /\ Media => TInv'
<1> SUFFICES ASSUME TInv, Media PROVE TInv'
  OBVIOUS
<1> USE DEF TInv, TypeOK
<1>1. /\ UNCHANGED <<apiVars, inputVars, m_nMediaInfoBufferLen, m_bMediaInfoChecked, initVars,
                     timeVars, recordVars, sourcePc, workerPc, ring, item, lost>>
      /\ mediaPc' \in {"ffprobe", "done"}
  BY DEF Media, MediaInfoProbe, FfprobeProbe
<1>2. told' \in [OnceCallbacks -> Nat]
  BY DEF Media, MediaInfoProbe, FfprobeProbe, Tell, OnceCallbacks, AnalysisOK
<1>3. CallsOK' /\ ThreadsOK' /\ ReceivedOK'
  BY <1>1 DEF apiVars, inputVars, recordVars, CallsOK, ThreadsOK, ReceivedOK
<1>4. AnalysisOK'
  BY <1>1, <1>2 DEF initVars, timeVars, AnalysisOK
<1>5. RecordOK' /\ ItemInv'
  BY <1>1 DEF recordVars, RecordOK, ItemInv, HasItem
<1> QED BY <1>3, <1>4, <1>5

(* Appending to the last of the files keeps them sequences of ids. *)
LEMMA FileAppended ==
  ASSUME files \in Seq(Seq(1 .. MaxItems)), files # <<>>, NEW id \in 1 .. MaxItems
  PROVE  LET appended == [files EXCEPT ![Len(files)] = Append(@, id)]
         IN appended \in Seq(Seq(1 .. MaxItems)) /\ appended # <<>>
<1>1. Len(files) \in 1 .. Len(files) /\ Len(files) \in Nat
  BY LenProperties, EmptySeq
<1>2. files[Len(files)] \in Seq(1 .. MaxItems)
  BY <1>1, ElementOfSeq
<1>3. Append(files[Len(files)], id) \in Seq(1 .. MaxItems)
  BY <1>2, AppendProperties
<1> QED BY <1>1, <1>3, ExceptSeq

(* The record thread keeps the types. *)
LEMMA RecordTypes == TInv /\ Record => TInv'
<1> SUFFICES ASSUME TInv, Record PROVE TInv'
  OBVIOUS
<1> USE DEF TInv, TypeOK
<1>1. /\ UNCHANGED <<otherThanRecord, m_bStartRecord, m_fpRecordFile>>
      /\ recordPc' \in {"check", "read", "write", "done"}
  BY DEF Record, RecordCheckFp, RecordReadItem, RecordWriteFile
<1>2. CallsOK' /\ ThreadsOK' /\ ReceivedOK'
  BY <1>1 DEF otherThanRecord, apiVars, inputVars, probeVars, CallsOK, ThreadsOK, ReceivedOK
<1>3. AnalysisOK'
  BY <1>1 DEF otherThanRecord, probeVars, initVars, timeVars, AnalysisOK
<1>4. RecordOK' /\ ItemInv'
  <2>1. CASE RecordCheckFp
    BY <1>1, <2>1 DEF RecordCheckFp, otherThanRecord, RecordOK, ItemInv, HasItem
  <2>2. CASE RecordReadItem
    <3>1. CASE m_pRecordBuffer.items = <<>>
      BY <1>1, <2>2, <3>1 DEF RecordReadItem, otherThanRecord, RecordOK, ItemInv, HasItem
    <3>2. CASE m_pRecordBuffer.items # <<>>
      <4>1. /\ recordItem' = Head(m_pRecordBuffer.items) /\ UNCHANGED files
            /\ m_pRecordBuffer' = [m_pRecordBuffer EXCEPT !.items = Tail(m_pRecordBuffer.items)]
        BY <2>2, <3>2 DEF RecordReadItem
      <4>2. /\ Head(m_pRecordBuffer.items) \in Datagrams
            /\ Tail(m_pRecordBuffer.items) \in Seq(Datagrams)
            /\ Len(Tail(m_pRecordBuffer.items)) = Len(m_pRecordBuffer.items) - 1
            /\ Len(m_pRecordBuffer.items) \in Nat
        BY <3>2, HeadTailProperties, LenProperties DEF RecordOK
      <4>3. m_pRecordBuffer'.items = Tail(m_pRecordBuffer.items)
        BY <4>1 DEF RecordOK
      <4>4. Len(m_pRecordBuffer'.items) <= RecordCapacity
        BY <4>2, <4>3, BoundsAssumption DEF RecordOK
      <4>5. m_pRecordBuffer' \in [ptr : {"null", "new", "live", "deleted"}, items : Seq(Datagrams)]
        BY <4>1, <4>2 DEF RecordOK
      <4> QED BY <1>1, <4>1, <4>2, <4>4, <4>5
              DEF otherThanRecord, RecordOK, ItemInv, HasItem, Items
    <3> QED BY <3>1, <3>2
  <2>3. CASE RecordWriteFile
    <3>1. recordItem.id \in 1 .. MaxItems
      BY <2>3 DEF RecordWriteFile, ItemInv, Datagrams
    <3>2. files' \in Seq(Seq(1 .. MaxItems)) /\ (m_fpRecordFile => files' # <<>>)
      BY <2>3, <3>1, FileAppended DEF RecordWriteFile, RecordOK, ItemInv
    <3>3. UNCHANGED <<m_pRecordBuffer, recordItem>> /\ recordPc' # "write"
      BY <2>3 DEF RecordWriteFile
    <3> QED BY <1>1, <3>2, <3>3 DEF otherThanRecord, RecordOK, ItemInv, HasItem
  <2> QED BY <2>1, <2>2, <2>3 DEF Record
<1> QED BY <1>2, <1>3, <1>4

(* The application's calls keep the types. *)
LEMMA ApiTypes == TInv /\ (NewCall \/ InCall) => TInv'
<1> SUFFICES ASSUME TInv, NewCall \/ InCall PROVE TInv'
  OBVIOUS
<1> USE DEF TInv, TypeOK, recordApi, stopOnly, ReturnFromStopRecord
<1>1. UNCHANGED otherThanApi
  BY DEF NewCall, InCall, OpenFails, OpenSource, OpenWorker, StartRecordOpen, StartRecordBuffer,
         StartRecordNew, StartRecordInit, StartRecordThread, StartRecordFlag,
         StopRecordFlag, StopRecordClose, StopRecordJoin, StopRecordFree, StopSource,
         StopJoinSource, StopNullSource, StopWorkFlag, StopJoinWorker, StopJoinMedia, Destroy
<1>2. ReceivedOK' /\ AnalysisOK'
  BY <1>1 DEF otherThanApi, inputVars, probeVars, initVars, timeVars, ReceivedOK, AnalysisOK
<1>3. CASE OpenFails \/ OpenSource \/ OpenWorker
  <2>1. UNCHANGED recordVars
    BY <1>3 DEF OpenFails, OpenSource, OpenWorker
  <2>a. api' \in {"idle", "open"} /\ UNCHANGED <<objects, m_bStop>>
    BY <1>3 DEF OpenFails, OpenSource, OpenWorker
  <2>b. m_pSource' \in [ptr : {"null", "live", "deleted"}, stop : BOOLEAN]
    <3>1. CASE OpenSource
      BY <3>1 DEF OpenSource
    <3>2. CASE OpenFails \/ OpenWorker
      BY <3>2 DEF OpenFails, OpenWorker, CallsOK
    <3> QED BY <1>3, <3>1, <3>2
  <2>2. CallsOK'
    BY <2>a, <2>b DEF CallsOK, ApiPcs
  <2>3. ThreadsOK' /\ ItemInv'
    BY <1>1, <1>3, <2>1 DEF OpenFails, OpenSource, OpenWorker, otherThanApi, probeVars, recordVars,
                            ThreadsOK, ItemInv, HasItem
  <2> QED BY <1>2, <2>1, <2>2, <2>3 DEF recordVars, RecordOK
<1>4. CASE StartRecordOpen \/ StartRecordBuffer \/ StartRecordThread \/ StartRecordFlag
  <2>1. UNCHANGED <<objects, m_pSource, m_bStop, sourcePc, workerPc, recordItem>>
    BY <1>4 DEF StartRecordOpen, StartRecordBuffer, StartRecordNew, StartRecordInit,
                StartRecordThread, StartRecordFlag
  <2>2. CallsOK'
    BY <1>4, <2>1 DEF StartRecordOpen, StartRecordBuffer, StartRecordNew, StartRecordInit,
                      StartRecordThread, StartRecordFlag,
                      CallsOK, ApiPcs
  <2>3. recordPc' \in {recordPc, "check", "none"}
    BY <1>4 DEF StartRecordOpen, StartRecordBuffer, StartRecordNew, StartRecordInit,
                StartRecordThread, StartRecordFlag
  <2>4. ThreadsOK'
    BY <1>1, <2>1, <2>3 DEF otherThanApi, probeVars, ThreadsOK
  <2>5. files' \in Seq(Seq(1 .. MaxItems)) /\ (m_fpRecordFile' => files' # <<>>)
    <3>1. CASE StartRecordOpen
      <4>1. files' = Append(files, <<>>) /\ <<>> \in Seq(1 .. MaxItems)
        BY <3>1, EmptySeq DEF StartRecordOpen
      <4> QED BY <4>1, AppendProperties DEF RecordOK
    <3>2. CASE ~StartRecordOpen
      BY <1>4, <3>2 DEF StartRecordBuffer, StartRecordNew, StartRecordInit, StartRecordThread,
                        StartRecordFlag, RecordOK, ItemInv
    <3> QED BY <3>1, <3>2
  <2>6. /\ m_pRecordBuffer' \in [ptr : {"null", "new", "live", "deleted"}, items : Seq(Datagrams)]
        /\ Len(m_pRecordBuffer'.items) <= RecordCapacity
    <3>1. CASE StartRecordBuffer
      <4>1. m_pRecordBuffer' \in [ptr : {"new", "live"}, items : {<<>>}]
        BY <3>1 DEF StartRecordBuffer, StartRecordNew, StartRecordInit
      <4>2. <<>> \in Seq(Datagrams) /\ Len(<<>>) = 0
        BY EmptySeq
      <4>3. PICK q \in {"new", "live"} : m_pRecordBuffer' = [ptr |-> q, items |-> <<>>]
        BY <4>1
      <4> QED BY <4>2, <4>3, BoundsAssumption
    <3>2. CASE StartRecordOpen \/ StartRecordThread \/ StartRecordFlag
      BY <3>2 DEF StartRecordOpen, StartRecordThread, StartRecordFlag, RecordOK
    <3> QED BY <1>4, <3>1, <3>2
  <2>7. recordsFrom' \in Seq(0 .. MaxItems)
    <3>1. item.id \in 0 .. MaxItems
      BY BoundsAssumption DEF ReceivedOK, Items, Datagrams, NoItem
    <3>2. CASE StartRecordFlag
      BY <3>1, <3>2, AppendProperties DEF StartRecordFlag, RecordOK
    <3>3. CASE StartRecordOpen \/ StartRecordBuffer \/ StartRecordThread
      BY <3>3 DEF StartRecordOpen, StartRecordBuffer, StartRecordNew, StartRecordInit,
                  StartRecordThread, RecordOK
    <3> QED BY <1>4, <3>2, <3>3
  <2>8. m_bStartRecord' \in BOOLEAN /\ m_fpRecordFile' \in BOOLEAN
    BY <1>4 DEF StartRecordOpen, StartRecordBuffer, StartRecordNew, StartRecordInit,
                StartRecordThread, StartRecordFlag, RecordOK
  <2>9. RecordOK' /\ ItemInv'
    BY <1>1, <2>1, <2>3, <2>5, <2>6, <2>7, <2>8 DEF otherThanApi, RecordOK, ItemInv, HasItem
  <2> QED BY <1>2, <2>2, <2>4, <2>9
<1>5. CASE StopRecordFlag \/ StopRecordClose \/ StopRecordJoin \/ StopRecordFree
  <2>1. UNCHANGED <<objects, m_pSource, m_bStop, sourcePc, workerPc, recordPc, recordItem,
                    files, recordsFrom>>
    BY <1>5 DEF StopRecordFlag, StopRecordClose, StopRecordJoin, StopRecordFree, recordVars
  <2>2. api' \in ApiPcs
    BY <1>5 DEF StopRecordFlag, StopRecordClose, StopRecordJoin, StopRecordFree, ApiPcs
  <2>3. CallsOK' /\ ThreadsOK'
    BY <1>1, <2>1, <2>2 DEF otherThanApi, probeVars, CallsOK, ThreadsOK
  <2>4. /\ m_pRecordBuffer' \in [ptr : {"null", "new", "live", "deleted"}, items : Seq(Datagrams)]
        /\ Len(m_pRecordBuffer'.items) <= RecordCapacity
    <3>1. CASE StopRecordFree
      BY <3>1, EmptySeq, BoundsAssumption DEF StopRecordFree
    <3>2. CASE StopRecordFlag \/ StopRecordClose \/ StopRecordJoin
      BY <3>2 DEF StopRecordFlag, StopRecordClose, StopRecordJoin, recordVars, RecordOK
    <3> QED BY <1>5, <3>1, <3>2
  <2>a. /\ m_bStartRecord' = FALSE \/ UNCHANGED m_bStartRecord
        /\ m_fpRecordFile' = FALSE \/ UNCHANGED m_fpRecordFile
    BY <1>5 DEF StopRecordFlag, StopRecordClose, StopRecordJoin, StopRecordFree, recordVars
  <2>5. m_bStartRecord' \in BOOLEAN /\ m_fpRecordFile' \in BOOLEAN
    <3>1. m_bStartRecord \in BOOLEAN /\ m_fpRecordFile \in BOOLEAN
      BY DEF RecordOK
    <3> QED BY <2>a, <3>1
  <2>6. RecordOK'
    <3>1. /\ recordItem' \in Items /\ files' \in Seq(Seq(1 .. MaxItems))
          /\ recordsFrom' \in Seq(0 .. MaxItems)
      BY <2>1 DEF RecordOK
    <3> QED BY <2>4, <2>5, <3>1, Zenon DEF RecordOK
  <2>7. ItemInv'
    <3>1. CASE m_fpRecordFile' = FALSE
      BY <1>1, <2>1, <3>1 DEF otherThanApi, ItemInv, HasItem
    <3>2. CASE UNCHANGED m_fpRecordFile
      BY <1>1, <2>1, <3>2 DEF otherThanApi, ItemInv, HasItem
    <3> QED BY <2>a, <3>1, <3>2
  <2> QED BY <1>2, <2>3, <2>6, <2>7
<1>6. CASE \/ StopSource \/ StopJoinSource \/ StopNullSource \/ StopWorkFlag
           \/ StopJoinWorker \/ StopJoinMedia \/ Destroy
  <2>1. UNCHANGED <<recordVars, sourcePc, workerPc>>
    BY <1>6 DEF StopSource, StopJoinSource, StopNullSource, StopWorkFlag, StopJoinWorker,
                StopJoinMedia, Destroy
  <2>2. CallsOK'
    BY <1>6 DEF StopSource, StopJoinSource, StopNullSource, StopWorkFlag, StopJoinWorker,
                StopJoinMedia, Destroy, CallsOK, ApiPcs
  <2>3. ThreadsOK' /\ RecordOK' /\ ItemInv'
    BY <1>1, <2>1 DEF otherThanApi, probeVars, recordVars, ThreadsOK, RecordOK, ItemInv, HasItem
  <2> QED BY <1>2, <2>2, <2>3
<1> QED BY <1>3, <1>4, <1>5, <1>6 DEF NewCall, InCall

(* Every step keeps the types. *)
LEMMA NextTypes == TInv /\ [Next]_vars => TInv'
<1> SUFFICES ASSUME TInv, [Next]_vars PROVE TInv'
  OBVIOUS
<1>1. CASE UNCHANGED vars
  BY <1>1 DEF vars, apiVars, inputVars, probeVars, initVars, timeVars, recordVars, TInv, TypeOK,
              CallsOK, ThreadsOK, ReceivedOK, AnalysisOK, RecordOK, ItemInv, HasItem
<1>2. CASE Cleaned
  BY <1>1, <1>2 DEF Cleaned
<1> QED BY <1>1, <1>2, ApiTypes, SourceTypes, WorkerTypes, MediaTypes, RecordTypes DEF Next

(* Every variable keeps its type: the rings and the record buffer stay within
   their capacity, and a thread past the read of a ring has a datagram. *)
THEOREM TypeCorrect == Spec => []TypeOK
<1>1. TInv => TypeOK
  BY DEF TInv
<1> QED BY <1>1, InitTypes, NextTypes, PTL DEF Spec

-----------------------------------------------------------------------------
(* Nothing is used after it is freed *)

\* what the steps of the threads leave to the application's calls
threadsLeave == <<api, objects, m_bStop, m_pSource, m_fpRecordFile, m_bStartRecord>>

(* How far Stop has come is kept by the steps of the threads: only a running
   worker starts the media thread. *)
LEMMA ThreadsKeepStop ==
  StopInv /\ (Source \/ Worker \/ Media \/ Record) => StopInv' /\ UNCHANGED threadsLeave
<1> SUFFICES ASSUME StopInv, Source \/ Worker \/ Media \/ Record
             PROVE StopInv' /\ UNCHANGED threadsLeave
  OBVIOUS
<1> USE DEF Running, StopInv, threadsLeave
<1>1. CASE Source
  BY <1>1 DEF Source, SourceCheck, SourceNoData, OnRecvData, apiVars, probeVars, recordVars
<1>2. CASE Worker
  <2>1. UNCHANGED <<threadsLeave, sourcePc>> /\ workerPc \notin {"none", "done"}
    BY <1>2 DEF Worker, WorkerCheckStop, WorkerReadItem, WorkerTestRecord, WorkerRecordItem,
                ProcessUnsynced, ProcessProbe, ProcessPackets, ProcessInit,
                LiveCallBackProgramInfoBrief, ProcessBuffer, apiVars, recordVars
  <2> QED BY <2>1
<1>3. CASE Media
  BY <1>3 DEF Media, MediaInfoProbe, FfprobeProbe, apiVars, recordVars
<1>4. CASE Record
  BY <1>4 DEF Record, RecordCheckFp, RecordReadItem, RecordWriteFile, otherThanRecord,
              apiVars, probeVars
<1> QED BY <1>1, <1>2, <1>3, <1>4

(* How far Stop has come is kept by the application's calls: each join is
   passed only when its thread has ended, and a thread is started only by
   OpenMRL, before any Stop. *)
LEMMA CallsKeepStop == TypeOK /\ StopInv /\ (NewCall \/ InCall) => StopInv'
<1> SUFFICES ASSUME TypeOK, StopInv, NewCall \/ InCall PROVE StopInv'
  OBVIOUS
<1> USE DEF Running, StopInv
<1>s. m_pSource = [ptr |-> m_pSource.ptr, stop |-> m_pSource.stop]
  BY DEF TypeOK, CallsOK
<1>1. CASE OpenFails \/ OpenSource \/ OpenWorker
  BY <1>1 DEF OpenFails, OpenSource, OpenWorker, otherThanApi, probeVars
<1>2. CASE \/ StartRecordOpen \/ StartRecordBuffer \/ StartRecordThread \/ StartRecordFlag
           \/ StopRecordFlag
  BY <1>2 DEF StartRecordOpen, StartRecordBuffer, StartRecordNew, StartRecordInit,
              StartRecordThread, StartRecordFlag,
              StopRecordFlag, recordApi, otherThanApi, probeVars
<1>3. CASE StopRecordClose \/ StopRecordJoin \/ StopRecordFree
  BY <1>3 DEF StopRecordClose, StopRecordJoin, StopRecordFree, ReturnFromStopRecord, recordApi,
              otherThanApi, probeVars
<1>4. CASE StopSource \/ StopJoinSource \/ StopNullSource
  BY <1>s, <1>4 DEF StopSource, StopJoinSource, StopNullSource, stopOnly, otherThanApi, probeVars
<1>5. CASE StopWorkFlag \/ StopJoinWorker \/ StopJoinMedia \/ Destroy
  BY <1>5 DEF StopWorkFlag, StopJoinWorker, StopJoinMedia, Destroy, stopOnly, otherThanApi,
              probeVars
<1> QED BY <1>1, <1>2, <1>3, <1>4, <1>5 DEF NewCall, InCall

(* How far a recording has come is kept by every step: the buffer lives while
   the thread may run, because only StopRecordFree deletes it, after the join. *)
LEMMA StepsKeepRecord ==
  TypeOK /\ StopInv /\ RecordInv /\ Next => RecordInv'
<1> SUFFICES ASSUME TypeOK, StopInv, RecordInv, Next PROVE RecordInv'
  OBVIOUS
<1> USE DEF Running, RecordInv
<1>1. CASE Source \/ Media
  BY <1>1 DEF Source, SourceCheck, SourceNoData, OnRecvData, Media, MediaInfoProbe,
              FfprobeProbe, apiVars, recordVars
<1>2. CASE Worker
  <2>1. CASE WorkerRecordItem
    <3>1. m_pRecordBuffer'.ptr = m_pRecordBuffer.ptr
      BY <2>1 DEF WorkerRecordItem, TypeOK, RecordOK
    <3> QED BY <2>1, <3>1 DEF WorkerRecordItem, apiVars
  <2>2. CASE ~WorkerRecordItem
    BY <1>2, <2>2 DEF Worker, WorkerCheckStop, WorkerReadItem, WorkerTestRecord,
                ProcessUnsynced, ProcessProbe, ProcessPackets, ProcessInit,
                LiveCallBackProgramInfoBrief, ProcessBuffer, apiVars, recordVars
  <2> QED BY <2>1, <2>2
<1>3. CASE Record
  <2>1. m_pRecordBuffer'.ptr = m_pRecordBuffer.ptr /\ Running(recordPc)
    BY <1>3 DEF Record, RecordCheckFp, RecordReadItem, RecordWriteFile, TypeOK, RecordOK
  <2>2. UNCHANGED <<api, m_fpRecordFile>>
    BY <1>3 DEF Record, RecordCheckFp, RecordReadItem, RecordWriteFile, otherThanRecord, apiVars
  <2> QED BY <2>1, <2>2
<1>4. CASE \/ StartRecordOpen \/ StartRecordBuffer \/ StartRecordThread \/ StartRecordFlag
           \/ StopRecordFlag
  BY <1>4 DEF StartRecordOpen, StartRecordBuffer, StartRecordNew, StartRecordInit,
              StartRecordThread, StartRecordFlag, StopRecordFlag
<1>5. CASE StopRecordClose \/ StopRecordJoin \/ StopRecordFree
  BY <1>5 DEF StopRecordClose, StopRecordJoin, StopRecordFree, ReturnFromStopRecord, recordVars
<1>6. CASE \/ OpenFails \/ OpenSource \/ OpenWorker
           \/ StopSource \/ StopJoinSource \/ StopNullSource \/ StopWorkFlag
           \/ StopJoinWorker \/ StopJoinMedia \/ Destroy
  BY <1>6 DEF OpenFails, OpenSource, OpenWorker, StopSource, StopJoinSource, StopNullSource,
              StopWorkFlag, StopJoinWorker, StopJoinMedia, Destroy, stopOnly, recordVars
<1>7. CASE Cleaned
  BY <1>7 DEF Cleaned, vars, apiVars, recordVars
<1> QED BY <1>1, <1>2, <1>3, <1>4, <1>5, <1>6, <1>7 DEF Next, NewCall, InCall

(* Stop and the destructor delete what the threads use only when they have
   ended, StopRecord frees the record buffer only when its thread has, and
   easyice_cleanup leaves nothing running, open or allocated. *)
THEOREM NothingUsedAfterFree == Spec => []CleanupQuiesces
<1> DEFINE IInv == TInv /\ StopInv /\ RecordInv
<1>1. Init => IInv
  BY InitTypes DEF Init, StopInv, RecordInv, Running
<1>2. IInv /\ [Next]_vars => IInv'
  <2> SUFFICES ASSUME IInv, [Next]_vars PROVE IInv'
    OBVIOUS
  <2>1. TInv' /\ TypeOK
    BY NextTypes DEF TInv
  <2>2. CASE UNCHANGED vars
    BY <2>1, <2>2 DEF vars, apiVars, probeVars, recordVars, StopInv, RecordInv, Running
  <2>3. CASE Next
    <3>1. CASE Cleaned
      BY <2>2, <3>1 DEF Cleaned
    <3>2. StopInv' \/ Cleaned
      BY <2>1, <2>3, ThreadsKeepStop, CallsKeepStop DEF Next
    <3> QED BY <2>1, <2>3, <3>1, <3>2, StepsKeepRecord
  <2> QED BY <2>2, <2>3
<1>3. IInv => CleanupQuiesces
  BY DEF StopInv, RecordInv, Running, CleanupQuiesces
<1> QED BY <1>1, <1>2, <1>3, PTL DEF Spec

-----------------------------------------------------------------------------
(* The callbacks made once *)

(* A callback made once follows a flag that is set with it or before it, by the
   one thread that tests the flag. *)
LEMMA StepsKeepCallbacks == TypeOK /\ CallbackInv /\ [Next]_vars => CallbackInv'
<1> SUFFICES ASSUME TypeOK, CallbackInv, [Next]_vars PROVE CallbackInv'
  OBVIOUS
<1> USE DEF CallbackInv, OnceCallbacks
<1>t. told \in [OnceCallbacks -> Nat]
  BY DEF TypeOK, AnalysisOK
<1>1. CASE UNCHANGED <<told, mediaPc, m_bMediaInfoChecked, m_bInited, workerPc>>
  BY <1>1
<1>2. CASE Worker
  <2>1. CASE ProcessProbe
    <3>1. UNCHANGED m_bInited /\ workerPc' = "packets" /\ workerPc = "process"
      BY <2>1 DEF ProcessProbe, initVars
    <3>2. CASE UNCHANGED <<mediaPc, m_bMediaInfoChecked, told>>
      BY <3>1, <3>2
    <3>3. CASE ~UNCHANGED <<mediaPc, m_bMediaInfoChecked, told>>
      <4>1. /\ ~m_bMediaInfoChecked /\ mediaPc' \in {"media", "none"}
            /\ m_bMediaInfoChecked' = TRUE /\ told' = [told EXCEPT !["PSI"] = @ + 1]
        BY <2>1, <3>3 DEF ProcessProbe, probeVars, CheckedOnce, Tell
      <4> QED BY <1>t, <3>1, <4>1
    <3> QED BY <3>2, <3>3
  <2>2. CASE ProcessInit
    BY <2>2 DEF ProcessInit, probeVars, initVars
  <2>3. CASE LiveCallBackProgramInfoBrief
    BY <1>t, <2>3 DEF LiveCallBackProgramInfoBrief, Tell, probeVars, initVars
  <2>4. CASE \/ WorkerCheckStop \/ WorkerReadItem \/ WorkerTestRecord \/ WorkerRecordItem
             \/ ProcessUnsynced \/ ProcessPackets \/ ProcessBuffer
    BY <2>4 DEF WorkerCheckStop, WorkerReadItem, WorkerTestRecord, WorkerRecordItem,
                ProcessUnsynced, ProcessPackets, ProcessBuffer, probeVars, initVars
  <2> QED BY <1>2, <2>1, <2>2, <2>3, <2>4 DEF Worker
<1>3. CASE Media
  BY <1>t, <1>3 DEF Media, MediaInfoProbe, FfprobeProbe, Tell, initVars
<1>4. CASE OpenWorker
  <2>1. /\ workerPc' \in {"check", "none"}
        /\ UNCHANGED <<told, mediaPc, m_bMediaInfoChecked, m_bInited>>
    BY <1>4 DEF OpenWorker, otherThanApi, probeVars, initVars
  <2> QED BY <2>1
<1>5. CASE Source \/ Record \/ Cleaned \/ UNCHANGED vars
  BY <1>1, <1>5 DEF Source, SourceCheck, SourceNoData, OnRecvData, Record, RecordCheckFp,
                    RecordReadItem, RecordWriteFile, otherThanRecord, Cleaned, vars,
                    probeVars, initVars
<1>6. CASE NewCall \/ (InCall /\ ~OpenWorker)
  BY <1>1, <1>6 DEF NewCall, InCall, OpenFails, OpenSource, StartRecordOpen, StartRecordBuffer,
                    StartRecordNew, StartRecordInit, StartRecordThread, StartRecordFlag,
                    StopRecordFlag, StopRecordClose, StopRecordJoin, StopRecordFree,
                    StopSource, StopJoinSource, StopNullSource, StopWorkFlag, StopJoinWorker,
                    StopJoinMedia, Destroy, recordApi, stopOnly, otherThanApi, probeVars, initVars
<1> QED BY <1>2, <1>3, <1>4, <1>5, <1>6 DEF Next

(* MEDIAINFO, FFPROBE, PSI and the program list are reported at most once,
   though three threads call back and a probe thread may not start. *)
THEOREM ReportsMadeOnce == Spec => []ReportedOnce
<1>1. Init => CallbackInv
  BY DEF Init, CallbackInv, OnceCallbacks
<1>2. CallbackInv => ReportedOnce
  BY DEF CallbackInv, ReportedOnce
<1> QED BY <1>1, <1>2, TypeCorrect, StepsKeepCallbacks, PTL DEF Spec

-----------------------------------------------------------------------------
(* What is recorded *)

Ids(s) == {s[k].id : k \in DOMAIN s}
RisingIds(s) == \A j, k \in DOMAIN s : j < k => s[j].id < s[k].id

\* the ids that wait in the live ring and in the record buffer, that the record
\* thread has taken, and that are written
Waiting == Ids(ring)
Buffered == Ids(m_pRecordBuffer.items)
Taken == IF recordPc = "write" THEN {recordItem.id} ELSE {}
Written == {x \in 1 .. MaxItems : \E r \in DOMAIN files : x \in ToSet(files[r])}

\* the worker has not yet decided whether it records its item
Pending == workerPc \in {"record", "recordbuf"}

\* written, taken, buffered, the worker's item, the ring: each place has only
\* later datagrams than the one before it
WaitingInv ==
  /\ RisingIds(ring)
  /\ item.id <= sent /\ \A x \in Waiting : item.id < x /\ x <= sent

RecordedInv ==
  /\ RisingIds(m_pRecordBuffer.items)
  /\ \A x \in Written, y \in Taken \cup Buffered : x < y
  /\ \A x \in Taken, y \in Buffered : x < y
  /\ \A x \in Written \cup Taken \cup Buffered : IF Pending THEN x < item.id ELSE x <= item.id
  /\ RecordedInOrder

PlacesInv == WaitingInv /\ RecordedInv

(* An item behind the others. *)
LEMMA IdsAppended ==
  ASSUME NEW s \in Seq(Datagrams), NEW d \in Datagrams, NEW t, t = Append(s, d)
  PROVE  /\ Ids(t) = Ids(s) \cup {d.id}
         /\ RisingIds(s) /\ (\A x \in Ids(s) : x < d.id) => RisingIds(t)
<1>1. /\ Len(s) \in Nat /\ DOMAIN s = 1 .. Len(s)
      /\ DOMAIN t = 1 .. Len(s) + 1 /\ t[Len(s) + 1] = d
      /\ \A i \in 1 .. Len(s) : t[i] = s[i]
  BY AppendProperties, LenProperties
<1>2. PICK n \in Nat : n = Len(s)
  BY <1>1
<1>3. \A i \in DOMAIN t : \/ i \in DOMAIN s /\ t[i] = s[i]
                          \/ i = n + 1 /\ t[i] = d
  <2>1. \A i \in 1 .. n + 1 : i \in 1 .. n \/ i = n + 1
    OBVIOUS
  <2>2. DOMAIN t = 1 .. n + 1 /\ DOMAIN s = 1 .. n /\ t[n + 1] = d /\ \A i \in 1 .. n : t[i] = s[i]
    BY <1>1, <1>2
  <2> QED BY <2>1, <2>2
<1>4. n + 1 \in DOMAIN t /\ t[n + 1] = d /\ \A i \in DOMAIN s : i \in DOMAIN t /\ t[i] = s[i]
  BY <1>1, <1>2
<1>5. Ids(t) = Ids(s) \cup {d.id}
  <2>1. \A i \in DOMAIN t : t[i].id \in Ids(s) \cup {d.id}
    BY <1>3 DEF Ids
  <2>2. d.id \in Ids(t) /\ \A i \in DOMAIN s : s[i].id \in Ids(t)
    BY <1>4 DEF Ids
  <2>3. Ids(t) \subseteq Ids(s) \cup {d.id} /\ Ids(s) \cup {d.id} \subseteq Ids(t)
    BY <2>1, <2>2 DEF Ids
  <2> QED BY <2>3
<1>6. ASSUME RisingIds(s), \A x \in Ids(s) : x < d.id PROVE RisingIds(t)
  <2> SUFFICES ASSUME NEW j \in DOMAIN t, NEW k \in DOMAIN t, j < k PROVE t[j].id < t[k].id
    BY DEF RisingIds
  <2>1. j \in 1 .. n /\ (k \in 1 .. n \/ k = n + 1)
    BY <1>1, <1>2
  <2>2. j \in DOMAIN s /\ s[j].id < d.id
    BY <1>1, <1>2, <1>6, <2>1 DEF Ids
  <2>3. CASE k \in 1 .. n
    BY <1>1, <1>2, <1>6, <2>1, <2>3 DEF RisingIds
  <2>4. CASE k = n + 1
    BY <1>1, <1>2, <2>1, <2>2, <2>4
  <2> QED BY <2>1, <2>3, <2>4
<1> QED BY <1>5, <1>6

(* The front taken off. *)
LEMMA IdsTaken ==
  ASSUME NEW s \in Seq(Datagrams), s # <<>>
  PROVE  /\ Ids(s) = {Head(s).id} \cup Ids(Tail(s)) /\ Head(s) \in Datagrams
         /\ RisingIds(s) => RisingIds(Tail(s)) /\ \A x \in Ids(Tail(s)) : Head(s).id < x
<1> DEFINE t == Tail(s)
<1>1. /\ Len(s) \in Nat \ {0} /\ DOMAIN s = 1 .. Len(s) /\ Head(s) = s[1] /\ Head(s) \in Datagrams
      /\ DOMAIN t = 1 .. Len(s) - 1 /\ \A i \in 1 .. Len(s) - 1 : t[i] = s[i + 1]
  BY EmptySeq, HeadTailProperties, LenProperties
<1>2. PICK n \in Nat \ {0} : n = Len(s)
  BY <1>1
<1> HIDE DEF t
<1>3. 1 \in DOMAIN s /\ \A i \in DOMAIN t : i + 1 \in DOMAIN s /\ 1 < i + 1 /\ t[i] = s[i + 1]
  BY <1>1, <1>2
<1>4. ASSUME NEW i \in DOMAIN s, i # 1 PROVE i - 1 \in DOMAIN t /\ t[i - 1] = s[i]
  <2>1. i - 1 \in 1 .. n - 1 /\ (i - 1) + 1 = i
    BY <1>1, <1>2, <1>4
  <2> QED BY <1>1, <1>2, <2>1
<1>5. Ids(s) = {Head(s).id} \cup Ids(t)
  <2>1. \A i \in DOMAIN s : s[i].id \in {Head(s).id} \cup Ids(t)
    BY <1>1, <1>4 DEF Ids
  <2>2. Head(s).id \in Ids(s) /\ \A i \in DOMAIN t : t[i].id \in Ids(s)
    BY <1>1, <1>3 DEF Ids
  <2>3. Ids(s) \subseteq {Head(s).id} \cup Ids(t) /\ {Head(s).id} \cup Ids(t) \subseteq Ids(s)
    BY <2>1, <2>2 DEF Ids
  <2> QED BY <2>3
<1>6. ASSUME RisingIds(s) PROVE RisingIds(t) /\ \A x \in Ids(t) : Head(s).id < x
  <2>1. ASSUME NEW j \in DOMAIN t, NEW k \in DOMAIN t, j < k PROVE t[j].id < t[k].id
    <3>1. j + 1 \in DOMAIN s /\ k + 1 \in DOMAIN s /\ j + 1 < k + 1
      BY <1>1, <1>2, <2>1
    <3>2. s[j + 1].id < s[k + 1].id
      BY <1>6, <3>1 DEF RisingIds
    <3> QED BY <1>3, <3>2
  <2>2. \A i \in DOMAIN t : Head(s).id < t[i].id
    BY <1>1, <1>3, <1>6 DEF RisingIds
  <2> QED BY <2>1, <2>2 DEF RisingIds, Ids
<1> QED BY <1>1, <1>5, <1>6 DEF t

(* A later datagram at the end of the file that is written. *)
LEMMA FileWritten ==
  ASSUME TypeOK, TypeOK', files # <<>>, NEW id \in 1 .. MaxItems,
         files' = [files EXCEPT ![Len(files)] = Append(@, id)]
  PROVE  /\ Len(files) \in Nat \ {0} /\ Len(files') = Len(files)
         /\ \A r \in 1 .. Len(files) - 1 : files'[r] = files[r]
         /\ ToSet(files'[Len(files)]) = ToSet(files[Len(files)]) \cup {id}
         /\ Written' = Written \cup {id}
         /\ RecordedInOrder /\ (\A x \in Written : x < id) => RecordedInOrder'
<1>1. /\ files \in Seq(Seq(1 .. MaxItems)) /\ Len(files) \in Nat \ {0} /\ DOMAIN files = 1 .. Len(files)
      /\ DOMAIN files' = 1 .. Len(files)
      /\ Len(files') = Len(files)
      /\ \A r \in 1 .. Len(files) : files[r] \in Seq(1 .. MaxItems)
  BY EmptySeq, LenProperties, ElementOfSeq DEF TypeOK, RecordOK
<1>2. PICK n \in Nat \ {0} : n = Len(files)
  BY <1>1
<1>3. n \in 1 .. n /\ files[n] \in Seq(1 .. MaxItems)
  BY <1>1, <1>2
<1>4. PICK m \in Nat : m = Len(files[n])
  BY <1>3, LenProperties
<1>5. /\ files'[n] = Append(files[n], id) /\ DOMAIN files[n] = 1 .. m /\ DOMAIN files'[n] = 1 .. m + 1
      /\ files'[n][m + 1] = id /\ \A i \in 1 .. m : files'[n][i] = files[n][i]
  <2>1. files'[n] = Append(files[n], id)
    BY <1>1, <1>2, <1>3
  <2> QED BY <1>3, <1>4, <2>1, AppendProperties, LenProperties
<1>6. \A r \in 1 .. n - 1 : files'[r] = files[r]
  <2>1. \A r \in 1 .. n - 1 : r \in 1 .. n /\ r # n
    OBVIOUS
  <2> QED BY <1>1, <1>2, <2>1
<1>7. \A r \in 1 .. n : r = n \/ r \in 1 .. n - 1
  OBVIOUS
<1>8. ASSUME NEW r \in 1 .. n, NEW i \in DOMAIN files'[r]
      PROVE  \/ i \in DOMAIN files[r] /\ files'[r][i] = files[r][i]
             \/ r = n /\ i = m + 1 /\ files'[r][i] = id
  BY <1>5, <1>6, <1>7, <1>8
<1>9. \A i \in DOMAIN files[n] : i \in DOMAIN files'[n] /\ files'[n][i] = files[n][i]
  BY <1>5
<1>10. ToSet(files'[n]) = ToSet(files[n]) \cup {id}
  <2>1. \A i \in DOMAIN files'[n] : files'[n][i] \in ToSet(files[n]) \cup {id}
    BY <1>3, <1>8 DEF ToSet
  <2>2. id \in ToSet(files'[n]) /\ \A i \in DOMAIN files[n] : files[n][i] \in ToSet(files'[n])
    BY <1>5, <1>9 DEF ToSet
  <2>3. /\ ToSet(files'[n]) \subseteq ToSet(files[n]) \cup {id}
        /\ ToSet(files[n]) \cup {id} \subseteq ToSet(files'[n])
    BY <2>1, <2>2 DEF ToSet
  <2> QED BY <2>3
<1>11. Written' = Written \cup {id}
  <2>1. \A x : (\E r \in 1 .. n : x \in ToSet(files'[r]))
                  <=> (\E r \in 1 .. n : x \in ToSet(files[r])) \/ x = id
    BY <1>3, <1>6, <1>7, <1>10
  <2> QED BY <1>1, <1>2, <2>1 DEF Written
<1>12. ASSUME RecordedInOrder, \A x \in Written : x < id PROVE RecordedInOrder'
  <2>1. \A r \in 1 .. n : \A i \in DOMAIN files[r] : files[r][i] < id
    <3> SUFFICES ASSUME NEW r \in 1 .. n, NEW i \in DOMAIN files[r] PROVE files[r][i] \in Written
      BY <1>12
    <3>1. files[r][i] \in 1 .. MaxItems
      BY <1>1, <1>2, LenProperties, ElementOfSeq
    <3>2. files[r][i] \in ToSet(files[r])
      BY DEF ToSet
    <3> QED BY <1>1, <1>2, <3>1, <3>2 DEF Written
  <2> SUFFICES ASSUME NEW r \in DOMAIN files', NEW s \in DOMAIN files',
                      NEW i \in DOMAIN files'[r], NEW j \in DOMAIN files'[s],
                      r < s \/ (r = s /\ i < j)
               PROVE  files'[r][i] < files'[s][j]
    BY DEF RecordedInOrder
  <2>0. r \in 1 .. n /\ s \in 1 .. n
    BY <1>1, <1>2
  <2>2. CASE j \in DOMAIN files[s] /\ files'[s][j] = files[s][j]
    <3>1. i \in DOMAIN files[r] /\ files'[r][i] = files[r][i]
      <4>1. CASE r < s
        BY <1>8, <2>0, <4>1
      <4>2. CASE r = s /\ i < j
        <5>1. ~(r = n /\ i = m + 1)
          BY <1>5, <2>2, <4>2
        <5> QED BY <1>8, <2>0, <5>1
      <4> QED BY <4>1, <4>2
    <3> QED BY <1>1, <1>2, <1>12, <2>0, <2>2, <3>1 DEF RecordedInOrder
  <2>3. CASE s = n /\ j = m + 1 /\ files'[s][j] = id
    <3>1. i \in DOMAIN files[r] /\ files'[r][i] = files[r][i]
      <4>1. ~(r = n /\ i = m + 1)
        BY <2>3
      <4> QED BY <1>8, <2>0, <4>1
    <3> QED BY <2>0, <2>1, <2>3, <3>1
  <2> QED BY <1>8, <2>0, <2>2, <2>3
<1> QED BY <1>1, <1>2, <1>6, <1>10, <1>11, <1>12

(* A new, empty file. *)
LEMMA FileOpened ==
  ASSUME TypeOK, files' = Append(files, <<>>)
  PROVE  /\ Len(files) \in Nat /\ Len(files') = Len(files) + 1
         /\ \A r \in 1 .. Len(files) : files'[r] = files[r]
         /\ Written' = Written
         /\ RecordedInOrder => RecordedInOrder'
<1>1. /\ files \in Seq(Seq(1 .. MaxItems)) /\ Len(files) \in Nat /\ DOMAIN files = 1 .. Len(files)
      /\ <<>> \in Seq(1 .. MaxItems)
  BY EmptySeq, LenProperties DEF TypeOK, RecordOK
<1>2. /\ Len(files') = Len(files) + 1 /\ DOMAIN files' = 1 .. Len(files) + 1
      /\ files'[Len(files) + 1] = <<>> /\ \A r \in 1 .. Len(files) : files'[r] = files[r]
  BY <1>1, AppendProperties, LenProperties
<1>3. PICK n \in Nat : n = Len(files)
  BY <1>1
<1>4. \A r \in 1 .. n + 1 : r \in 1 .. n \/ r = n + 1
  OBVIOUS
<1>5. DOMAIN files'[n + 1] = {} /\ ToSet(files'[n + 1]) = {}
  BY <1>2, <1>3 DEF ToSet
<1>6. Written' = Written
  <2>1. \A x : (\E r \in 1 .. n + 1 : x \in ToSet(files'[r])) <=> (\E r \in 1 .. n : x \in ToSet(files[r]))
    BY <1>2, <1>3, <1>4, <1>5
  <2> QED BY <1>1, <1>2, <1>3, <2>1 DEF Written
<1>7. ASSUME RecordedInOrder PROVE RecordedInOrder'
  <2> SUFFICES ASSUME NEW r \in 1 .. n + 1, NEW s \in 1 .. n + 1,
                      NEW i \in DOMAIN files'[r], NEW j \in DOMAIN files'[s],
                      r < s \/ (r = s /\ i < j)
               PROVE  files'[r][i] < files'[s][j]
    BY <1>2, <1>3 DEF RecordedInOrder
  <2>1. r \in 1 .. n /\ s \in 1 .. n
    BY <1>4, <1>5
  <2> QED BY <1>1, <1>2, <1>3, <1>7, <2>1 DEF RecordedInOrder
<1> QED BY <1>1, <1>2, <1>6, <1>7

Starting == api \in {"newbuffer", "initbuffer", "newthread", "setflag"}

\* a recording has a file from its first step on, and the datagram it begins
\* with when it runs
SessionInv ==
  /\ Len(files) = IF Starting THEN Len(recordsFrom) + 1 ELSE Len(recordsFrom)
  /\ Starting => m_fpRecordFile
  /\ api \in {"joinrecord", "freebuffer"} => ~m_fpRecordFile
  /\ m_bStartRecord => /\ m_fpRecordFile /\ ~Starting
                       /\ api \notin {"closefile", "joinrecord", "freebuffer"}
  /\ api \in {"new", "open"} => workerPc = "none"

\* the steps that have no part in recording, and what they leave alone
Quiet ==
  \/ SourceCheck \/ SourceNoData \/ Media \/ Cleaned \/ UNCHANGED vars
  \/ WorkerCheckStop \/ ProcessUnsynced \/ ProcessProbe \/ ProcessPackets \/ ProcessInit
  \/ LiveCallBackProgramInfoBrief \/ ProcessBuffer
  \/ OpenFails \/ OpenSource \/ OpenWorker \/ StopSource \/ StopJoinSource \/ StopNullSource
  \/ StopWorkFlag \/ StopJoinWorker \/ StopJoinMedia \/ Destroy \/ StopRecordJoin

recordingVars == <<sent, ring, item, lost, m_pRecordBuffer, recordPc, recordItem, files, recordsFrom,
                   m_bStartRecord, m_fpRecordFile>>

Apart ==
  /\ UNCHANGED recordingVars /\ Starting' = Starting
  /\ UNCHANGED workerPc \/ (~Pending /\ ~Pending')

(* What has no part in recording leaves it where it is. *)
LEMMA QuietApart == SessionInv /\ Quiet => Apart /\ SessionInv'
<1> SUFFICES ASSUME SessionInv, Quiet PROVE Apart /\ SessionInv'
  OBVIOUS
<1> USE DEF Apart, Pending, Starting, recordingVars, SessionInv
<1>1. CASE SourceCheck \/ SourceNoData \/ Media
  BY <1>1 DEF SourceCheck, SourceNoData, Media, MediaInfoProbe, FfprobeProbe, inputVars, apiVars,
              recordVars
<1>2. CASE Cleaned \/ UNCHANGED vars
  BY <1>2 DEF Cleaned, vars, inputVars, apiVars, recordVars
<1>3. CASE \/ WorkerCheckStop \/ ProcessUnsynced \/ ProcessProbe \/ ProcessPackets \/ ProcessInit
           \/ LiveCallBackProgramInfoBrief \/ ProcessBuffer
  <2>1. /\ UNCHANGED <<apiVars, inputVars, recordVars, ring, item, lost>>
        /\ workerPc \notin {"none", "record", "recordbuf"} /\ workerPc' \notin {"record", "recordbuf"}
    BY <1>3 DEF WorkerCheckStop, ProcessUnsynced, ProcessProbe, ProcessPackets, ProcessInit,
                LiveCallBackProgramInfoBrief, ProcessBuffer
  <2> QED BY <2>1 DEF inputVars, apiVars, recordVars
<1>4. CASE OpenFails \/ OpenSource \/ OpenWorker
  <2>1. UNCHANGED <<inputVars, recordVars, ring, item, lost>>
    BY <1>4 DEF OpenFails, OpenSource, OpenWorker, otherThanApi
  <2>2. /\ api \in {"new", "open"} /\ api' \in {"open", "idle"}
        /\ workerPc' \in {workerPc, "check", "none"} /\ (api' = "open" => workerPc' = workerPc)
    BY <1>4 DEF OpenFails, OpenSource, OpenWorker
  <2> QED BY <2>1, <2>2 DEF inputVars, recordVars
<1>5. CASE \/ StopSource \/ StopJoinSource \/ StopNullSource \/ StopWorkFlag \/ StopJoinWorker
           \/ StopJoinMedia \/ Destroy
  <2>1. UNCHANGED <<inputVars, recordVars, ring, item, lost, workerPc>>
    BY <1>5 DEF StopSource, StopJoinSource, StopNullSource, StopWorkFlag, StopJoinWorker,
                StopJoinMedia, Destroy, stopOnly, otherThanApi
  <2>2. /\ api \in {"idle", "joinsource", "nullsource", "setstop", "joinworker", "joinmedia", "destroy"}
        /\ api' \in {"joinsource", "nullsource", "setstop", "joinworker", "joinmedia", "destroy",
                    "destroyed"}
    BY <1>5 DEF StopSource, StopJoinSource, StopNullSource, StopWorkFlag, StopJoinWorker,
                StopJoinMedia, Destroy
  <2> QED BY <2>1, <2>2 DEF inputVars, recordVars
<1>6. CASE StopRecordJoin
  BY <1>6 DEF StopRecordJoin, recordApi, otherThanApi, inputVars, recordVars
<1> QED BY <1>1, <1>2, <1>3, <1>4, <1>5, <1>6 DEF Quiet

(* The other steps: the way of a datagram from the source to the file, and the
   calls that begin and end a recording. *)
LEMMA NextSplit ==
  [Next]_vars => \/ Quiet \/ OnRecvData \/ WorkerReadItem \/ WorkerTestRecord \/ WorkerRecordItem
                 \/ Record \/ StartRecordOpen \/ StartRecordBuffer \/ StartRecordThread
                 \/ StartRecordFlag \/ StopRecordFlag \/ StopRecordClose \/ StopRecordFree
  BY DEF Next, NewCall, InCall, Source, Worker, Quiet

(* StartRecord and StopRecord open and close one file per recording. *)
LEMMA SessionKept == TypeOK /\ TypeOK' /\ TInv /\ SessionInv /\ [Next]_vars => SessionInv'
<1> SUFFICES ASSUME TypeOK, TypeOK', TInv, SessionInv, [Next]_vars PROVE SessionInv'
  OBVIOUS
<1> USE DEF SessionInv, Starting
<1>1. CASE Quiet
  BY <1>1, QuietApart
<1>2. CASE OnRecvData \/ WorkerReadItem \/ WorkerTestRecord \/ WorkerRecordItem
  BY <1>2 DEF OnRecvData, WorkerReadItem, WorkerTestRecord, WorkerRecordItem, apiVars, recordVars
<1>3. CASE Record
  <2>1. UNCHANGED <<api, recordsFrom, m_bStartRecord, m_fpRecordFile, workerPc>>
    BY <1>3 DEF Record, RecordCheckFp, RecordReadItem, RecordWriteFile, otherThanRecord, apiVars
  <2>2. Len(files') = Len(files)
    <3>1. CASE UNCHANGED files
      BY <3>1
    <3>2. CASE ~UNCHANGED files
      <4>1. /\ recordPc = "write" /\ m_fpRecordFile
            /\ files' = [files EXCEPT ![Len(files)] = Append(@, recordItem.id)]
        BY <1>3, <3>2 DEF Record, RecordCheckFp, RecordReadItem, RecordWriteFile
      <4>2. files # <<>> /\ recordItem.id \in 1 .. MaxItems
        BY <4>1 DEF TInv, ItemInv, Datagrams
      <4> QED BY <4>1, <4>2, FileWritten
    <3> QED BY <3>1, <3>2
  <2> QED BY <2>1, <2>2
<1>4. CASE StartRecordOpen
  <2>1. /\ api = "idle" /\ api' = "newbuffer" /\ ~m_fpRecordFile /\ m_fpRecordFile'
        /\ files' = Append(files, <<>>) /\ UNCHANGED <<recordsFrom, m_bStartRecord>>
    BY <1>4 DEF StartRecordOpen
  <2>2. Len(files') = Len(files) + 1
    BY <2>1, FileOpened
  <2> QED BY <2>1, <2>2
<1>5. CASE StartRecordFlag
  <2>1. /\ api = "setflag" /\ api' = "idle" /\ recordsFrom' = Append(recordsFrom, item.id)
        /\ UNCHANGED <<files, m_fpRecordFile, workerPc>>
    BY <1>5 DEF StartRecordFlag, recordApi
  <2>2. Len(recordsFrom') = Len(recordsFrom) + 1
    BY <2>1, AppendProperties DEF TypeOK, RecordOK
  <2> QED BY <1>5, <2>1, <2>2
<1>6. CASE \/ StartRecordBuffer \/ StartRecordThread \/ StopRecordFlag \/ StopRecordClose
           \/ StopRecordFree
  BY <1>6 DEF StartRecordBuffer, StartRecordNew, StartRecordInit, StartRecordThread,
              StopRecordFlag, StopRecordClose, StopRecordFree,
              recordApi, ReturnFromStopRecord
<1> QED BY <1>1, <1>2, <1>3, <1>4, <1>5, <1>6, NextSplit

(* The numbers of datagrams. *)
LEMMA IdsTyped ==
  TypeOK => /\ sent \in Nat /\ item.id \in Nat /\ recordItem.id \in Nat
            /\ Written \subseteq Nat /\ Taken \subseteq Nat
            /\ Buffered \subseteq Nat /\ Waiting \subseteq Nat
<1> SUFFICES ASSUME TypeOK PROVE /\ sent \in Nat /\ item.id \in Nat /\ recordItem.id \in Nat
                                 /\ Written \subseteq Nat /\ Taken \subseteq Nat
                                 /\ Buffered \subseteq Nat /\ Waiting \subseteq Nat
  OBVIOUS
<1>1. item.id \in Nat /\ recordItem.id \in Nat /\ sent \in Nat
  BY DEF TypeOK, ReceivedOK, RecordOK, Items, Datagrams, NoItem
<1>2. ASSUME NEW s \in Seq(Datagrams) PROVE Ids(s) \subseteq Nat
  <2> SUFFICES ASSUME NEW i \in DOMAIN s PROVE s[i].id \in Nat
    BY DEF Ids
  <2>1. s[i] \in Datagrams
    BY LenProperties, ElementOfSeq
  <2> QED BY <2>1 DEF Datagrams
<1>3. ring \in Seq(Datagrams) /\ m_pRecordBuffer.items \in Seq(Datagrams)
  BY DEF TypeOK, ReceivedOK, RecordOK
<1> QED BY <1>1, <1>2, <1>3 DEF Written, Taken, Buffered, Waiting

(* Each datagram goes from one place to the next, behind those already there. *)
LEMMA PlacesKept == TInv /\ TInv' /\ SessionInv /\ PlacesInv /\ [Next]_vars => PlacesInv'
<1> SUFFICES ASSUME TInv, TInv', SessionInv, PlacesInv, [Next]_vars PROVE PlacesInv'
  OBVIOUS
<1>t. /\ TypeOK /\ TypeOK' /\ ring \in Seq(Datagrams) /\ m_pRecordBuffer.items \in Seq(Datagrams)
      /\ sent \in Nat /\ item.id \in Nat /\ recordItem.id \in Nat
      /\ Written \subseteq Nat /\ Taken \subseteq Nat /\ Buffered \subseteq Nat /\ Waiting \subseteq Nat
  BY IdsTyped DEF TInv, TypeOK, ReceivedOK, RecordOK
<1> USE DEF PlacesInv
<1>1. CASE Quiet
  <2>1. /\ UNCHANGED <<sent, ring, item, m_pRecordBuffer, recordPc, recordItem, files>>
        /\ UNCHANGED workerPc \/ (~Pending /\ ~Pending')
    BY <1>1, QuietApart DEF Apart, recordingVars
  <2>2. UNCHANGED <<Waiting, Buffered, Taken, Written, Pending>>
    BY <2>1 DEF Waiting, Buffered, Taken, Written, Pending
  <2> QED BY <2>1, <2>2 DEF WaitingInv, RecordedInv, RisingIds, RecordedInOrder
<1>2. CASE OnRecvData
  <2>1. /\ UNCHANGED <<item, workerPc, m_pRecordBuffer, recordPc, recordItem, files>>
        /\ sent' = sent + 1
        /\ \/ ring' = ring
           \/ ring' = Append(ring, [id |-> sent + 1, time |-> now'])
    BY <1>2 DEF OnRecvData, recordVars
  <2>2. RecordedInv'
    <3>1. UNCHANGED <<Buffered, Taken, Written, Pending>>
      BY <2>1 DEF Buffered, Taken, Written, Pending
    <3>2. (RisingIds(m_pRecordBuffer.items))' /\ RecordedInOrder'
      BY <2>1 DEF RecordedInv, RisingIds, RecordedInOrder
    <3> QED BY <2>1, <3>1, <3>2 DEF RecordedInv
  <2>3. WaitingInv'
    <3>1. CASE ring' = ring
      BY <1>t, <2>1, <3>1 DEF WaitingInv, Waiting, RisingIds
    <3>2. CASE ring' = Append(ring, [id |-> sent + 1, time |-> now'])
      <4> DEFINE d == [id |-> sent + 1, time |-> now']
      <4>1. d \in Datagrams /\ d.id = sent + 1
        <5>1. now' \in 1 .. MaxTime /\ sent + 1 \in 1 .. MaxItems
          BY <1>t, <2>1 DEF TypeOK, ReceivedOK
        <5> QED BY <5>1 DEF Datagrams
      <4> HIDE DEF d
      <4>2. \A x \in Waiting : x < d.id
        BY <1>t, <4>1 DEF WaitingInv
      <4>3. ring' = Append(ring, d)
        BY <3>2 DEF d
      <4>4. Waiting' = Waiting \cup {d.id} /\ RisingIds(ring')
        BY <1>t, <4>1, <4>2, <4>3, IdsAppended DEF Waiting, WaitingInv
      <4> QED BY <1>t, <2>1, <4>1, <4>2, <4>4 DEF WaitingInv
    <3> QED BY <2>1, <3>1, <3>2
  <2> QED BY <2>2, <2>3
<1>3. CASE WorkerReadItem
  <2>1. UNCHANGED <<sent, m_pRecordBuffer, recordPc, recordItem, files>> /\ ~Pending
    BY <1>3 DEF WorkerReadItem, recordVars, inputVars, Pending
  <2>2. UNCHANGED <<Buffered, Taken, Written>>
    BY <2>1 DEF Buffered, Taken, Written
  <2>3. CASE ring = <<>>
    <3>1. UNCHANGED <<ring, item>> /\ ~Pending'
      BY <1>3, <2>3 DEF WorkerReadItem, Pending
    <3> QED BY <2>1, <2>2, <3>1 DEF WaitingInv, RecordedInv, Waiting, RisingIds, RecordedInOrder
  <2>4. CASE ring # <<>>
    <3>1. item' = Head(ring) /\ ring' = Tail(ring) /\ Pending'
      BY <1>3, <2>4 DEF WorkerReadItem, Pending
    <3>2. /\ Waiting = {item'.id} \cup Waiting'
          /\ RisingIds(ring') /\ \A x \in Waiting' : item'.id < x
      BY <1>t, <2>4, <3>1, IdsTaken DEF Waiting, WaitingInv
    <3>3. WaitingInv' /\ item.id < item'.id /\ item'.id \in Nat
      BY <1>t, <2>1, <3>2 DEF WaitingInv
    <3>4. \A x \in Written \cup Taken \cup Buffered : x < item'.id
      BY <1>t, <2>1, <3>3 DEF RecordedInv
    <3> QED BY <2>1, <2>2, <3>1, <3>3, <3>4 DEF RecordedInv, RisingIds, RecordedInOrder
  <2> QED BY <2>3, <2>4
<1>4. CASE WorkerTestRecord
  <2>1. UNCHANGED <<sent, ring, item, m_pRecordBuffer, recordPc, recordItem, files>> /\ Pending
    BY <1>4 DEF WorkerTestRecord, recordVars, inputVars, Pending
  <2>2. UNCHANGED <<Waiting, Buffered, Taken, Written>>
    BY <2>1 DEF Waiting, Buffered, Taken, Written
  <2>3. \A x \in Written \cup Taken \cup Buffered : x < item.id /\ x <= item.id
    BY <1>t, <2>1 DEF RecordedInv
  <2> QED BY <2>1, <2>2, <2>3 DEF WaitingInv, RecordedInv, RisingIds, RecordedInOrder
<1>5. CASE WorkerRecordItem
  <2>1. UNCHANGED <<sent, ring, item, recordPc, recordItem, files>> /\ Pending /\ ~Pending'
    BY <1>5 DEF WorkerRecordItem, inputVars, Pending
  <2>2. UNCHANGED <<Waiting, Taken, Written>>
    BY <2>1 DEF Waiting, Taken, Written
  <2>3. \A x \in Written \cup Taken \cup Buffered : x < item.id /\ x <= item.id
    BY <1>t, <2>1 DEF RecordedInv
  <2>4. Buffered' \subseteq Buffered \cup {item.id} /\ RisingIds(m_pRecordBuffer'.items)
    <3>1. CASE UNCHANGED m_pRecordBuffer
      BY <3>1 DEF RecordedInv, Buffered
    <3>2. CASE ~UNCHANGED m_pRecordBuffer
      <4>1. /\ m_pRecordBuffer' = [m_pRecordBuffer EXCEPT !.items = Append(@, item)]
            /\ workerPc = "recordbuf"
        BY <1>5, <3>2 DEF WorkerRecordItem
      <4>2. m_pRecordBuffer'.items = Append(m_pRecordBuffer.items, item) /\ item \in Datagrams
        BY <1>t, <4>1 DEF TypeOK, RecordOK, TInv, ItemInv, HasItem
      <4> QED BY <1>t, <2>3, <4>2, IdsAppended DEF Buffered, RecordedInv
    <3> QED BY <3>1, <3>2
  <2>5. RecordedInv'
    <3>1. \A x \in Written, y \in Taken \cup Buffered' : x < y
      BY <2>3, <2>4 DEF RecordedInv
    <3>2. \A x \in Taken, y \in Buffered' : x < y
      BY <2>3, <2>4 DEF RecordedInv
    <3>3. \A x \in Written \cup Taken \cup Buffered' : x <= item.id
      BY <1>t, <2>3, <2>4
    <3> QED BY <2>1, <2>2, <2>4, <3>1, <3>2, <3>3 DEF RecordedInv, RecordedInOrder
  <2> QED BY <2>1, <2>2, <2>5 DEF WaitingInv, RisingIds
<1>6. CASE Record
  <2>1. UNCHANGED <<sent, ring, item, workerPc>> /\ UNCHANGED <<Waiting, Pending>>
    BY <1>6 DEF Record, RecordCheckFp, RecordReadItem, RecordWriteFile, otherThanRecord, inputVars,
                Waiting, Pending
  <2>2. WaitingInv'
    BY <2>1 DEF WaitingInv, RisingIds
  <2>3. CASE RecordCheckFp
    <3>1. UNCHANGED <<m_pRecordBuffer, files>> /\ Taken = {} /\ Taken' = {}
      BY <2>3 DEF RecordCheckFp, Taken
    <3> QED BY <2>1, <2>2, <3>1 DEF RecordedInv, Buffered, Written, RisingIds, RecordedInOrder
  <2>4. CASE RecordReadItem
    <3>1. UNCHANGED files /\ recordPc = "read" /\ Taken = {} /\ UNCHANGED Written
      BY <2>4 DEF RecordReadItem, Taken, Written
    <3>2. CASE m_pRecordBuffer.items = <<>>
      <4>1. UNCHANGED m_pRecordBuffer /\ Taken' = {}
        BY <2>4, <3>2 DEF RecordReadItem, Taken
      <4> QED BY <2>1, <2>2, <3>1, <4>1 DEF RecordedInv, Buffered, RisingIds, RecordedInOrder
    <3>3. CASE m_pRecordBuffer.items # <<>>
      <4>1. /\ m_pRecordBuffer' = [m_pRecordBuffer EXCEPT !.items = Tail(@)]
            /\ recordPc' = "write" /\ recordItem' = Head(m_pRecordBuffer.items)
        BY <2>4, <3>3 DEF RecordReadItem
      <4>2. m_pRecordBuffer'.items = Tail(m_pRecordBuffer.items)
        BY <1>t, <4>1 DEF TypeOK, RecordOK
      <4>3. Taken' = {Head(m_pRecordBuffer.items).id}
        BY <4>1 DEF Taken
      <4>4. /\ Buffered = Taken' \cup Buffered' /\ RisingIds(m_pRecordBuffer'.items)
            /\ \A x \in Taken', y \in Buffered' : x < y
        BY <1>t, <3>3, <4>2, <4>3, IdsTaken DEF Buffered, RecordedInv
      <4>5. /\ \A x \in Written, y \in Taken' \cup Buffered' : x < y
            /\ \A x \in Written \cup Taken' \cup Buffered' : IF Pending THEN x < item.id ELSE x <= item.id
        BY <3>1, <4>4 DEF RecordedInv
      <4> QED BY <2>1, <2>2, <3>1, <4>4, <4>5 DEF RecordedInv, RecordedInOrder
    <3> QED BY <3>2, <3>3
  <2>5. CASE RecordWriteFile
    <3>1. UNCHANGED m_pRecordBuffer /\ Taken = {recordItem.id} /\ Taken' = {} /\ UNCHANGED Buffered
      BY <2>5 DEF RecordWriteFile, Taken, Buffered
    <3>2. CASE m_fpRecordFile
      <4>1. /\ files' = [files EXCEPT ![Len(files)] = Append(@, recordItem.id)]
            /\ files # <<>> /\ recordItem.id \in 1 .. MaxItems
        BY <2>5, <3>2 DEF RecordWriteFile, TInv, ItemInv, Datagrams
      <4>2. Written' = Written \cup {recordItem.id} /\ RecordedInOrder'
        BY <1>t, <3>1, <4>1, FileWritten DEF RecordedInv
      <4>3. /\ \A x \in Written', y \in Taken' \cup Buffered' : x < y
            /\ \A x \in Written' \cup Taken' \cup Buffered' :
                 IF Pending THEN x < item.id ELSE x <= item.id
        BY <3>1, <4>2 DEF RecordedInv
      <4> QED BY <2>1, <2>2, <3>1, <4>2, <4>3 DEF RecordedInv, RisingIds
    <3>3. CASE ~m_fpRecordFile
      <4>1. UNCHANGED files /\ UNCHANGED Written
        BY <2>5, <3>3 DEF RecordWriteFile, Written
      <4> QED BY <2>1, <2>2, <3>1, <4>1 DEF RecordedInv, RisingIds, RecordedInOrder
    <3> QED BY <3>2, <3>3
  <2> QED BY <1>6, <2>3, <2>4, <2>5 DEF Record
<1>7. CASE StartRecordOpen
  <2>1. /\ UNCHANGED <<sent, ring, item, workerPc, m_pRecordBuffer, recordPc, recordItem>>
        /\ files' = Append(files, <<>>)
    BY <1>7 DEF StartRecordOpen, recordApi, otherThanApi, inputVars
  <2>2. UNCHANGED <<Waiting, Buffered, Taken, Pending>>
    BY <2>1 DEF Waiting, Buffered, Taken, Pending
  <2>3. Written' = Written /\ RecordedInOrder'
    BY <1>t, <2>1, FileOpened DEF RecordedInv
  <2> QED BY <2>1, <2>2, <2>3 DEF WaitingInv, RecordedInv, RisingIds
<1>8. CASE StartRecordBuffer \/ StopRecordFree
  <2>1. /\ UNCHANGED <<sent, ring, item, workerPc, recordPc, recordItem, files>>
        /\ m_pRecordBuffer'.items = <<>>
    BY <1>8 DEF StartRecordBuffer, StartRecordNew, StartRecordInit, StopRecordFree, recordApi,
                otherThanApi, inputVars
  <2>2. UNCHANGED <<Waiting, Taken, Written, Pending>> /\ Buffered' = {}
    BY <2>1 DEF Waiting, Buffered, Taken, Written, Pending, Ids
  <2>3. RisingIds(m_pRecordBuffer'.items)
    BY <2>1 DEF RisingIds
  <2> QED BY <2>1, <2>2, <2>3 DEF WaitingInv, RecordedInv, RisingIds, RecordedInOrder
<1>9. CASE StartRecordThread
  <2>1. /\ UNCHANGED <<sent, ring, item, workerPc, m_pRecordBuffer, files>>
        /\ Taken' = {}
    BY <1>9 DEF StartRecordThread, recordApi, otherThanApi, inputVars, Taken
  <2>2. UNCHANGED <<Waiting, Buffered, Written, Pending>>
    BY <2>1 DEF Waiting, Buffered, Written, Pending
  <2> QED BY <2>1, <2>2 DEF WaitingInv, RecordedInv, RisingIds, RecordedInOrder
<1>10. CASE StartRecordFlag \/ StopRecordFlag \/ StopRecordClose
  <2>1. UNCHANGED <<sent, ring, item, workerPc, m_pRecordBuffer, recordPc, recordItem, files>>
    BY <1>10 DEF StartRecordFlag, StopRecordFlag, StopRecordClose, recordApi, otherThanApi, inputVars
  <2>2. UNCHANGED <<Waiting, Buffered, Taken, Written, Pending>>
    BY <2>1 DEF Waiting, Buffered, Taken, Written, Pending
  <2> QED BY <2>1, <2>2 DEF WaitingInv, RecordedInv, RisingIds, RecordedInOrder
<1> QED BY <1>1, <1>2, <1>3, <1>4, <1>5, <1>6, <1>7, <1>8, <1>9, <1>10, NextSplit

-----------------------------------------------------------------------------
(* Recordings without gaps *)

\* the live ring holds what was received after the worker's item
ReceivedInv == item.id + 1 .. sent \subseteq Waiting \cup lost

\* what the recording that goes on has, in the file or on its way there
OnItsWay == Taken \cup Buffered \cup (IF workerPc = "recordbuf" THEN {item.id} ELSE {})
Recorded == ToSet(files[Len(files)]) \cup OnItsWay
From == recordsFrom[Len(files)]

NoGap(r) ==
  files[r] # <<>> => recordsFrom[r] + 1 .. Last(files[r]) \subseteq ToSet(files[r]) \cup lost

\* while the flag is set every datagram the worker took, but for the one it has
\* just taken, is recorded or lost; while the file is open what is recorded has
\* no gap; and so has every file that is closed
GapInv ==
  /\ m_bStartRecord =>
       \A x \in From + 1 .. item.id : \/ x \in Recorded \cup lost
                                      \/ workerPc = "record" /\ x = item.id
  /\ m_fpRecordFile /\ ~Starting => \A y \in Recorded : From + 1 .. y \subseteq Recorded \cup lost
  /\ \A r \in DOMAIN recordsFrom : ~m_fpRecordFile \/ r < Len(files) => NoGap(r)

(* The ring drops only what it reports lost. *)
LEMMA ReceivedKept == TInv /\ TInv' /\ SessionInv /\ PlacesInv /\ ReceivedInv /\ [Next]_vars => ReceivedInv'
<1> SUFFICES ASSUME TInv, TInv', SessionInv, PlacesInv, ReceivedInv, [Next]_vars PROVE ReceivedInv'
  OBVIOUS
<1>t. /\ TypeOK /\ TypeOK' /\ ring \in Seq(Datagrams)
      /\ sent \in Nat /\ item.id \in Nat /\ Waiting \subseteq Nat
  BY IdsTyped DEF TInv, TypeOK, ReceivedOK
<1> USE DEF ReceivedInv
<1>1. CASE UNCHANGED <<sent, ring, item>> /\ lost \subseteq lost'
  BY <1>1 DEF Waiting
<1>2. CASE Quiet
  BY <1>1, <1>2, QuietApart DEF Apart, recordingVars
<1>3. CASE OnRecvData
  <2>1. UNCHANGED item /\ sent' = sent + 1
    BY <1>3 DEF OnRecvData
  <2>2. item.id + 1 .. sent' \subseteq (item.id + 1 .. sent) \cup {sent + 1}
    BY <1>t, <2>1
  <2>3. CASE RingFull
    <3>1. ring' = ring /\ lost' = lost \cup {sent + 1}
      BY <1>3, <2>3 DEF OnRecvData
    <3> QED BY <2>1, <2>2, <3>1 DEF Waiting
  <2>4. CASE ~RingFull
    <3> DEFINE d == [id |-> sent + 1, time |-> now']
    <3>1. ring' = Append(ring, d) /\ lost' = lost
      BY <1>3, <2>4 DEF OnRecvData
    <3>2. d \in Datagrams /\ d.id = sent + 1
      <4>1. now' \in 1 .. MaxTime /\ sent + 1 \in 1 .. MaxItems
        BY <1>t, <2>1 DEF TypeOK, ReceivedOK
      <4> QED BY <4>1 DEF Datagrams
    <3> HIDE DEF d
    <3>3. Waiting' = Waiting \cup {sent + 1}
      BY <1>t, <3>1, <3>2, IdsAppended DEF Waiting
    <3> QED BY <2>1, <2>2, <3>1, <3>3
  <2> QED BY <2>3, <2>4
<1>4. CASE WorkerReadItem
  <2>1. UNCHANGED <<sent, lost>>
    BY <1>4 DEF WorkerReadItem, inputVars
  <2>2. CASE ring = <<>>
    BY <1>1, <1>4, <2>1, <2>2 DEF WorkerReadItem
  <2>3. CASE ring # <<>>
    <3>1. item' = Head(ring) /\ ring' = Tail(ring)
      BY <1>4, <2>3 DEF WorkerReadItem
    <3>2. Waiting = {item'.id} \cup Waiting'
      BY <1>t, <2>3, <3>1, IdsTaken DEF Waiting
    <3>3. item'.id \in Nat /\ item.id < item'.id
      BY <1>t, <3>2 DEF PlacesInv, WaitingInv
    <3> QED BY <1>t, <2>1, <3>2, <3>3
  <2> QED BY <2>2, <2>3
<1>5. CASE WorkerTestRecord \/ WorkerRecordItem
  BY <1>1, <1>5 DEF WorkerTestRecord, WorkerRecordItem, inputVars
<1>6. CASE Record
  BY <1>1, <1>6 DEF Record, RecordCheckFp, RecordReadItem, RecordWriteFile, otherThanRecord, inputVars
<1>7. CASE \/ StartRecordOpen \/ StartRecordBuffer \/ StartRecordThread \/ StartRecordFlag
           \/ StopRecordFlag \/ StopRecordClose \/ StopRecordFree
  BY <1>1, <1>7 DEF StartRecordOpen, StartRecordBuffer, StartRecordNew, StartRecordInit,
                    StartRecordThread, StartRecordFlag,
                    StopRecordFlag, StopRecordClose, StopRecordFree, recordApi, otherThanApi, inputVars
<1> QED BY <1>2, <1>3, <1>4, <1>5, <1>6, <1>7, NextSplit

(* What no step that leaves files, the beginnings of recordings and the flag
   alone can break, if it only moves what is recorded. *)
LEMMA GapStays ==
  ASSUME GapInv, UNCHANGED <<files, recordsFrom, m_fpRecordFile, item>>,
         Starting' = Starting, lost \subseteq lost', m_bStartRecord' => m_bStartRecord,
         m_fpRecordFile /\ ~Starting =>
           /\ Recorded' \subseteq Recorded /\ Recorded \cup lost \subseteq Recorded' \cup lost'
           /\ m_bStartRecord' /\ workerPc = "record" => workerPc' = "record"
  PROVE  SessionInv => GapInv'
<1> SUFFICES ASSUME SessionInv PROVE GapInv'
  OBVIOUS
<1>1. From' = From /\ \A r \in DOMAIN recordsFrom : NoGap(r) => NoGap(r)'
  BY DEF From, NoGap
<1>2. m_bStartRecord => m_fpRecordFile /\ ~Starting
  BY DEF SessionInv
<1>3. m_bStartRecord' =>
        \A x \in From' + 1 .. item'.id : \/ x \in Recorded' \cup lost'
                                         \/ workerPc' = "record" /\ x = item'.id
  BY <1>1, <1>2 DEF GapInv
<1>4. m_fpRecordFile' /\ ~Starting' => \A y \in Recorded' : From' + 1 .. y \subseteq Recorded' \cup lost'
  BY <1>1 DEF GapInv
<1>5. \A r \in DOMAIN recordsFrom' : ~m_fpRecordFile' \/ r < Len(files') => NoGap(r)'
  BY <1>1 DEF GapInv
<1> QED BY <1>3, <1>4, <1>5, Zenon DEF GapInv

(* The files of the recordings, and which of them is open. *)
LEMMA FilesTyped ==
  TypeOK /\ SessionInv =>
    /\ Len(files) \in Nat /\ DOMAIN files = 1 .. Len(files)
    /\ DOMAIN recordsFrom = IF Starting THEN 1 .. Len(files) - 1 ELSE 1 .. Len(files)
    /\ \A r \in 1 .. Len(files) : files[r] \in Seq(1 .. MaxItems) /\ ToSet(files[r]) \subseteq Written
    /\ \A r \in DOMAIN recordsFrom : recordsFrom[r] \in Nat
<1> SUFFICES ASSUME TypeOK, SessionInv
             PROVE  /\ Len(files) \in Nat /\ DOMAIN files = 1 .. Len(files)
                    /\ DOMAIN recordsFrom = IF Starting THEN 1 .. Len(files) - 1 ELSE 1 .. Len(files)
                    /\ \A r \in 1 .. Len(files) : /\ files[r] \in Seq(1 .. MaxItems)
                                                  /\ ToSet(files[r]) \subseteq Written
                    /\ \A r \in DOMAIN recordsFrom : recordsFrom[r] \in Nat
  OBVIOUS
<1>1. /\ Len(files) \in Nat /\ DOMAIN files = 1 .. Len(files)
      /\ Len(recordsFrom) \in Nat /\ DOMAIN recordsFrom = 1 .. Len(recordsFrom)
      /\ \A r \in 1 .. Len(files) : files[r] \in Seq(1 .. MaxItems)
      /\ \A r \in 1 .. Len(recordsFrom) : recordsFrom[r] \in 0 .. MaxItems
  BY LenProperties, ElementOfSeq DEF TypeOK, RecordOK
<1>2. DOMAIN recordsFrom = IF Starting THEN 1 .. Len(files) - 1 ELSE 1 .. Len(files)
  <2>1. Starting => Len(recordsFrom) = Len(files) - 1
    BY <1>1 DEF SessionInv
  <2> QED BY <1>1, <2>1 DEF SessionInv
<1>3. ASSUME NEW r \in 1 .. Len(files) PROVE ToSet(files[r]) \subseteq Written
  <2> SUFFICES ASSUME NEW i \in DOMAIN files[r] PROVE files[r][i] \in Written
    BY DEF ToSet
  <2>1. files[r][i] \in 1 .. MaxItems
    BY <1>1, LenProperties, ElementOfSeq
  <2>2. files[r][i] \in ToSet(files[r])
    BY DEF ToSet
  <2> QED BY <1>1, <2>1, <2>2 DEF Written
<1> QED BY <1>1, <1>2, <1>3

(* The open file has no gap: what is on its way comes after what is written. *)
LEMMA OpenFileWhole ==
  ASSUME TInv, SessionInv, PlacesInv, GapInv, m_fpRecordFile, ~Starting
  PROVE  NoGap(Len(files))
<1> DEFINE f == files[Len(files)]
<1> SUFFICES ASSUME f # <<>> PROVE From + 1 .. Last(f) \subseteq ToSet(f) \cup lost
  BY DEF NoGap, From
<1>1. TypeOK /\ Len(files) \in 1 .. Len(files) /\ f \in Seq(1 .. MaxItems) /\ ToSet(f) \subseteq Written
  <2>1. files # <<>> /\ TypeOK
    BY DEF TInv, ItemInv
  <2>2. Len(files) # 0
    BY <2>1, EmptySeq DEF TypeOK, RecordOK
  <2> QED BY <2>1, <2>2, FilesTyped
<1>2. PICK y : y = Last(f) /\ y \in ToSet(f) /\ y \in Nat
  <2>1. Len(f) \in DOMAIN f
    BY <1>1, EmptySeq, LenProperties
  <2>2. Last(f) \in ToSet(f)
    BY <2>1 DEF Last, ToSet
  <2> QED BY <1>1, <2>2, IdsTyped
<1>3. From + 1 .. y \subseteq Recorded \cup lost
  BY <1>2 DEF GapInv, Recorded
<1>4. ASSUME NEW x \in OnItsWay PROVE y < x
  <2>1. y \in Written
    BY <1>1, <1>2
  <2>2. CASE x \in Taken \cup Buffered
    BY <2>1, <2>2 DEF PlacesInv, RecordedInv
  <2>3. CASE workerPc = "recordbuf" /\ x = item.id
    BY <2>1, <2>3 DEF PlacesInv, RecordedInv, Pending
  <2> QED BY <2>2, <2>3 DEF OnItsWay
<1>5. ASSUME NEW x \in From + 1 .. y PROVE x \in ToSet(f) \cup lost
  <2>1. x \in Recorded \cup lost /\ ~(y < x)
    BY <1>2, <1>3
  <2> QED BY <1>4, <2>1 DEF Recorded
<1> QED BY <1>2, <1>5

(* The worker's steps: what it takes while the flag is set is on its way or
   lost; what was received before it and is not there the ring refused. *)
LEMMA WorkerGap ==
  ASSUME TInv, TInv', SessionInv, PlacesInv, ReceivedInv, GapInv,
         WorkerReadItem \/ WorkerTestRecord \/ WorkerRecordItem
  PROVE  GapInv'
<1>t. /\ TypeOK /\ TypeOK' /\ ring \in Seq(Datagrams) /\ m_pRecordBuffer.items \in Seq(Datagrams)
      /\ sent \in Nat /\ item.id \in Nat /\ item'.id \in Nat /\ Waiting \subseteq Nat
  <2>1. TypeOK /\ TypeOK'
    BY DEF TInv
  <2>2. item'.id \in Nat
    BY <2>1 DEF TypeOK, ReceivedOK, Items, Datagrams, NoItem
  <2> QED BY <2>1, <2>2, IdsTyped DEF TypeOK, ReceivedOK, RecordOK
<1>f. /\ UNCHANGED <<m_bStartRecord, m_fpRecordFile, recordPc, recordItem, files, recordsFrom>>
      /\ Starting' = Starting /\ UNCHANGED Taken /\ lost \subseteq lost'
  BY DEF WorkerReadItem, WorkerTestRecord, WorkerRecordItem, recordVars, apiVars, Starting, Taken
<1>s. m_bStartRecord => m_fpRecordFile /\ ~Starting
  BY DEF SessionInv
<1>1. CASE WorkerReadItem
  <2>1. UNCHANGED <<m_pRecordBuffer, lost>> /\ workerPc = "read" /\ workerPc' \in {"check", "record"}
    BY <1>1 DEF WorkerReadItem, recordVars
  <2>2. Recorded' = Recorded
    BY <1>f, <2>1 DEF Recorded, OnItsWay, Buffered
  <2>3. CASE ring = <<>>
    <3>1. UNCHANGED item
      BY <1>1, <2>3 DEF WorkerReadItem
    <3> QED BY <1>f, <2>1, <2>2, <3>1, GapStays
  <2>4. CASE ring # <<>>
    <3>1. item' = Head(ring) /\ ring' = Tail(ring) /\ workerPc' = "record"
      BY <1>1, <2>4 DEF WorkerReadItem
    <3>2. /\ Waiting = {item'.id} \cup Ids(ring')
          /\ \A x \in Ids(ring') : item'.id < x /\ x \in Nat
      BY <1>t, <2>4, <3>1, IdsTaken DEF Waiting, PlacesInv, WaitingInv
    <3>3. item.id < item'.id /\ item'.id <= sent
      BY <3>2 DEF PlacesInv, WaitingInv
    <3>4. From' = From /\ \A r \in DOMAIN recordsFrom : NoGap(r)' = NoGap(r)
      BY <1>f, <2>1 DEF From, NoGap
    <3>5. ASSUME m_bStartRecord, NEW x \in From + 1 .. item'.id, x # item'.id
          PROVE  x \in Recorded \cup lost
      <4>1. CASE x <= item.id
        <5>1. x \in From + 1 .. item.id
          BY <1>t, <4>1
        <5> QED BY <2>1, <3>5, <5>1 DEF GapInv
      <4>2. CASE ~(x <= item.id)
        <5>1. x \in item.id + 1 .. sent /\ ~(item'.id < x)
          BY <1>t, <3>3, <3>5, <4>2
        <5>2. x \in Waiting \cup lost
          BY <5>1 DEF ReceivedInv
        <5> QED BY <3>2, <3>5, <5>1, <5>2
      <4> QED BY <4>1, <4>2
    <3> HIDE DEF NoGap, From
    <3> QED BY <1>f, <2>1, <2>2, <3>1, <3>4, <3>5 DEF GapInv
  <2> QED BY <2>3, <2>4
<1>2. CASE WorkerTestRecord
  <2>1. /\ UNCHANGED <<m_pRecordBuffer, lost, item>> /\ workerPc = "record"
        /\ workerPc' = IF m_bStartRecord THEN "recordbuf" ELSE "process"
    BY <1>2 DEF WorkerTestRecord, recordVars
  <2>2. UNCHANGED Buffered
    BY <2>1 DEF Buffered
  <2>3. CASE ~m_bStartRecord
    <3>1. Recorded' = Recorded
      BY <1>f, <2>1, <2>2, <2>3 DEF Recorded, OnItsWay
    <3> QED BY <1>f, <2>1, <2>3, <3>1, GapStays
  <2>4. CASE m_bStartRecord
    <3>1. Recorded' = Recorded \cup {item.id}
      BY <1>f, <2>1, <2>2, <2>4 DEF Recorded, OnItsWay
    <3>2. From + 1 .. item.id \subseteq Recorded' \cup lost
      BY <2>4, <3>1 DEF GapInv
    <3>3. \A y \in Recorded' : From + 1 .. y \subseteq Recorded' \cup lost
      BY <1>s, <2>4, <3>1, <3>2 DEF GapInv
    <3>4. From' = From /\ \A r \in DOMAIN recordsFrom : NoGap(r)' = NoGap(r)
      BY <1>f, <2>1 DEF From, NoGap
    <3> HIDE DEF NoGap, From, Recorded
    <3> QED BY <1>f, <2>1, <3>2, <3>3, <3>4 DEF GapInv
  <2> QED BY <2>3, <2>4
<1>3. CASE WorkerRecordItem
  <2>1. UNCHANGED item /\ workerPc = "recordbuf" /\ workerPc' = "process"
    BY <1>3 DEF WorkerRecordItem
  <2>2. CASE m_pRecordBuffer.ptr = "live" /\ Len(m_pRecordBuffer.items) < RecordCapacity
    <3>1. m_pRecordBuffer' = [m_pRecordBuffer EXCEPT !.items = Append(@, item)] /\ lost' = lost
      BY <1>3, <2>2 DEF WorkerRecordItem
    <3>2. m_pRecordBuffer'.items = Append(m_pRecordBuffer.items, item) /\ item \in Datagrams
      BY <1>t, <2>1, <3>1 DEF TypeOK, RecordOK, TInv, ItemInv, HasItem
    <3>3. Buffered' = Buffered \cup {item.id}
      BY <1>t, <3>2, IdsAppended DEF Buffered
    <3>4. Recorded' = Recorded
      BY <1>f, <2>1, <3>3 DEF Recorded, OnItsWay
    <3> QED BY <1>f, <2>1, <3>1, <3>4, GapStays
  <2>3. CASE ~(m_pRecordBuffer.ptr = "live" /\ Len(m_pRecordBuffer.items) < RecordCapacity)
    <3>1. UNCHANGED m_pRecordBuffer /\ lost' = lost \cup {item.id}
      BY <1>3, <2>3 DEF WorkerRecordItem
    <3>2. Recorded' \subseteq Recorded /\ Recorded \cup lost \subseteq Recorded' \cup lost'
      BY <1>f, <2>1, <3>1 DEF Recorded, OnItsWay, Buffered
    <3> QED BY <1>f, <2>1, <3>1, <3>2, GapStays
  <2> QED BY <2>2, <2>3
<1> QED BY <1>1, <1>2, <1>3

(* The record thread only moves what is recorded towards the open file, and
   writes no file that is closed. *)
LEMMA RecordGap ==
  ASSUME TInv, TInv', SessionInv, GapInv, Record
  PROVE  GapInv'
<1>t. TypeOK /\ TypeOK' /\ m_pRecordBuffer.items \in Seq(Datagrams)
  BY DEF TInv, TypeOK, RecordOK
<1>f. /\ UNCHANGED <<m_bStartRecord, m_fpRecordFile, recordsFrom, item, workerPc, lost>>
      /\ Starting' = Starting
  BY DEF Record, RecordCheckFp, RecordReadItem, RecordWriteFile, otherThanRecord, apiVars, Starting
<1>1. CASE RecordCheckFp
  <2>1. UNCHANGED <<files, m_pRecordBuffer>> /\ Taken = {} /\ Taken' = {}
    BY <1>1 DEF RecordCheckFp, Taken
  <2>2. Recorded' = Recorded
    BY <1>f, <2>1 DEF Recorded, OnItsWay, Buffered
  <2> QED BY <1>f, <2>1, <2>2, GapStays
<1>2. CASE RecordReadItem
  <2>1. UNCHANGED files /\ Taken = {}
    BY <1>2 DEF RecordReadItem, Taken
  <2>2. Taken' \cup Buffered' = Buffered
    <3>1. CASE m_pRecordBuffer.items = <<>>
      BY <1>2, <3>1 DEF RecordReadItem, Taken, Buffered
    <3>2. CASE m_pRecordBuffer.items # <<>>
      <4>1. /\ m_pRecordBuffer' = [m_pRecordBuffer EXCEPT !.items = Tail(@)]
            /\ recordPc' = "write" /\ recordItem' = Head(m_pRecordBuffer.items)
        BY <1>2, <3>2 DEF RecordReadItem
      <4>2. m_pRecordBuffer'.items = Tail(m_pRecordBuffer.items)
        BY <1>t, <4>1 DEF TypeOK, RecordOK
      <4>3. Taken' = {Head(m_pRecordBuffer.items).id}
        BY <4>1 DEF Taken
      <4> QED BY <1>t, <3>2, <4>2, <4>3, IdsTaken DEF Buffered
    <3> QED BY <3>1, <3>2
  <2>3. Recorded' = Recorded
    BY <1>f, <2>1, <2>2 DEF Recorded, OnItsWay
  <2> QED BY <1>f, <2>1, <2>3, GapStays
<1>3. CASE RecordWriteFile
  <2>1. UNCHANGED Buffered /\ Taken = {recordItem.id} /\ Taken' = {}
    BY <1>3 DEF RecordWriteFile, Taken, Buffered
  <2>2. CASE ~m_fpRecordFile
    <3>1. UNCHANGED files
      BY <1>3, <2>2 DEF RecordWriteFile
    <3> QED BY <1>f, <2>2, <3>1, GapStays
  <2>3. CASE m_fpRecordFile
    <3>1. /\ files' = [files EXCEPT ![Len(files)] = Append(@, recordItem.id)]
          /\ files # <<>> /\ recordItem.id \in 1 .. MaxItems
      BY <1>3, <2>3 DEF RecordWriteFile, TInv, ItemInv, Datagrams
    <3>2. PICK n \in Nat \ {0} : n = Len(files)
      BY <1>t, <3>1, FileWritten
    <3>3. /\ Len(files') = n /\ \A r \in 1 .. n - 1 : files'[r] = files[r]
          /\ ToSet(files'[n]) = ToSet(files[n]) \cup {recordItem.id}
      BY <1>t, <3>1, <3>2, FileWritten
    <3>4. Recorded' = Recorded /\ From' = From
      BY <1>f, <2>1, <3>2, <3>3 DEF Recorded, OnItsWay, From
    <3>5. \A r \in 1 .. n - 1 : NoGap(r)' = NoGap(r)
      BY <1>f, <3>3 DEF NoGap
    <3>6. ASSUME NEW r \in DOMAIN recordsFrom, r < n PROVE r \in 1 .. n - 1
      BY <1>t, <3>2, <3>6, FilesTyped
    <3> HIDE DEF NoGap, From, Recorded
    <3> QED BY <1>f, <2>3, <3>2, <3>3, <3>4, <3>5, <3>6 DEF GapInv
  <2> QED BY <2>2, <2>3
<1> QED BY <1>1, <1>2, <1>3 DEF Record

(* StartRecord begins a recording with nothing that is later than its flag, and
   StopRecord closes a file that has no gap. *)
LEMMA CallsGap ==
  ASSUME TInv, TInv', SessionInv, SessionInv', PlacesInv, GapInv,
         \/ StartRecordOpen \/ StartRecordBuffer \/ StartRecordThread \/ StartRecordFlag
         \/ StopRecordFlag \/ StopRecordClose \/ StopRecordFree
  PROVE  GapInv'
<1>t. /\ TypeOK /\ TypeOK' /\ item.id \in Nat
      /\ Written \subseteq Nat /\ Taken \subseteq Nat /\ Buffered \subseteq Nat
  BY IdsTyped DEF TInv
<1>f. UNCHANGED <<item, workerPc, lost>>
  BY DEF StartRecordOpen, StartRecordBuffer, StartRecordNew, StartRecordInit, StartRecordThread,
         StartRecordFlag, StopRecordFlag,
         StopRecordClose, StopRecordFree, recordApi, otherThanApi
<1>l. Len(files) \in Nat
  BY <1>t, FilesTyped
<1>n. PICK n \in Nat : n = Len(files)
  BY <1>l
<1>1. CASE StartRecordOpen
  <2>1. /\ UNCHANGED <<recordsFrom, m_bStartRecord>> /\ files' = Append(files, <<>>)
        /\ ~m_fpRecordFile /\ m_fpRecordFile' /\ Starting' /\ ~Starting
    BY <1>1 DEF StartRecordOpen, Starting
  <2>2. ~m_bStartRecord
    BY <2>1 DEF SessionInv
  <2>3. Len(files') = n + 1 /\ \A r \in 1 .. n : files'[r] = files[r]
    BY <1>t, <1>n, <2>1, FileOpened
  <2>4. DOMAIN recordsFrom = 1 .. n
    BY <1>t, <1>n, <2>1, FilesTyped
  <2>5. \A r \in DOMAIN recordsFrom : NoGap(r)' = NoGap(r)
    BY <1>f, <2>1, <2>3, <2>4 DEF NoGap
  <2> HIDE DEF NoGap
  <2> QED BY <2>1, <2>2, <2>5 DEF GapInv
<1>2. CASE StartRecordBuffer \/ StartRecordThread
  <2>1. /\ UNCHANGED <<recordsFrom, m_bStartRecord, files, m_fpRecordFile>>
        /\ Starting /\ Starting'
    BY <1>2 DEF StartRecordBuffer, StartRecordNew, StartRecordInit, StartRecordThread, Starting
  <2> QED BY <1>f, <2>1, GapStays
<1>3. CASE StartRecordFlag
  <2>1. /\ UNCHANGED <<files, m_fpRecordFile, m_pRecordBuffer, recordPc, recordItem>>
        /\ Starting /\ ~Starting' /\ m_bStartRecord'
        /\ recordsFrom' = Append(recordsFrom, item.id)
    BY <1>3 DEF StartRecordFlag, Starting, recordApi
  <2>2. m_fpRecordFile /\ DOMAIN recordsFrom = 1 .. n - 1 /\ n \in 1 .. n
    <3>1. m_fpRecordFile /\ files # <<>>
      BY <2>1 DEF SessionInv, TInv, ItemInv
    <3>2. n # 0
      BY <1>n, <1>t, <3>1, EmptySeq DEF TypeOK, RecordOK
    <3> QED BY <1>n, <1>t, <2>1, <3>1, <3>2, FilesTyped
  <2>3. /\ recordsFrom'[n] = item.id /\ DOMAIN recordsFrom' = 1 .. n
        /\ \A r \in 1 .. n - 1 : recordsFrom'[r] = recordsFrom[r]
    <3>1. recordsFrom \in Seq(0 .. MaxItems) /\ item.id \in 0 .. MaxItems
      <4>1. item.id <= MaxItems /\ item.id \in Nat
        BY <1>t, BoundsAssumption DEF TypeOK, ReceivedOK, Items, Datagrams, NoItem
      <4> QED BY <1>t, <4>1, BoundsAssumption DEF TypeOK, RecordOK
    <3>2. Len(recordsFrom) = n - 1
      <4>1. Len(recordsFrom) \in Nat /\ Len(recordsFrom) + 1 = n
        BY <1>n, <2>1, <3>1, LenProperties DEF SessionInv
      <4> QED BY <4>1
    <3> QED BY <1>n, <2>1, <3>1, <3>2, AppendProperties, LenProperties
  <2>4. Recorded' = Recorded
    BY <1>f, <2>1 DEF Recorded, OnItsWay, Taken, Buffered
  <2>5. \A y \in Recorded : y \in Nat /\ y <= item.id
    <3>1. ToSet(files[n]) \subseteq Written
      BY <1>n, <1>t, <2>2, FilesTyped
    <3>2. Recorded \subseteq Written \cup Taken \cup Buffered \cup {item.id}
      BY <1>n, <3>1 DEF Recorded, OnItsWay
    <3>3. \A y \in Written \cup Taken \cup Buffered : y \in Nat /\ y <= item.id
      BY <1>t DEF PlacesInv, RecordedInv
    <3> QED BY <1>t, <3>2, <3>3
  <2>6. From' = item.id
    BY <1>n, <2>1, <2>3 DEF From
  <2>7. \A r \in DOMAIN recordsFrom : NoGap(r)' = NoGap(r)
    BY <1>f, <2>1, <2>2, <2>3 DEF NoGap
  <2>8. \A y \in Recorded' : From' + 1 .. y = {}
    BY <1>t, <2>4, <2>5, <2>6
  <2>9. From' + 1 .. item'.id = {}
    BY <1>f, <1>t, <2>6
  <2>10. \A r \in DOMAIN recordsFrom' : r < n => r \in DOMAIN recordsFrom
    BY <2>2, <2>3
  <2>11. \A r \in DOMAIN recordsFrom : r < n
    BY <2>2
  <2> HIDE DEF NoGap, From, Recorded
  <2> QED BY <1>n, <2>1, <2>2, <2>7, <2>8, <2>9, <2>10, <2>11 DEF GapInv
<1>4. CASE StopRecordFlag
  <2>1. /\ UNCHANGED <<files, recordsFrom, m_fpRecordFile, m_pRecordBuffer, recordPc, recordItem>>
        /\ ~m_bStartRecord' /\ Starting' = Starting
    BY <1>4 DEF StopRecordFlag, Starting, recordApi
  <2>2. Recorded' = Recorded
    BY <1>f, <2>1 DEF Recorded, OnItsWay, Taken, Buffered
  <2> QED BY <1>f, <2>1, <2>2, GapStays
<1>5. CASE StopRecordClose
  <2>1. /\ UNCHANGED <<files, recordsFrom, m_bStartRecord>>
        /\ ~m_fpRecordFile' /\ ~Starting /\ ~Starting' /\ ~m_bStartRecord
    BY <1>5 DEF StopRecordClose, ReturnFromStopRecord, Starting, SessionInv
  <2>2. \A r \in DOMAIN recordsFrom : NoGap(r)' = NoGap(r)
    BY <1>f, <2>1 DEF NoGap
  <2>3. ASSUME NEW r \in DOMAIN recordsFrom PROVE NoGap(r)
    <3>1. CASE ~m_fpRecordFile \/ r < n
      BY <1>n, <3>1 DEF GapInv
    <3>2. CASE m_fpRecordFile /\ ~(r < n)
      <4>1. r = n
        BY <1>n, <1>t, <2>1, <3>2, FilesTyped
      <4> QED BY <1>n, <2>1, <3>2, <4>1, OpenFileWhole
    <3> QED BY <3>1, <3>2
  <2> HIDE DEF NoGap
  <2> QED BY <2>1, <2>2, <2>3 DEF GapInv
<1>6. CASE StopRecordFree
  <2>1. /\ UNCHANGED <<files, recordsFrom, m_bStartRecord, m_fpRecordFile>>
        /\ ~m_fpRecordFile /\ Starting' = Starting
    BY <1>6 DEF StopRecordFree, ReturnFromStopRecord, Starting, SessionInv
  <2> QED BY <1>f, <2>1, GapStays
<1> QED BY <1>1, <1>2, <1>3, <1>4, <1>5, <1>6

(* No step makes a gap. *)
LEMMA GapKept ==
  TInv /\ TInv' /\ SessionInv /\ SessionInv' /\ PlacesInv /\ ReceivedInv /\ GapInv /\ [Next]_vars
    => GapInv'
<1> SUFFICES ASSUME TInv, TInv', SessionInv, SessionInv', PlacesInv, ReceivedInv, GapInv, [Next]_vars
             PROVE  GapInv'
  OBVIOUS
<1>1. CASE Quiet
  <2>1. Apart
    BY <1>1, QuietApart
  <2>2. UNCHANGED recordingVars /\ Starting' = Starting
    BY <2>1 DEF Apart
  <2>3. UNCHANGED workerPc \/ (workerPc \notin {"record", "recordbuf"} /\ workerPc' \notin {"record", "recordbuf"})
    BY <2>1 DEF Apart, Pending
  <2>4. Recorded' = Recorded
    BY <2>2, <2>3 DEF recordingVars, Recorded, OnItsWay, Taken, Buffered
  <2> QED BY <2>2, <2>3, <2>4, GapStays DEF recordingVars
<1>2. CASE OnRecvData
  <2>1. /\ UNCHANGED <<item, workerPc, m_pRecordBuffer, recordPc, recordItem, files, recordsFrom,
                       m_bStartRecord, m_fpRecordFile>>
        /\ lost \subseteq lost' /\ Starting' = Starting
    BY <1>2 DEF OnRecvData, recordVars, apiVars, Starting
  <2>2. Recorded' = Recorded
    BY <2>1 DEF Recorded, OnItsWay, Taken, Buffered
  <2> QED BY <2>1, <2>2, GapStays
<1>3. CASE WorkerReadItem \/ WorkerTestRecord \/ WorkerRecordItem
  BY <1>3, WorkerGap
<1>4. CASE Record
  BY <1>4, RecordGap
<1>5. CASE \/ StartRecordOpen \/ StartRecordBuffer \/ StartRecordThread \/ StartRecordFlag
           \/ StopRecordFlag \/ StopRecordClose \/ StopRecordFree
  BY <1>5, CallsGap
<1> QED BY <1>1, <1>2, <1>3, <1>4, <1>5, NextSplit

\* where the datagrams of a recording are, and that none is missing
RecordingInv == TInv /\ SessionInv /\ PlacesInv /\ ReceivedInv /\ GapInv

(* So it is from the constructor on. *)
LEMMA AlwaysRecordingInv == Spec => []RecordingInv
<1>1. Init => RecordingInv
  <2> SUFFICES ASSUME Init PROVE RecordingInv
    OBVIOUS
  <2>1. TInv
    BY InitTypes
  <2>2. SessionInv
    BY LenProperties, EmptySeq DEF Init, SessionInv, Starting
  <2>3. Waiting = {} /\ Buffered = {} /\ Taken = {} /\ Written = {}
    BY DEF Init, Waiting, Buffered, Taken, Written, Ids
  <2>4. PlacesInv /\ ReceivedInv
    BY <2>3 DEF Init, PlacesInv, WaitingInv, RecordedInv, RecordedInOrder, RisingIds, ReceivedInv, NoItem
  <2>5. GapInv
    BY DEF Init, GapInv
  <2> QED BY <2>1, <2>2, <2>4, <2>5 DEF RecordingInv
<1>2. RecordingInv /\ [Next]_vars => RecordingInv'
  <2> SUFFICES ASSUME RecordingInv, [Next]_vars PROVE RecordingInv'
    OBVIOUS
  <2>1. TInv' /\ TypeOK /\ TypeOK'
    BY NextTypes DEF RecordingInv, TInv
  <2>2. SessionInv'
    BY <2>1, SessionKept DEF RecordingInv
  <2>3. PlacesInv' /\ ReceivedInv'
    BY <2>1, PlacesKept, ReceivedKept DEF RecordingInv
  <2>4. GapInv'
    BY <2>1, <2>2, GapKept DEF RecordingInv
  <2> QED BY <2>1, <2>2, <2>3, <2>4 DEF RecordingInv
<1> QED BY <1>1, <1>2, PTL DEF Spec

(* The recorded files hold the datagrams in the order they were received, none
   twice, over any number of recordings, whatever the record buffer still held
   when one ended. *)
THEOREM RecordingOrdered == Spec => []RecordedInOrder
<1>1. RecordingInv => RecordedInOrder
  BY DEF RecordingInv, PlacesInv, RecordedInv
<1> QED BY <1>1, AlwaysRecordingInv, PTL

(* A recorded file misses no datagram the worker took since the recording
   began, but those a full ring refused: neither while it is written nor after
   StopRecord has closed it. *)
THEOREM RecordingWhole == Spec => []RecordedWithoutGap
<1>1. RecordingInv => RecordedWithoutGap
  <2> SUFFICES ASSUME RecordingInv, NEW r \in DOMAIN recordsFrom PROVE NoGap(r)
    BY DEF RecordedWithoutGap, NoGap
  <2>1. CASE ~m_fpRecordFile \/ r < Len(files)
    BY <2>1 DEF RecordingInv, GapInv
  <2>2. CASE m_fpRecordFile /\ ~(r < Len(files))
    <3>1. ~Starting /\ r = Len(files)
      BY <2>2, FilesTyped DEF RecordingInv, TInv
    <3> QED BY <2>2, <3>1, OpenFileWhole DEF RecordingInv
  <2> QED BY <2>1, <2>2
<1> QED BY <1>1, AlwaysRecordingInv, PTL
=============================================================================
