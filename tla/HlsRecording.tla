----------------------------- MODULE HlsRecording -----------------------------
(***************************************************************************)
(* Recording of an HLS presentation (CHlsAnalysis::SetRecord).  Four       *)
(* threads:                                                                *)
(*                                                                         *)
(*   main    Run, MainLoop: hands each segment it downloaded to            *)
(*           CAsyncSaveFile                                                *)
(*   reload  ReloadFun: writes each new playlist itself, through CSaveFile *)
(*   save    CAsyncSaveFile's worker: writes the segments to files         *)
(*   api     easyice_cleanup: Stop and ~CHlsAnalysisImpl                   *)
(*                                                                         *)
(* Downloader has main and reload step by step; here they are as coarse as *)
(* the recording can tell: a playlist is its last segment and whether it   *)
(* has its end, and what it adds is queued in one step.  A file is the     *)
(* number of its segment.  A file that does not open is skipped.  The      *)
(* parameters name a directory (savefile is NULL).                         *)
(***************************************************************************)
EXTENDS Integers, Sequences, FiniteSets, SequencesExt

CONSTANTS
  Window,                       \* segments in a live playlist
  realtime_mode, continue_mode, \* of HLS_RECORD_INIT_PARAM_T
  MaxSegments,                  \* bound: segments ever published
  Starts,                       \* bound: kinds of presentation, segments at the start
  MaxFailures                   \* bound: transfers and files that fail

ASSUME RecordingAssumption ==
  /\ Window \in Nat \ {0} /\ MaxSegments \in Nat
  /\ Starts \subseteq [live : BOOLEAN, published : 0 .. MaxSegments]
  /\ MaxFailures \in Nat
  /\ realtime_mode \in BOOLEAN /\ continue_mode \in BOOLEAN

VARIABLES
  sliding,            \* the origin serves a live presentation, or one on demand
  published, ended,   \* its playlist's last segment, and whether it has #EXT-X-ENDLIST
  mainPc, reloadPc, savePc, api,
  m_bStop, m_bActiveStop, \* of CDownloader, of the HTTP clients
  m_bSaveStop,        \* CAsyncSaveFile::m_bStop
  m_bWorkThreadValid, \* of CAsyncSaveFile
  m_lstOldSegments, oldEnded, \* the playlist parsed last
  b_live,             \* m_sys.b_live, written by every ParseStream
  m_dqTsUrl,          \* segments to download
  url,                \* the one MainLoop has at hand
  m_dqTsBuffer,       \* segments to write
  m_segment_count, m_lstTsHistory,
  disk,               \* segments whose file exists
  m3u8,               \* the local playlist, 0 before there is one
  m3u8Late,           \* the last playlist could not be written
  downloaded, taken,  \* segments handed over, and passed to CSaveFile (history)
  missing,            \* segments that could not be downloaded or written (history)
  removed,            \* files deleted again (history)
  failures

flags     == <<m_bStop, m_bActiveStop, m_bSaveStop>>
source    == <<sliding, published, ended>>
queueVars == <<m_dqTsBuffer, downloaded>>
fileVars  == <<m_lstTsHistory, disk, taken, removed>>
listVars  == <<m3u8, m3u8Late>>
startVars == <<m_bWorkThreadValid, m_segment_count>>
listed    == <<m_lstOldSegments, oldEnded, b_live>>
urlVars   == <<listed, m_dqTsUrl, url>>
vars == <<source, mainPc, reloadPc, savePc, api, flags, startVars, urlVars,
          queueVars, fileVars, listVars, missing, failures>>

First(n) == IF sliding /\ n > Window THEN n - Window + 1 ELSE 1
Segments(n) == First(n) .. n
Running(pc) == pc \notin {"none", "done"}

\* on demand, files may be there from a recording that was interrupted
Init ==
  /\ \E s \in Starts : sliding = s.live /\ published = s.published /\ ended = ~s.live
  /\ mainPc = "getm3u8" /\ reloadPc = "none" /\ savePc = "none" /\ api = "idle"
  /\ m_bStop = FALSE /\ m_bActiveStop = FALSE /\ m_bSaveStop = FALSE
  /\ m_bWorkThreadValid = FALSE /\ m_segment_count = 0
  /\ m_lstOldSegments = 0 /\ oldEnded = FALSE /\ b_live = FALSE
  /\ m_dqTsUrl = <<>> /\ url = 0 /\ m_dqTsBuffer = <<>>
  /\ m_lstTsHistory = <<>> /\ m3u8 = 0 /\ m3u8Late = FALSE
  /\ downloaded = <<>> /\ taken = <<>> /\ missing = {} /\ removed = {} /\ failures = 0
  /\ \E n \in 0 .. published : disk = IF sliding THEN {} ELSE 1 .. n

notServer == <<sliding, mainPc, reloadPc, savePc, api, flags, startVars, urlVars,
               queueVars, fileVars, listVars, missing, failures>>

Publish ==
  /\ ~ended /\ published < MaxSegments
  /\ published' = published + 1
  /\ UNCHANGED <<notServer, ended>>

\* one that has its end when Run reads it is on demand
End ==
  /\ ~ended /\ mainPc # "getm3u8"
  /\ ended' = TRUE
  /\ UNCHANGED <<notServer, published>>

Server == Publish \/ End

Fails == failures < MaxFailures /\ failures' = failures + 1

\* CSaveFile::OnRecvM3u8
WriteM3u8(n) ==
  \/ m3u8' = n /\ m3u8Late' = FALSE /\ UNCHANGED failures
  \/ m3u8' = m3u8 /\ m3u8Late' = TRUE /\ Fails \* fopen

-----------------------------------------------------------------------------
(* Run and MainLoop *)

notMain == <<source, api, flags, fileVars>>

\* the first playlist fails, or its name is empty and nothing more is posted
RunFails ==
  /\ mainPc \in {"getm3u8", "start"} /\ mainPc' = "done"
  /\ UNCHANGED <<notMain, reloadPc, savePc, startVars, urlVars, queueVars, listVars,
                 missing, failures>>

RunSelectStream ==
  /\ mainPc = "getm3u8" /\ ~m_bActiveStop /\ mainPc' = "start"
  /\ m_lstOldSegments' = published /\ oldEnded' = ended /\ b_live' = ~ended
  /\ UNCHANGED <<notMain, reloadPc, savePc, startVars, m_dqTsUrl, url, queueVars, listVars,
                 missing, failures>>

\* CAsyncSaveFile::Start: the thread runs before the flag that says so is set
RunStartSave ==
  /\ mainPc = "start" /\ mainPc' = "valid"
  /\ m_segment_count' = Cardinality(Segments(m_lstOldSegments))
  /\ savePc' \in {"check", "none"} \* pthread_create may fail
  /\ UNCHANGED <<notMain, reloadPc, m_bWorkThreadValid, urlVars, queueVars, listVars,
                 missing, failures>>

RunSaveValid ==
  /\ mainPc = "valid" /\ mainPc' = "begin"
  /\ m_bWorkThreadValid' = (savePc # "none")
  /\ UNCHANGED <<notMain, reloadPc, savePc, m_segment_count, urlVars, queueVars, listVars,
                 missing, failures>>

\* live: what comes next is recorded
RunLive ==
  /\ mainPc = "begin" /\ b_live /\ mainPc' = "loop"
  /\ reloadPc' \in {"check", "none"} \* pthread_create may fail
  /\ UNCHANGED <<notMain, savePc, startVars, urlVars, queueVars, listVars, missing, failures>>

RunVod ==
  /\ mainPc = "begin" /\ ~b_live /\ mainPc' = "loop"
  /\ WriteM3u8(m_lstOldSegments)
  /\ m_dqTsUrl' = [i \in 1 .. m_lstOldSegments |-> i]
  /\ UNCHANGED <<notMain, reloadPc, savePc, startVars, listed, url, queueVars, missing>>

loopOnly == <<notMain, reloadPc, savePc, startVars, listed, listVars>>

LoopEnds ==
  /\ mainPc = "loop" /\ mainPc' = "join"
  /\ m_bStop \/ (~b_live /\ m_dqTsUrl = <<>>)
  /\ UNCHANGED <<loopOnly, m_dqTsUrl, url, queueVars, missing, failures>>

\* m_bStop was clear and the queue has a front
LoopHead ==
  /\ mainPc = "loop" /\ ~m_bStop /\ m_dqTsUrl # <<>>
  /\ mainPc' = "get" /\ url' = Head(m_dqTsUrl)
  /\ UNCHANGED <<loopOnly, m_dqTsUrl, queueVars, missing, failures>>

\* mutant: the test does not look at the name
SkipsAny == ~b_live /\ continue_mode /\ disk # {}
Skips == ~b_live /\ continue_mode /\ url \in disk

LoopSkip ==
  /\ mainPc = "get" /\ Skips /\ mainPc' = "loop"
  /\ m_dqTsUrl' = Tail(m_dqTsUrl)
  /\ UNCHANGED <<loopOnly, url, queueVars, missing, failures>>

\* a timeout leaves the segment in the queue
LoopTimeout ==
  /\ mainPc = "get" /\ ~Skips /\ ~m_bActiveStop /\ mainPc' = "loop"
  /\ UNCHANGED <<loopOnly, urlVars, queueVars, missing, failures>>

\* any other failure drops it; after Cancel every transfer fails
LoopFails ==
  /\ mainPc = "get" /\ ~Skips /\ mainPc' = "loop"
  /\ IF m_bActiveStop THEN UNCHANGED failures ELSE Fails
  /\ m_dqTsUrl' = Tail(m_dqTsUrl)
  /\ missing' = missing \cup {url}
  /\ UNCHANGED <<loopOnly, url, queueVars>>

LoopDownloaded ==
  /\ mainPc = "get" /\ ~Skips /\ ~m_bActiveStop /\ mainPc' = "handover"
  /\ m_dqTsUrl' = Tail(m_dqTsUrl)
  /\ UNCHANGED <<loopOnly, url, queueVars, missing, failures>>

\* after the analysis, CAsyncSaveFile::OnRecvTs
LoopHandOver ==
  /\ mainPc = "handover" /\ mainPc' = "loop"
  /\ m_dqTsBuffer' = Append(m_dqTsBuffer, url)
  /\ downloaded' = Append(downloaded, url)
  /\ UNCHANGED <<loopOnly, m_dqTsUrl, url, missing, failures>>

RunJoin ==
  /\ mainPc = "join" /\ ~Running(reloadPc) /\ mainPc' = "done"
  /\ UNCHANGED <<loopOnly, m_dqTsUrl, url, queueVars, missing, failures>>

Loop ==
  \/ LoopEnds \/ LoopHead \/ LoopSkip \/ LoopTimeout \/ LoopFails \/ LoopDownloaded
  \/ LoopHandOver

Main ==
  \/ RunFails \/ RunSelectStream \/ RunStartSave \/ RunSaveValid \/ RunLive \/ RunVod
  \/ Loop \/ RunJoin

-----------------------------------------------------------------------------
(* ReloadFun *)

notReload == <<source, mainPc, savePc, api, flags, startVars, url, queueVars, fileVars, missing>>

ReloadStops ==
  /\ reloadPc = "check" /\ m_bStop /\ reloadPc' = "done"
  /\ UNCHANGED <<notReload, listed, m_dqTsUrl, listVars, failures>>

\* ParseStream finds the end before it looks at the segments, and may then fail
ReloadEnd ==
  /\ reloadPc = "check" /\ ~m_bActiveStop /\ ended /\ b_live
  /\ b_live' = FALSE
  /\ UNCHANGED <<notReload, reloadPc, m_lstOldSegments, oldEnded, m_dqTsUrl, listVars, failures>>

\* a new playlist: what the one before did not have is queued first
ReloadNew ==
  /\ reloadPc = "check" /\ ~m_bActiveStop
  /\ published # m_lstOldSegments \/ (ended /\ ~oldEnded)
  /\ ended => ~b_live
  /\ reloadPc' = "write"
  /\ LET new == Segments(published) \ Segments(m_lstOldSegments)
         low == published - Cardinality(new)
     IN m_dqTsUrl' = m_dqTsUrl \o [i \in 1 .. Cardinality(new) |-> low + i]
  /\ m_lstOldSegments' = published /\ oldEnded' = ended
  /\ UNCHANGED <<notReload, b_live, listVars, failures>>

\* then it is written
ReloadWrite ==
  /\ reloadPc = "write" /\ reloadPc' = "check"
  /\ WriteM3u8(m_lstOldSegments)
  /\ UNCHANGED <<notReload, listed, m_dqTsUrl>>

Reload == ReloadStops \/ ReloadEnd \/ ReloadNew \/ ReloadWrite

-----------------------------------------------------------------------------
(* CAsyncSaveFile's worker *)

notSave == <<source, mainPc, reloadPc, api, flags, startVars, urlVars, downloaded, listVars>>

SaveCheck ==
  /\ savePc = "check"
  /\ savePc' = IF m_bSaveStop THEN "done" ELSE "front"
  /\ UNCHANGED <<notSave, m_dqTsBuffer, fileVars, missing, failures>>

\* empty() and begin(), each under m_mutex; nobody else takes from the queue.
\* The wait for more has a timeout of 100 ms.
SaveFront ==
  /\ savePc = "front"
  /\ savePc' = IF m_dqTsBuffer = <<>> THEN "check" ELSE "write"
  /\ UNCHANGED <<notSave, m_dqTsBuffer, fileVars, missing, failures>>

SaveFails ==
  /\ savePc = "write" /\ savePc' = "pop" /\ Fails
  /\ taken' = Append(taken, Head(m_dqTsBuffer))
  /\ missing' = missing \cup {Head(m_dqTsBuffer)}
  /\ UNCHANGED <<notSave, m_dqTsBuffer, m_lstTsHistory, disk, removed>>

\* mutant: as many files as the playlist has segments
MaxHistoryOnce == m_segment_count
MaxHistory == m_segment_count * 3

\* CSaveFile::OnRecvTs: write, remember (a name already there moves to the end), and
\* delete the oldest file
SaveWrite ==
  /\ savePc = "write" /\ savePc' = "pop"
  /\ LET ts == Head(m_dqTsBuffer)
         kept == IF ts \in ToSet(m_lstTsHistory) THEN Remove(m_lstTsHistory, ts) ELSE m_lstTsHistory
         history == Append(kept, ts)
         expired == IF realtime_mode /\ Len(history) > MaxHistory THEN {Head(history)} ELSE {}
     IN /\ m_lstTsHistory' = IF expired = {} THEN history ELSE Tail(history)
        /\ disk' = (disk \cup {ts}) \ expired
        /\ removed' = removed \cup expired
        /\ taken' = Append(taken, ts)
  /\ UNCHANGED <<notSave, m_dqTsBuffer, missing, failures>>

\* mutant: the element at the other end
SavePopBack ==
  /\ savePc = "pop" /\ savePc' = "check"
  /\ m_dqTsBuffer' = Front(m_dqTsBuffer)
  /\ UNCHANGED <<notSave, fileVars, missing, failures>>

SavePop ==
  /\ savePc = "pop" /\ savePc' = "check"
  /\ m_dqTsBuffer' = Tail(m_dqTsBuffer)
  /\ UNCHANGED <<notSave, fileVars, missing, failures>>

Save == SaveCheck \/ SaveFront \/ SaveFails \/ SaveWrite \/ SavePop

-----------------------------------------------------------------------------
(* easyice_cleanup: Stop, then ~CHlsAnalysisImpl, which calls Stop again *)

notApi == <<source, mainPc, reloadPc, savePc, startVars, urlVars, queueVars, fileVars,
            listVars, missing, failures>>

StopFlag ==
  /\ api = "idle" /\ api' = "cancel"
  /\ m_bStop' = TRUE
  /\ UNCHANGED <<notApi, m_bActiveStop, m_bSaveStop>>

StopCancel ==
  /\ api = "cancel" /\ api' = "stopsave"
  /\ m_bActiveStop' = TRUE
  /\ UNCHANGED <<notApi, m_bStop, m_bSaveStop>>

\* mutant: the worker is not told
StopSaveSilently ==
  /\ api = "stopsave" /\ api' = "testvalid"
  /\ UNCHANGED <<notApi, flags>>

\* CAsyncSaveFile::Stop
StopSave ==
  /\ api = "stopsave" /\ api' = "testvalid"
  /\ m_bSaveStop' = TRUE
  /\ UNCHANGED <<notApi, m_bStop, m_bActiveStop>>

StopTestValid ==
  /\ api = "testvalid"
  /\ api' = IF m_bWorkThreadValid THEN "joinsave" ELSE "joinmain"
  /\ UNCHANGED <<notApi, flags>>

StopJoinSave ==
  /\ api = "joinsave" /\ ~Running(savePc) /\ api' = "joinmain"
  /\ UNCHANGED <<notApi, flags>>

StopJoinMain ==
  /\ api = "joinmain" /\ ~Running(mainPc) /\ api' = "destroy"
  /\ UNCHANGED <<notApi, flags>>

\* mutant: the destructor only deletes
DestroyUnjoined ==
  /\ api = "destroy" /\ api' = "deleted"
  /\ UNCHANGED <<notApi, flags>>

\* CAsyncSaveFile::Stop again; the join of a thread already joined returns at once
DestroyJoinSave ==
  /\ api = "destroy" /\ api' = "deleted"
  /\ m_bWorkThreadValid => ~Running(savePc)
  /\ UNCHANGED <<notApi, flags>>

Stop ==
  \/ StopCancel \/ StopSave \/ StopTestValid \/ StopJoinSave \/ StopJoinMain
  \/ DestroyJoinSave

Deleted == api = "deleted" /\ UNCHANGED vars

Next == Server \/ Main \/ Reload \/ Save \/ StopFlag \/ Stop \/ Deleted

Spec == Init /\ [][Next]_vars

(* As in Downloader: every thread is scheduled, every transfer ends, and a
   segment does not time out for ever.  Nobody has to call Stop. *)
Fairness ==
  /\ WF_vars(Main) /\ SF_vars(LoopFails \/ LoopDownloaded)
  /\ WF_vars(Reload) /\ WF_vars(Save) /\ WF_vars(Stop)

FairSpec == Spec /\ Fairness

-----------------------------------------------------------------------------
(* Properties *)

ControlOK ==
  /\ sliding \in BOOLEAN /\ ended \in BOOLEAN /\ published \in 0 .. MaxSegments
  /\ mainPc \in {"getm3u8", "start", "valid", "begin", "loop", "get", "handover", "join",
                 "done"}
  /\ reloadPc \in {"none", "check", "write", "done"}
  /\ savePc \in {"none", "check", "front", "write", "pop", "done"}
  /\ api \in {"idle", "cancel", "stopsave", "testvalid", "joinsave", "joinmain",
              "destroy", "deleted"}
  /\ m_bStop \in BOOLEAN /\ m_bActiveStop \in BOOLEAN /\ m_bSaveStop \in BOOLEAN
  /\ m_bWorkThreadValid \in BOOLEAN /\ m_segment_count \in Nat
  /\ failures \in 0 .. MaxFailures

QueuesOK ==
  /\ m_lstOldSegments \in Nat /\ oldEnded \in BOOLEAN /\ b_live \in BOOLEAN
  /\ m_dqTsUrl \in Seq(Nat) /\ url \in Nat
  /\ m_dqTsBuffer \in Seq(Nat) /\ downloaded \in Seq(Nat) /\ taken \in Seq(Nat)
  /\ m3u8 \in Nat /\ m3u8Late \in BOOLEAN
  /\ disk \subseteq Nat /\ missing \subseteq Nat

TypeOK == ControlOK /\ QueuesOK

(* What was written and what still waits is what was downloaded, in that order:
   the worker uses the front of the queue outside the lock while MainLoop
   appends, and neither leaves a segment out nor writes one twice.  What Stop
   finds in the queue stays there. *)
RecordedAsDownloaded ==
  downloaded = taken \o (IF savePc = "pop" THEN Tail(m_dqTsBuffer) ELSE m_dqTsBuffer)

(* A file is deleted only when the local playlist no longer names it, although
   another thread writes the playlist, and only after what it adds is queued.
   This needs a first playlist as long as the later ones (m_segment_count is
   set once) and a playlist that was written. *)
ListedNotRemoved ==
  m_segment_count = Window /\ ~m3u8Late => Segments(m3u8) \cap removed = {}

(* When ~CHlsAnalysisImpl deletes the downloader no thread of it is left, even
   if Stop came before Start had created the worker, or before it had set the
   flag that tells Stop to join it. *)
NoThreadOnDelete ==
  api = "deleted" => ~Running(mainPc) /\ ~Running(reloadPc) /\ ~Running(savePc)

(* easyice_cleanup returns with recording on, whatever is queued. *)
CleanupReturns == api = "cancel" ~> api = "deleted"

(* A presentation on demand is on disk at the end, though its end is reported
   before the worker has written what is queued: each segment was found there,
   written, or could not be. *)
VodRecorded ==
  (mainPc = "begin" /\ ~b_live) ~>
    \/ m_bStop \/ ~m_bWorkThreadValid
    \/ mainPc = "done" /\ 1 .. m_lstOldSegments \subseteq disk \cup missing
=============================================================================
