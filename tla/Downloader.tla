------------------------------ MODULE Downloader ------------------------------
(***************************************************************************)
(* CDownloader: follows an HLS playlist and hands its segments, one after  *)
(* the other, to the analysers.  Three threads:                            *)
(*                                                                         *)
(*   main    Run and MainLoop, takes segments from m_dqTsUrl               *)
(*   reload  ReloadFun, fetches the playlist of a live presentation again  *)
(*           and again and appends what is new to m_dqTsUrl                *)
(*   api     CHlsAnalysisImpl::Stop                                        *)
(*                                                                         *)
(* The origin server is external: a window of segments that slides, and    *)
(* may end (#EXT-X-ENDLIST).  A segment is its sequence number; the        *)
(* playlist compares equal exactly when the window is the same.  A meta    *)
(* playlist is one more transfer before the same outcomes and is not a     *)
(* step.  Recording (m_bRecordEnable) is off: no option of the C API sets  *)
(* it.  The event m_eventOnTsAdd only shortens a wait of 100 ms.           *)
(***************************************************************************)
EXTENDS Integers, Sequences, FiniteSets, SequencesExt

CONSTANTS
  Window,      \* segments in a live playlist
  MaxSegments, \* bound: segments ever published
  Endings      \* {FALSE}, {TRUE} or both: may the presentation have an end

ASSUME WindowAssumption ==
  Window \in Nat \ {0} /\ MaxSegments \in Nat /\ Endings \subseteq BOOLEAN

VARIABLES
  server,               \* the playlist the origin serves
  mainPc, reloadPc, api,
  m_bStop, m_bActiveStop, m_bFinish,
  b_live,               \* m_sys.b_live, written by every ParseStream
  m_bFirstSegmentRecved,
  m_strOldM3u8Content,  \* the playlist parsed last; its segments are m_lstOldSegments
  m3u8_content,         \* the playlist the reload thread works on
  todo,                 \* segments of it OnNewM3u8 has still to append
  m_dqTsUrl,
  url,                  \* the segment MainLoop downloads
  analysed,             \* segments handed to OnRecvSegment (history)
  failed,               \* segments reported by EM_HRT_PROTOCOL_HLS_DOWNLOAD_ERRORS (history)
  skipped,              \* what a live presentation had at the start (history)
  offered,              \* all other segments of the playlists parsed (history)
  finished              \* times EM_HRT_SYS_FINISH was posted

flags  == <<m_bStop, m_bActiveStop, m_bFinish>>
reload == <<reloadPc, m3u8_content, todo>>
results == <<analysed, failed>>
expected == <<skipped, offered>>
vars == <<server, mainPc, reload, api, flags, b_live, m_bFirstSegmentRecved,
          m_strOldM3u8Content, m_dqTsUrl, url, results, expected, finished>>

Segments(p) == p.first .. p.last
\* the segments S in the order the playlist has them
InOrder(S) ==
  [k \in 1 .. Cardinality(S) |-> CHOOSE s \in S : Cardinality({r \in S : r < s}) = k - 1]
Running(pc) == pc \notin {"none", "done"}

Init ==
  /\ \E n \in 0 .. MaxSegments, e \in Endings :
       server = [first |-> IF n > Window /\ ~e THEN n - Window + 1 ELSE 1,
                 last |-> n, ended |-> e]
  /\ mainPc = "getm3u8" /\ reloadPc = "none" /\ api = "idle"
  /\ m_bStop = FALSE /\ m_bActiveStop = FALSE /\ m_bFinish = FALSE
  /\ b_live = FALSE /\ m_bFirstSegmentRecved = FALSE
  /\ m_strOldM3u8Content = server /\ m3u8_content = server
  /\ todo = <<>> /\ m_dqTsUrl = <<>> /\ url = 0
  /\ analysed = <<>> /\ failed = {} /\ skipped = {} /\ offered = {} /\ finished = 0

-----------------------------------------------------------------------------
(* The origin server *)

Publish ==
  /\ ~server.ended /\ server.last < MaxSegments
  /\ LET n == server.last + 1
     IN server' = [server EXCEPT !.last = n,
                                 !.first = IF n - @ >= Window THEN @ + 1 ELSE @]
  /\ UNCHANGED <<mainPc, reload, api, flags, b_live, m_bFirstSegmentRecved,
                 m_strOldM3u8Content, m_dqTsUrl, url, results, expected, finished>>

End ==
  /\ ~server.ended /\ TRUE \in Endings
  /\ server' = [server EXCEPT !.ended = TRUE]
  /\ UNCHANGED <<mainPc, reload, api, flags, b_live, m_bFirstSegmentRecved,
                 m_strOldM3u8Content, m_dqTsUrl, url, results, expected, finished>>

Server == Publish \/ End

-----------------------------------------------------------------------------
(* Run and MainLoop *)

otherThanMain == <<server, m3u8_content, todo, api, flags>>

\* the first transfer, or SelectStream, fails: EM_HRT_SYS_FINISH and no more
RunFails ==
  /\ mainPc = "getm3u8" /\ mainPc' = "done"
  /\ finished' = finished + 1
  /\ UNCHANGED <<otherThanMain, reloadPc, b_live, m_bFirstSegmentRecved,
                 m_strOldM3u8Content, m_dqTsUrl, url, results, expected>>

\* after Cancel no transfer succeeds any more
RunSelectStream ==
  /\ mainPc = "getm3u8" /\ ~m_bActiveStop
  /\ mainPc' = "start"
  /\ m_strOldM3u8Content' = server
  /\ b_live' = ~server.ended
  /\ UNCHANGED <<otherThanMain, reloadPc, m_bFirstSegmentRecved, m_dqTsUrl, url,
                 results, expected, finished>>

\* live: only what comes next is analysed
RunStartLive ==
  /\ mainPc = "start" /\ b_live
  /\ mainPc' = "loop"
  /\ reloadPc' \in {"check", "none"} \* pthread_create may fail
  /\ skipped' = Segments(m_strOldM3u8Content)
  /\ UNCHANGED <<otherThanMain, b_live, m_bFirstSegmentRecved, m_strOldM3u8Content,
                 m_dqTsUrl, url, results, offered, finished>>

RunStartVod ==
  /\ mainPc = "start" /\ ~b_live
  /\ mainPc' = "loop"
  /\ m_dqTsUrl' = InOrder(Segments(m_strOldM3u8Content))
  /\ offered' = Segments(m_strOldM3u8Content)
  /\ UNCHANGED <<otherThanMain, reloadPc, b_live, m_bFirstSegmentRecved,
                 m_strOldM3u8Content, url, results, skipped, finished>>

loopOnly == <<otherThanMain, reloadPc, b_live, m_strOldM3u8Content, expected, finished>>

\* mutant: only m_bFinish ends the loop
StopUnseen == m_bFinish
StopSeen == m_bStop \/ m_bFinish

LoopTest ==
  /\ mainPc = "loop"
  /\ mainPc' = IF StopSeen THEN "join" ELSE "empty"
  /\ UNCHANGED <<loopOnly, m_bFirstSegmentRecved, m_dqTsUrl, url, results>>

\* bempty, under m_mutex
LoopEmpty ==
  /\ mainPc = "empty"
  /\ mainPc' = IF m_dqTsUrl = <<>> THEN "islive" ELSE "head"
  /\ UNCHANGED <<loopOnly, m_bFirstSegmentRecved, m_dqTsUrl, url, results>>

\* mutant: an empty queue is always waited for
EmptyEnds == FALSE
NoMoreSegments == ~b_live

\* found empty: wait and try again, or the end of the list
LoopIsLive ==
  /\ mainPc = "islive"
  /\ mainPc' = IF NoMoreSegments THEN "join" ELSE "loop"
  /\ UNCHANGED <<loopOnly, m_bFirstSegmentRecved, m_dqTsUrl, url, results>>

LoopHead ==
  /\ mainPc = "head" /\ mainPc' = "download"
  /\ m_bFirstSegmentRecved' = (m_bFirstSegmentRecved \/ b_live)
  /\ url' = Head(m_dqTsUrl)
  /\ UNCHANGED <<loopOnly, m_dqTsUrl, results>>

\* Async_GetBin: CHC_TIMEOUT leaves the segment at the front of the queue
DownloadTimeout ==
  /\ mainPc = "download" /\ mainPc' = "loop"
  /\ UNCHANGED <<loopOnly, m_bFirstSegmentRecved, m_dqTsUrl, url, results>>

\* after Cancel no transfer succeeds any more
DownloadSucceeds ==
  /\ mainPc = "download" /\ ~m_bActiveStop
  /\ mainPc' = "pop"
  /\ UNCHANGED <<loopOnly, m_bFirstSegmentRecved, m_dqTsUrl, url, results>>

\* any other failure, a cancelled transfer among them, is reported
DownloadFails ==
  /\ mainPc = "download" /\ mainPc' = "drop"
  /\ failed' = failed \cup {url}
  /\ UNCHANGED <<loopOnly, m_bFirstSegmentRecved, m_dqTsUrl, url, analysed>>

DownloadEnds == DownloadSucceeds \/ DownloadFails

\* pop_front after a failure: the segment is not analysed
LoopDrop ==
  /\ mainPc = "drop" /\ mainPc' = "loop"
  /\ m_dqTsUrl' = Tail(m_dqTsUrl)
  /\ UNCHANGED <<loopOnly, m_bFirstSegmentRecved, url, results>>

\* pop_front after a success
LoopPop ==
  /\ mainPc = "pop" /\ mainPc' = "analyse"
  /\ m_dqTsUrl' = Tail(m_dqTsUrl)
  /\ UNCHANGED <<loopOnly, m_bFirstSegmentRecved, url, results>>

LoopAnalyse ==
  /\ mainPc = "analyse" /\ mainPc' = "loop"
  /\ analysed' = Append(analysed, url)
  /\ UNCHANGED <<loopOnly, m_bFirstSegmentRecved, m_dqTsUrl, url, failed>>

RunJoin ==
  /\ mainPc = "join" /\ ~Running(reloadPc)
  /\ mainPc' = "done"
  /\ finished' = finished + 1
  /\ UNCHANGED <<otherThanMain, reloadPc, b_live, m_bFirstSegmentRecved,
                 m_strOldM3u8Content, m_dqTsUrl, url, results, expected>>

MainSteps ==
  \/ RunFails \/ RunSelectStream \/ RunStartLive \/ RunStartVod
  \/ LoopTest \/ LoopEmpty \/ LoopIsLive \/ LoopHead
  \/ LoopDrop \/ LoopPop \/ LoopAnalyse \/ RunJoin

Main == MainSteps \/ DownloadTimeout \/ DownloadEnds

-----------------------------------------------------------------------------
(* ReloadFun *)

otherThanReload == <<server, mainPc, api, m_bStop, m_bActiveStop,
                     m_bFirstSegmentRecved, url, results, skipped, finished>>

ReloadCheck ==
  /\ reloadPc = "check"
  /\ IF m_bStop THEN reloadPc' = "done" /\ m_bFinish' = TRUE
                ELSE reloadPc' = "fetch" /\ m_bFinish' = m_bFinish
  /\ UNCHANGED <<otherThanReload, b_live, m_strOldM3u8Content, m3u8_content, todo,
                 m_dqTsUrl, offered>>

\* a failed transfer is tried again
ReloadFetchFails ==
  /\ reloadPc = "fetch" /\ reloadPc' = "check"
  /\ UNCHANGED <<otherThanReload, m_bFinish, b_live, m_strOldM3u8Content, m3u8_content,
                 todo, m_dqTsUrl, offered>>

\* the playlist is posted and compared with the one parsed last
ReloadFetch ==
  /\ reloadPc = "fetch" /\ ~m_bActiveStop
  /\ m3u8_content' = server
  /\ reloadPc' = IF server = m_strOldM3u8Content THEN "wait" ELSE "parse"
  /\ UNCHANGED <<otherThanReload, m_bFinish, b_live, m_strOldM3u8Content, todo,
                 m_dqTsUrl, offered>>

\* every 30 ms, until half of the target duration is over
ReloadWait ==
  /\ reloadPc = "wait"
  /\ reloadPc' = IF m_bStop THEN "done" ELSE "check"
  /\ UNCHANGED <<otherThanReload, m_bFinish, b_live, m_strOldM3u8Content, m3u8_content,
                 todo, m_dqTsUrl, offered>>

\* mutant: every segment of the playlist is taken for a new one
AllSegments == Segments(m3u8_content)
NewSegments == Segments(m3u8_content) \ Segments(m_strOldM3u8Content)

\* mutant: a live playlist too short to slide is taken for a finished one
ReloadParseShort ==
  /\ reloadPc = "parse"
  /\ b_live' = (m3u8_content.first > 1)
  /\ reloadPc' = "enqueue"
  /\ todo' = InOrder(NewSegments)
  /\ offered' = offered \cup (Segments(m3u8_content) \ skipped)
  /\ UNCHANGED <<otherThanReload, m_bFinish, m_strOldM3u8Content, m3u8_content, m_dqTsUrl>>

\* mutant: a playlist that failed to parse is compared with all the same
ReloadParseKept ==
  /\ reloadPc = "parse"
  /\ b_live' = ~m3u8_content.ended
  /\ \/ /\ reloadPc' = "check" /\ m_strOldM3u8Content' = m3u8_content
        /\ UNCHANGED <<todo, offered>>
     \/ /\ reloadPc' = "enqueue"
        /\ todo' = InOrder(NewSegments)
        /\ offered' = offered \cup (Segments(m3u8_content) \ skipped)
        /\ UNCHANGED m_strOldM3u8Content
  /\ UNCHANGED <<otherThanReload, m_bFinish, m3u8_content, m_dqTsUrl>>

\* ParseStream sets b_live before it looks at the segments, and may then fail
ReloadParse ==
  /\ reloadPc = "parse"
  /\ b_live' = ~m3u8_content.ended
  /\ \/ reloadPc' = "check" /\ UNCHANGED <<todo, offered>>
     \/ /\ reloadPc' = "enqueue"
        /\ todo' = InOrder(NewSegments)
        /\ offered' = offered \cup (Segments(m3u8_content) \ skipped)
  /\ UNCHANGED <<otherThanReload, m_bFinish, m_strOldM3u8Content, m3u8_content, m_dqTsUrl>>

\* OnNewM3u8, one push_back under m_mutex each
ReloadEnqueue ==
  /\ reloadPc = "enqueue" /\ todo # <<>>
  /\ m_dqTsUrl' = Append(m_dqTsUrl, Head(todo))
  /\ todo' = Tail(todo)
  /\ UNCHANGED <<otherThanReload, m_bFinish, reloadPc, b_live, m_strOldM3u8Content,
                 m3u8_content, offered>>

ReloadRemember ==
  /\ reloadPc = "enqueue" /\ todo = <<>>
  /\ reloadPc' = "check"
  /\ m_strOldM3u8Content' = m3u8_content
  /\ UNCHANGED <<otherThanReload, m_bFinish, b_live, m3u8_content, todo, m_dqTsUrl, offered>>

Reload ==
  \/ ReloadCheck \/ ReloadFetchFails \/ ReloadFetch \/ ReloadWait
  \/ ReloadParse \/ ReloadEnqueue \/ ReloadRemember

-----------------------------------------------------------------------------
(* CHlsAnalysisImpl::Stop *)

otherThanApi == <<server, mainPc, reload, m_bFinish, b_live, m_bFirstSegmentRecved,
                  m_strOldM3u8Content, m_dqTsUrl, url, results, expected, finished>>

StopFlag ==
  /\ api = "idle" /\ api' = "cancel"
  /\ m_bStop' = TRUE
  /\ UNCHANGED <<otherThanApi, m_bActiveStop>>

StopCancel ==
  /\ api = "cancel" /\ api' = "join"
  /\ m_bActiveStop' = TRUE
  /\ UNCHANGED <<otherThanApi, m_bStop>>

StopJoin ==
  /\ api = "join" /\ ~Running(mainPc)
  /\ api' = "stopped"
  /\ UNCHANGED <<otherThanApi, m_bStop, m_bActiveStop>>

Stop == StopCancel \/ StopJoin

Stopped == api = "stopped" /\ UNCHANGED vars

Next == Server \/ Main \/ Reload \/ StopFlag \/ Stop \/ Stopped

Spec == Init /\ [][Next]_vars

(* Every thread is scheduled, and every transfer ends: libcurl's transfer is
   given up after MAX_TIME_OUT without data.  Nobody has to call Stop. *)
Fairness == WF_vars(Main) /\ WF_vars(Reload) /\ WF_vars(Stop)

FairSpec == Spec /\ Fairness

(* In addition a segment does not time out for ever. *)
AnsweringSpec == FairSpec /\ SF_vars(DownloadEnds)

-----------------------------------------------------------------------------
(* Properties *)

(* Segments are analysed in playlist order, each at most once, although the
   reload thread remembers only the playlist it parsed last and appends while
   MainLoop works between its critical sections. *)
SegmentsInOrder == \A k \in 1 .. Len(analysed) - 1 : analysed[k] < analysed[k + 1]

\* taken off the queue, and not yet given to OnRecvSegment
InHand == IF mainPc = "analyse" THEN {url} ELSE {}

(* Every segment of a parsed playlist, apart from those a live presentation had
   at the start, is analysed, or was reported as a download error, or waits in
   the queue, or is about to be appended: no timeout, no playlist that fails to
   parse and no comparison of two playlists lets one disappear without a word. *)
NoSegmentLost ==
  offered \subseteq ToSet(analysed) \cup failed \cup InHand \cup ToSet(m_dqTsUrl) \cup ToSet(todo)

(* EM_HRT_SYS_FINISH is posted once and is the last message: the reload thread,
   which posts playlists, has ended by then. *)
FinishIsLast ==
  finished <= 1 /\ (finished = 1 => ~Running(mainPc) /\ ~Running(reloadPc))

(* CHlsAnalysisImpl::Stop returns, wherever the two threads are. *)
StopReturns == api = "cancel" ~> api = "stopped"

(* A presentation on demand is worked off to its last segment, each analysed or
   reported as a download error, and then reports EM_HRT_SYS_FINISH, without a
   call of Stop. *)
VodFinishes ==
  (mainPc = "start" /\ ~b_live) ~>
    finished = 1 /\ (m_bStop \/ offered \subseteq ToSet(analysed) \cup failed)

(* A segment in the queue is analysed, or reported as a download error, unless
   Stop or the end of the presentation comes first. *)
QueuedSegmentHandled ==
  \A s \in 1 .. MaxSegments :
    s \in ToSet(m_dqTsUrl) ~> (s \in ToSet(analysed) \cup failed \/ m_bStop \/ server.ended)
=============================================================================
