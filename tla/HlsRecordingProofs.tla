-------------------------- MODULE HlsRecordingProofs --------------------------
(***************************************************************************)
(* HlsRecording proved for every window, number of segments and failures,  *)
(* in every mode: what is recorded is what was downloaded, in that order,  *)
(* no thread is left when the downloader is deleted, and no file is        *)
(* deleted that the local playlist names.                                  *)
(*                                                                         *)
(* That no thread is left rests on when each is started (ThreadsInv): the  *)
(* worker only by the main thread, before the flag that says so is set,    *)
(* and Stop joins the main thread before the destructor reads the flag     *)
(* again.  ThreadsInv also has b_live: as Run read it until the loop       *)
(* begins, because only the reload thread clears it.  That the order is    *)
(* kept needs the queue not to be empty while the worker has its front     *)
(* (FrontInv).                                                             *)
(*                                                                         *)
(* That no file the local playlist names is deleted rests on the segments  *)
(* being in order wherever they are (OrderInv), so that the oldest of more *)
(* than three playlists of files is three windows behind the newest, and   *)
(* on the playlist being at most one window behind what is queued          *)
(* (ListInv).  What numbers a new playlist adds is AddedSegments.          *)
(***************************************************************************)
EXTENDS HlsRecording, FiniteSetTheorems, SequenceTheorems, TLAPS

ThreadsInv ==
  /\ mainPc # "none"
  /\ mainPc \in {"getm3u8", "start"} => savePc = "none"
  /\ mainPc \in {"getm3u8", "start", "valid", "begin"} => reloadPc = "none"
  /\ savePc # "none" => m_bWorkThreadValid \/ mainPc = "valid"
  /\ mainPc = "done" => ~Running(reloadPc)
  /\ api \in {"destroy", "deleted"} => ~Running(mainPc)
  /\ api = "deleted" => ~Running(savePc)
  /\ mainPc = "getm3u8" => (ended <=> ~sliding)
  /\ mainPc \in {"start", "valid", "begin"} => (b_live <=> sliding)

FrontInv ==
  /\ mainPc = "get" => m_dqTsUrl # <<>>
  /\ savePc \in {"write", "pop"} => m_dqTsBuffer # <<>>

-----------------------------------------------------------------------------
(* What a new playlist adds: so many numbers below its last one. *)
LEMMA NewSegmentsTyped ==
  ASSUME published \in Nat, NEW old \in Nat
  PROVE  LET new == Segments(published) \ Segments(old)
             low == published - Cardinality(new)
         IN [i \in 1 .. Cardinality(new) |-> low + i] \in Seq(Nat)
<1> DEFINE new == Segments(published) \ Segments(old)
<1>1. new \subseteq 1 .. published
  <2>1. First(published) >= 1
    <3>1. CASE sliding /\ published > Window
      BY <3>1, RecordingAssumption DEF First
    <3>2. CASE ~(sliding /\ published > Window)
      BY <3>2 DEF First
    <3> QED BY <3>1, <3>2
  <2>2. First(published) \in Int
    BY RecordingAssumption DEF First
  <2> QED BY <2>1, <2>2 DEF Segments
<1>2. IsFiniteSet(1 .. published) /\ Cardinality(1 .. published) = published
  BY FS_Interval
<1>3. Cardinality(new) \in Nat /\ Cardinality(new) <= published
  BY <1>1, <1>2, FS_Subset, FS_CardinalityType
<1> HIDE DEF new
<1> DEFINE added == [i \in 1 .. Cardinality(new) |-> published - Cardinality(new) + i]
<1>4. \A i \in 1 .. Cardinality(new) : published - Cardinality(new) + i \in Nat
  BY <1>3
<1>5. added \in Seq(Nat)
  BY <1>3, <1>4, IsASeq
<1> QED BY <1>5 DEF new

(* The segments of a playlist are a natural number of them. *)
LEMMA SegmentsCounted ==
  ASSUME NEW n \in Nat PROVE Cardinality(Segments(n)) \in Nat
<1>1. First(n) \in Int
  BY RecordingAssumption DEF First
<1>2. IsFiniteSet(First(n) .. n)
  BY <1>1, FS_Interval
<1> QED BY <1>2, FS_CardinalityType DEF Segments

(* Init is well typed. *)
LEMMA InitTypes == Init => TypeOK
<1> SUFFICES ASSUME Init PROVE TypeOK
  OBVIOUS
<1>1. ControlOK
  <2>0. PICK s \in Starts : sliding = s.live /\ published = s.published
    BY DEF Init
  <2>1. sliding \in BOOLEAN /\ published \in 0 .. MaxSegments /\ failures \in 0 .. MaxFailures
    BY <2>0, RecordingAssumption DEF Init
  <2>2. m_segment_count \in Nat
    BY DEF Init
  <2> QED BY <2>1, <2>2 DEF Init, ControlOK
<1>2. disk \subseteq Nat
  <2>1. PICK n \in 0 .. published : disk = IF sliding THEN {} ELSE 1 .. n
    BY DEF Init
  <2>2. 1 .. n \subseteq Nat
    OBVIOUS
  <2> QED BY <2>1, <2>2
<1>3. QueuesOK
  BY <1>2, EmptySeq DEF Init, QueuesOK
<1> QED BY <1>1, <1>3 DEF TypeOK

(* Writing a playlist keeps the types. *)
LEMMA WriteTyped ==
  ASSUME TypeOK, NEW n \in Nat, WriteM3u8(n)
  PROVE  m3u8' \in Nat /\ m3u8Late' \in BOOLEAN /\ failures' \in 0 .. MaxFailures
<1>1. CASE m3u8' = n /\ m3u8Late' = FALSE /\ UNCHANGED failures
  BY <1>1 DEF TypeOK, ControlOK
<1>2. CASE m3u8' = m3u8 /\ m3u8Late' = TRUE /\ Fails
  BY <1>2, RecordingAssumption DEF TypeOK, ControlOK, QueuesOK, Fails
<1> QED BY <1>1, <1>2 DEF WriteM3u8

(* The main thread keeps the types. *)
LEMMA MainTypes == TypeOK /\ FrontInv /\ Main => TypeOK'
<1> SUFFICES ASSUME TypeOK, FrontInv, Main PROVE TypeOK'
  OBVIOUS
<1> USE DEF TypeOK
<1>n. m_lstOldSegments \in Nat /\ published \in Nat
  BY RecordingAssumption DEF QueuesOK, ControlOK
<1>1. CASE RunFails \/ RunJoin
  <2>1. /\ UNCHANGED <<source, api, flags, startVars, reloadPc, savePc, failures>>
        /\ mainPc' = "done"
    BY <1>1 DEF RunFails, RunJoin, notMain, loopOnly, listed
  <2>2. UNCHANGED <<listed, urlVars, queueVars, fileVars, listVars, missing>>
    BY <1>1 DEF RunFails, RunJoin, notMain, loopOnly, listed, urlVars
  <2>3. ControlOK'
    BY <2>1 DEF source, flags, startVars, ControlOK
  <2>4. QueuesOK'
    BY <2>2 DEF listed, urlVars, queueVars, fileVars, listVars, QueuesOK
  <2> QED BY <2>3, <2>4
<1>2. CASE RunSelectStream \/ RunSaveValid
  <2>1. /\ m_lstOldSegments' \in Nat /\ oldEnded' \in BOOLEAN /\ b_live' \in BOOLEAN
        /\ m_bWorkThreadValid' \in BOOLEAN /\ mainPc' \in {"start", "begin"}
        /\ UNCHANGED <<notMain, reloadPc, savePc, m_segment_count, m_dqTsUrl, url, queueVars,
                       listVars, missing, failures>>
    BY <1>n, <1>2 DEF RunSelectStream, RunSaveValid, startVars, urlVars, listed, ControlOK,
       QueuesOK
  <2>2. ControlOK'
    BY <2>1 DEF notMain, source, flags, ControlOK
  <2>3. QueuesOK'
    BY <2>1 DEF notMain, fileVars, queueVars, listVars, QueuesOK
  <2> QED BY <2>2, <2>3
<1>3. CASE RunStartSave
  <2>1. m_segment_count' \in Nat
    BY <1>n, <1>3, SegmentsCounted DEF RunStartSave
  <2> QED BY <1>3, <2>1 DEF RunStartSave, notMain, source, flags, fileVars, listed, urlVars,
       queueVars, listVars, ControlOK, QueuesOK
<1>4. CASE RunLive
  BY <1>4 DEF RunLive, notMain, source, flags, fileVars, startVars, listed, urlVars,
       queueVars, listVars, ControlOK, QueuesOK
<1>5. CASE RunVod
  <2>1. m_dqTsUrl' \in Seq(Nat)
    <3> DEFINE all == [i \in 1 .. m_lstOldSegments |-> i]
    <3>1. all \in Seq(Nat)
      BY <1>n, IsASeq
    <3> QED BY <1>5, <3>1 DEF RunVod, listed
  <2>2. m3u8' \in Nat /\ m3u8Late' \in BOOLEAN /\ failures' \in 0 .. MaxFailures
    BY <1>n, <1>5, WriteTyped DEF RunVod, listed
  <2> QED BY <1>5, <2>1, <2>2 DEF RunVod, notMain, source, flags, fileVars, startVars,
       queueVars, ControlOK, QueuesOK, listed
<1>6. CASE Loop
  <2>1. /\ UNCHANGED loopOnly
        /\ mainPc' \in {"join", "get", "loop", "handover"}
    BY <1>6 DEF Loop, LoopEnds, LoopHead, LoopSkip, LoopTimeout, LoopFails, LoopDownloaded,
         LoopHandOver, listed, urlVars
  <2>2. failures' \in 0 .. MaxFailures
    BY <1>6, RecordingAssumption DEF Loop, LoopEnds, LoopHead, LoopSkip, LoopTimeout,
         LoopFails, LoopDownloaded, LoopHandOver, Fails, ControlOK
  <2>3. ControlOK'
    BY <2>1, <2>2 DEF loopOnly, notMain, source, flags, fileVars, startVars, ControlOK,
         listed
  <2>4. m_dqTsUrl' \in Seq(Nat)
    <3>1. CASE LoopSkip \/ LoopFails \/ LoopDownloaded
      <4>1. m_dqTsUrl' = Tail(m_dqTsUrl) /\ m_dqTsUrl # <<>>
        BY <3>1 DEF LoopSkip, LoopFails, LoopDownloaded, FrontInv
      <4> QED BY <4>1, HeadTailProperties DEF QueuesOK
    <3>2. CASE LoopEnds \/ LoopHead \/ LoopTimeout \/ LoopHandOver
      BY <3>2 DEF LoopEnds, LoopHead, LoopTimeout, LoopHandOver, listed, urlVars, QueuesOK
    <3> QED BY <1>6, <3>1, <3>2 DEF Loop
  <2>5. url' \in Nat /\ missing' \subseteq Nat
    BY <1>6, HeadTailProperties DEF Loop, LoopEnds, LoopHead, LoopSkip, LoopTimeout,
         LoopFails, LoopDownloaded, LoopHandOver, listed, urlVars, QueuesOK
  <2>6. m_dqTsBuffer' \in Seq(Nat) /\ downloaded' \in Seq(Nat)
    <3>1. CASE LoopHandOver
      <4>1. m_dqTsBuffer' = Append(m_dqTsBuffer, url) /\ downloaded' = Append(downloaded, url)
        BY <3>1 DEF LoopHandOver
      <4> QED BY <4>1, AppendProperties DEF QueuesOK
    <3>2. CASE ~LoopHandOver
      BY <1>6, <3>2 DEF Loop, LoopEnds, LoopHead, LoopSkip, LoopTimeout, LoopFails,
           LoopDownloaded, queueVars, QueuesOK
    <3> QED BY <3>1, <3>2
  <2>7. QueuesOK'
    BY <2>1, <2>4, <2>5, <2>6 DEF loopOnly, notMain, fileVars, listVars, QueuesOK, listed
  <2> QED BY <2>3, <2>7
<1> QED BY <1>1, <1>2, <1>3, <1>4, <1>5, <1>6 DEF Main

(* The reload thread keeps the types. *)
LEMMA ReloadTypes == TypeOK /\ Reload => TypeOK'
<1> SUFFICES ASSUME TypeOK, Reload PROVE TypeOK'
  OBVIOUS
<1> USE DEF TypeOK
<1>n. m_lstOldSegments \in Nat /\ published \in Nat
  BY RecordingAssumption DEF QueuesOK, ControlOK
<1>1. CASE ReloadStops \/ ReloadEnd
  <2>1. /\ b_live' \in BOOLEAN /\ reloadPc' \in {"check", "done"}
        /\ UNCHANGED <<notReload, m_lstOldSegments, oldEnded, m_dqTsUrl, listVars, failures>>
    BY <1>1 DEF ReloadStops, ReloadEnd, listed, QueuesOK
  <2>2. ControlOK'
    BY <2>1 DEF notReload, source, flags, startVars, ControlOK
  <2>3. QueuesOK'
    BY <2>1 DEF notReload, fileVars, queueVars, listVars, QueuesOK
  <2> QED BY <2>2, <2>3
<1>2. CASE ReloadNew
  <2>1. m_dqTsUrl' \in Seq(Nat)
    <3> DEFINE new == Segments(published) \ Segments(m_lstOldSegments)
               added == [i \in 1 .. Cardinality(new) |-> published - Cardinality(new) + i]
    <3>1. added \in Seq(Nat)
      BY <1>n, NewSegmentsTyped
    <3>2. m_dqTsUrl' = m_dqTsUrl \o added /\ m_dqTsUrl \in Seq(Nat)
      BY <1>2 DEF ReloadNew, QueuesOK, listed
    <3> HIDE DEF added
    <3> QED BY <3>1, <3>2, ConcatProperties
  <2> QED BY <1>n, <1>2, <2>1 DEF ReloadNew, notReload, source, flags, fileVars, startVars,
       queueVars, listVars, ControlOK, QueuesOK, listed
<1>3. CASE ReloadWrite
  <2>1. m3u8' \in Nat /\ m3u8Late' \in BOOLEAN /\ failures' \in 0 .. MaxFailures
    BY <1>n, <1>3, WriteTyped DEF ReloadWrite, listed
  <2> QED BY <1>3, <2>1 DEF ReloadWrite, notReload, source, flags, fileVars, startVars,
       queueVars, ControlOK, QueuesOK, listed
<1> QED BY <1>1, <1>2, <1>3 DEF Reload

(* The worker keeps the types. *)
LEMMA SaveTypes == TypeOK /\ FrontInv /\ Save => TypeOK'
<1> SUFFICES ASSUME TypeOK, FrontInv, Save PROVE TypeOK'
  OBVIOUS
<1> USE DEF TypeOK
<1>1. /\ UNCHANGED notSave
      /\ savePc' \in {"check", "front", "write", "pop", "done"}
  BY DEF Save, SaveCheck, SaveFront, SaveFails, SaveWrite, SavePop
<1>2. failures' \in 0 .. MaxFailures
  BY RecordingAssumption DEF Save, SaveCheck, SaveFront, SaveFails, SaveWrite, SavePop,
       Fails, ControlOK
<1>3. ControlOK'
  BY <1>1, <1>2 DEF notSave, source, flags, startVars, ControlOK, listed
<1>4. CASE SaveCheck \/ SaveFront
  BY <1>1, <1>3, <1>4 DEF SaveCheck, SaveFront, notSave, listed, urlVars, fileVars,
       listVars, QueuesOK
<1>5. CASE SaveFails \/ SaveWrite
  <2> DEFINE ts == Head(m_dqTsBuffer)
  <2>1. ts \in Nat
    BY <1>5, HeadTailProperties DEF SaveFails, SaveWrite, FrontInv, QueuesOK
  <2>2. /\ taken' = Append(taken, ts) /\ UNCHANGED m_dqTsBuffer
        /\ disk' \subseteq disk \cup {ts} /\ missing' \subseteq missing \cup {ts}
    BY <1>5 DEF SaveFails, SaveWrite
  <2>3. taken' \in Seq(Nat)
    BY <2>1, <2>2, AppendProperties DEF QueuesOK
  <2>4. disk' \subseteq Nat /\ missing' \subseteq Nat
    BY <2>1, <2>2 DEF QueuesOK
  <2> QED BY <1>1, <1>3, <2>2, <2>3, <2>4 DEF notSave, listed, urlVars, listVars, QueuesOK
<1>6. CASE SavePop
  <2>1. m_dqTsBuffer' \in Seq(Nat)
    BY <1>6, HeadTailProperties DEF SavePop, FrontInv, QueuesOK
  <2> QED BY <1>1, <1>3, <1>6, <2>1 DEF SavePop, notSave, listed, urlVars, fileVars,
       listVars, QueuesOK
<1> QED BY <1>4, <1>5, <1>6 DEF Save

(* A queue something was appended to is not empty. *)
LEMMA AppendedNotEmpty ==
  ASSUME NEW S, NEW q \in Seq(S), NEW e \in S
  PROVE  Append(q, e) # <<>>
  BY AppendProperties, Zenon

(* MainLoop and the worker find the segment they saw at the front of their queue. *)
LEMMA FrontKept == TypeOK /\ FrontInv /\ [Next]_vars => FrontInv'
<1> SUFFICES ASSUME TypeOK, FrontInv, [Next]_vars PROVE FrontInv'
  OBVIOUS
<1> USE DEF FrontInv
<1>1. CASE Save
  BY <1>1 DEF Save, SaveCheck, SaveFront, SaveFails, SaveWrite, SavePop, notSave, listed,
       urlVars
<1>2. CASE LoopHandOver
  <2>1. m_dqTsBuffer' = Append(m_dqTsBuffer, url) /\ mainPc' = "loop"
    BY <1>2 DEF LoopHandOver
  <2>2. m_dqTsBuffer \in Seq(Nat) /\ url \in Nat
    BY DEF TypeOK, QueuesOK
  <2>3. Append(m_dqTsBuffer, url) # <<>>
    BY <2>2, AppendedNotEmpty
  <2> QED BY <2>1, <2>3
<1>3. CASE RunStartSave
  BY <1>3 DEF RunStartSave
<1>4. CASE Main /\ ~RunStartSave /\ ~LoopHandOver
  BY <1>4 DEF Main, RunFails, RunSelectStream, RunSaveValid, RunLive, RunVod, RunJoin, Loop,
       LoopEnds, LoopHead, LoopSkip, LoopTimeout, LoopFails, LoopDownloaded, loopOnly,
       notMain, queueVars, listed
<1>5. CASE Reload
  <2>1. UNCHANGED <<mainPc, savePc, m_dqTsBuffer>>
    BY <1>5 DEF Reload, ReloadStops, ReloadEnd, ReloadNew, ReloadWrite, notReload,
         queueVars, listed
  <2>2. m_dqTsUrl # <<>> => m_dqTsUrl' # <<>>
    <3>1. CASE ReloadNew
      <4> DEFINE new == Segments(published) \ Segments(m_lstOldSegments)
                 added == [i \in 1 .. Cardinality(new) |-> published - Cardinality(new) + i]
      <4>1. m_lstOldSegments \in Nat /\ published \in Nat
        BY RecordingAssumption DEF TypeOK, QueuesOK, ControlOK
      <4>2. added \in Seq(Nat) /\ m_dqTsUrl \in Seq(Nat)
        BY <4>1, NewSegmentsTyped DEF TypeOK, QueuesOK
      <4>3. m_dqTsUrl' = m_dqTsUrl \o added
        BY <3>1 DEF ReloadNew, listed
      <4> HIDE DEF added
      <4>4. m_dqTsUrl' \in Seq(Nat) /\ Len(m_dqTsUrl') = Len(m_dqTsUrl) + Len(added)
        BY <4>2, <4>3, ConcatProperties
      <4> QED BY <4>2, <4>4, EmptySeq, LenProperties
    <3>2. CASE ReloadStops \/ ReloadEnd \/ ReloadWrite
      BY <3>2 DEF ReloadStops, ReloadEnd, ReloadWrite, listed
    <3> QED BY <1>5, <3>1, <3>2 DEF Reload
  <2> QED BY <2>1, <2>2
<1>6. CASE Server \/ StopFlag \/ Stop \/ Deleted \/ UNCHANGED vars
  BY <1>6 DEF Server, Publish, End, notServer, StopFlag, Stop, StopCancel, StopSave,
       StopTestValid, StopJoinSave,
       StopJoinMain, DestroyJoinSave, notApi, Deleted, vars, listed, urlVars, queueVars
<1> QED BY <1>1, <1>2, <1>3, <1>4, <1>5, <1>6 DEF Next

(* The types are kept. *)
LEMMA AlwaysTyped == Spec => [](TypeOK /\ FrontInv)
<1>1. Init => FrontInv
  BY DEF Init, FrontInv
<1>2. TypeOK /\ FrontInv /\ [Next]_vars => TypeOK'
  <2> SUFFICES ASSUME TypeOK, FrontInv, [Next]_vars PROVE TypeOK'
    OBVIOUS
  <2>1. CASE Server
    <3>1. UNCHANGED notServer /\ published' \in 0 .. MaxSegments /\ ended' \in BOOLEAN
      <4>1. published \in 0 .. MaxSegments /\ ended \in BOOLEAN /\ MaxSegments \in Nat
        BY RecordingAssumption DEF TypeOK, ControlOK
      <4>2. CASE Publish
        <5>1. published < MaxSegments /\ published' = published + 1 /\ ended' = ended
          BY <4>2 DEF Publish
        <5>2. UNCHANGED notServer
          BY <4>2 DEF Publish
        <5>3. published' \in 0 .. MaxSegments
          BY <4>1, <5>1
        <5> QED BY <4>1, <5>1, <5>2, <5>3, Zenon
      <4>3. CASE End
        <5>1. published' = published /\ ended' = TRUE /\ UNCHANGED notServer
          BY <4>3 DEF End
        <5> QED BY <4>1, <5>1, Zenon
      <4> QED BY <2>1, <4>2, <4>3 DEF Server
    <3>2. ControlOK'
      BY <3>1 DEF notServer, flags, startVars, TypeOK, ControlOK
    <3>3. QueuesOK'
      BY <3>1 DEF notServer, urlVars, listed, queueVars, fileVars, listVars, TypeOK, QueuesOK
    <3> QED BY <3>2, <3>3 DEF TypeOK
  <2>2. CASE StopFlag \/ Stop
    <3>1. /\ notApi' = notApi
          /\ m_bStop' \in BOOLEAN /\ m_bActiveStop' \in BOOLEAN /\ m_bSaveStop' \in BOOLEAN
          /\ api' \in {"cancel", "stopsave", "testvalid", "joinsave", "joinmain", "destroy",
                       "deleted"}
      BY <2>2 DEF StopFlag, Stop, StopCancel, StopSave, StopTestValid, StopJoinSave,
           StopJoinMain, DestroyJoinSave, flags, TypeOK, ControlOK
    <3>2. ControlOK'
      BY <3>1 DEF notApi, source, startVars, TypeOK, ControlOK
    <3>3. QueuesOK'
      BY <3>1 DEF notApi, listed, urlVars, queueVars, fileVars, listVars, TypeOK, QueuesOK
    <3> QED BY <3>2, <3>3 DEF TypeOK
  <2>3. CASE Deleted \/ UNCHANGED vars
    <3>1. UNCHANGED vars
      BY <2>3 DEF Deleted
    <3>2. ControlOK'
      BY <3>1 DEF vars, source, flags, startVars, TypeOK, ControlOK
    <3>3. QueuesOK'
      BY <3>1 DEF vars, listed, urlVars, queueVars, fileVars, listVars, TypeOK, QueuesOK
    <3> QED BY <3>2, <3>3 DEF TypeOK
  <2> QED BY <2>1, <2>2, <2>3, MainTypes, ReloadTypes, SaveTypes DEF Next
<1> QED BY <1>1, <1>2, InitTypes, FrontKept, PTL DEF Spec

(* The threads, the flags and the queues keep their types: the worker never
   takes the front of an empty queue. *)
THEOREM TypeCorrect == Spec => []TypeOK
  BY AlwaysTyped, PTL

-----------------------------------------------------------------------------
(* No thread is left *)

(* Every step keeps what is known of the threads. *)
LEMMA ThreadsKept == ThreadsInv /\ [Next]_vars => ThreadsInv'
<1> SUFFICES ASSUME ThreadsInv, [Next]_vars PROVE ThreadsInv'
  OBVIOUS
<1> USE DEF ThreadsInv, Running
<1>0. CASE RunSelectStream
  <2>1. /\ mainPc = "getm3u8" /\ mainPc' = "start" /\ b_live' = ~ended
        /\ UNCHANGED <<sliding, ended, reloadPc, savePc, api, m_bWorkThreadValid>>
    BY <1>0 DEF RunSelectStream, notMain, source, startVars
  <2>2. b_live' <=> sliding'
    BY <2>1, Zenon
  <2> QED BY <2>1, <2>2
<1>1. CASE RunFails \/ RunStartSave \/ RunLive \/ RunVod \/ RunJoin
  <2>1. UNCHANGED <<sliding, api, m_bWorkThreadValid>>
    BY <1>1 DEF RunFails, RunStartSave, RunLive, RunVod, RunJoin, loopOnly, notMain, source,
         startVars
  <2>2. mainPc' \in {"valid", "loop", "done"}
    BY <1>1 DEF RunFails, RunStartSave, RunLive, RunVod, RunJoin
  <2>3. mainPc' = "valid" => (b_live' <=> sliding')
    <3>1. CASE RunStartSave
      <4>1. mainPc = "start" /\ b_live' = b_live
        BY <3>1 DEF RunStartSave, urlVars, listed
      <4> QED BY <2>1, <4>1
    <3>2. CASE RunFails \/ RunLive \/ RunVod \/ RunJoin
      BY <3>2 DEF RunFails, RunLive, RunVod, RunJoin
    <3> QED BY <1>1, <3>1, <3>2
  <2> QED BY <1>1, <2>1, <2>2, <2>3 DEF RunFails, RunStartSave, RunLive, RunVod, RunJoin,
       loopOnly, notMain, startVars
<1>2. CASE RunSaveValid
  <2>1. /\ mainPc = "valid" /\ mainPc' = "begin" /\ UNCHANGED <<api, reloadPc, savePc>>
        /\ savePc # "none" => m_bWorkThreadValid'
        /\ UNCHANGED <<sliding, b_live>>
    BY <1>2 DEF RunSaveValid, notMain, source, urlVars, listed
  <2> QED BY <2>1
<1>3. CASE Loop
  <2>1. /\ mainPc \in {"loop", "get", "handover"}
        /\ mainPc' \in {"loop", "get", "handover", "join"}
        /\ UNCHANGED <<api, reloadPc, savePc, m_bWorkThreadValid>>
    BY <1>3 DEF Loop, LoopEnds, LoopHead, LoopSkip, LoopTimeout, LoopFails, LoopDownloaded,
         LoopHandOver, loopOnly, notMain, startVars, listed
  <2> QED BY <2>1
<1>4. CASE Reload
  <2>1. /\ reloadPc \in {"check", "write"} /\ reloadPc' # "none"
        /\ UNCHANGED <<mainPc, savePc, api, m_bWorkThreadValid>>
    BY <1>4 DEF Reload, ReloadStops, ReloadEnd, ReloadNew, ReloadWrite, notReload, startVars
  <2>2. mainPc \notin {"getm3u8", "start", "valid", "begin"} /\ mainPc # "done"
    BY <2>1
  <2> QED BY <2>1, <2>2
<1>5. CASE Save
  <2>1. UNCHANGED <<mainPc, reloadPc, api, m_bWorkThreadValid, sliding, ended, b_live>>
    BY <1>5 DEF Save, SaveCheck, SaveFront, SaveFails, SaveWrite, SavePop, notSave, startVars,
         source, urlVars, listed
  <2>2. savePc \notin {"none", "done"} /\ savePc' # "none"
    BY <1>5 DEF Save, SaveCheck, SaveFront, SaveFails, SaveWrite, SavePop
  <2> QED BY <2>1, <2>2
<1>6. CASE StopFlag \/ Stop
  <2>1. UNCHANGED <<mainPc, reloadPc, savePc, m_bWorkThreadValid, sliding, ended, b_live>>
    BY <1>6 DEF StopFlag, Stop, StopCancel, StopSave, StopTestValid, StopJoinSave, StopJoinMain,
         DestroyJoinSave, notApi, startVars, source, urlVars, listed
  <2>2. /\ api' \in {"destroy", "deleted"} => ~Running(mainPc)
        /\ api' = "deleted" => ~Running(savePc)
    BY <1>6 DEF StopFlag, Stop, StopCancel, StopSave, StopTestValid, StopJoinSave, StopJoinMain,
         DestroyJoinSave
  <2> QED BY <2>1, <2>2
<1>7. CASE Server
  <2>1. UNCHANGED <<mainPc, reloadPc, savePc, api, m_bWorkThreadValid, sliding, b_live>>
    BY <1>7 DEF Server, Publish, End, notServer, startVars, urlVars, listed
  <2>2. mainPc = "getm3u8" => UNCHANGED ended
    BY <1>7 DEF Server, Publish, End
  <2> QED BY <2>1, <2>2
<1>8. CASE Deleted \/ UNCHANGED vars
  BY <1>8 DEF Deleted, vars, startVars, source, urlVars, listed
<1> QED BY <1>0, <1>1, <1>2, <1>3, <1>4, <1>5, <1>6, <1>7, <1>8 DEF Next, Main

(* What is known of the threads holds in every reachable state. *)
LEMMA AlwaysThreads == Spec => []ThreadsInv
<1>1. Init => ThreadsInv
  BY DEF Init, ThreadsInv, Running
<1> QED BY <1>1, ThreadsKept, PTL DEF Spec

(* No thread of the downloader is left when it is deleted, wherever Stop came
   between the start of the worker and the flag that says it was started. *)
THEOREM NoThreadLeft == Spec => []NoThreadOnDelete
<1>1. ThreadsInv => NoThreadOnDelete
  BY DEF ThreadsInv, NoThreadOnDelete, Running
<1> QED BY <1>1, AlwaysThreads, PTL

-----------------------------------------------------------------------------
(* Nothing left out, nothing twice *)

waiting == IF savePc = "pop" THEN Tail(m_dqTsBuffer) ELSE m_dqTsBuffer

(* An element put behind two sequences is behind the second. *)
LEMMA PutBehind ==
  ASSUME NEW s \in Seq(Nat), NEW t \in Seq(Nat), NEW e \in Nat
  PROVE  (s \o t) \o <<e>> = s \o (t \o <<e>>)
<1>1. <<e>> \in Seq(Nat)
  OBVIOUS
<1> QED BY <1>1, ConcatAssociative, SMTT(30)

(* What is handed over is at the end of what waits. *)
LEMMA HandOverOrder ==
  ASSUME TypeOK, FrontInv, RecordedAsDownloaded, LoopHandOver
  PROVE  RecordedAsDownloaded'
<1>1. /\ downloaded' = Append(downloaded, url) /\ m_dqTsBuffer' = Append(m_dqTsBuffer, url)
      /\ UNCHANGED <<taken, savePc>> /\ url \in Nat
  BY DEF LoopHandOver, loopOnly, notMain, fileVars, TypeOK, QueuesOK, listed
<1>2. waiting \in Seq(Nat) /\ taken \in Seq(Nat) /\ downloaded \in Seq(Nat)
  BY HeadTailProperties DEF waiting, FrontInv, TypeOK, QueuesOK
<1>3. waiting' = Append(waiting, url)
  <2>1. CASE savePc = "pop"
    <3>1. m_dqTsBuffer # <<>> /\ m_dqTsBuffer \in Seq(Nat)
      BY <2>1 DEF FrontInv, TypeOK, QueuesOK
    <3>2. Tail(Append(m_dqTsBuffer, url)) = Append(Tail(m_dqTsBuffer), url)
      BY <1>1, <3>1, HeadTailAppend
    <3> QED BY <1>1, <2>1, <3>2 DEF waiting
  <2>2. CASE savePc # "pop"
    BY <1>1, <2>2 DEF waiting
  <2> QED BY <2>1, <2>2
<1>4. downloaded = taken \o waiting
  BY DEF RecordedAsDownloaded, waiting
<1> HIDE DEF waiting
<1>5. downloaded' = (taken \o waiting) \o <<url>> /\ waiting' = waiting \o <<url>>
  BY <1>1, <1>2, <1>3, <1>4, AppendIsConcat
<1>6. downloaded' = taken' \o waiting'
  <2>1. taken \in Seq(Nat) /\ waiting \in Seq(Nat) /\ url \in Nat
    BY <1>1, <1>2
  <2>2. (taken \o waiting) \o <<url>> = taken \o (waiting \o <<url>>)
    BY <2>1, PutBehind, Zenon
  <2> QED BY <1>1, <1>5, <2>2, Zenon
<1> QED BY <1>6 DEF RecordedAsDownloaded, waiting

(* An element may go from the front of a sequence to the end of another. *)
LEMMA MoveFront ==
  ASSUME NEW s \in Seq(Nat), NEW e \in Nat, NEW t \in Seq(Nat)
  PROVE  s \o (<<e>> \o t) = (s \o <<e>>) \o t
<1>1. <<e>> \in Seq(Nat)
  OBVIOUS
<1> QED BY <1>1, ConcatAssociative, SMTT(30)

(* What the worker has written is taken from the front of what waits. *)
LEMMA TakeOrder ==
  ASSUME TypeOK, FrontInv, RecordedAsDownloaded, SaveFails \/ SaveWrite
  PROVE  RecordedAsDownloaded'
<1> DEFINE ts == Head(m_dqTsBuffer)
           rest == Tail(m_dqTsBuffer)
<1>1. /\ m_dqTsBuffer \in Seq(Nat) /\ m_dqTsBuffer # <<>> /\ taken \in Seq(Nat)
      /\ savePc = "write" /\ savePc' = "pop"
      /\ taken' = Append(taken, ts) /\ UNCHANGED <<m_dqTsBuffer, downloaded>>
  BY DEF SaveFails, SaveWrite, notSave, FrontInv, TypeOK, QueuesOK, listed
<1>2. ts \in Nat /\ rest \in Seq(Nat)
  BY <1>1, HeadTailProperties
<1>3. m_dqTsBuffer = <<ts>> \o rest
  BY <1>1
<1>4. downloaded' = taken \o m_dqTsBuffer
  BY <1>1 DEF RecordedAsDownloaded
<1> HIDE DEF ts, rest
<1>5. taken' = taken \o <<ts>> /\ <<ts>> \in Seq(Nat)
  BY <1>1, <1>2, AppendIsConcat
<1>6. downloaded' = taken' \o rest
  <2>1. taken \o (<<ts>> \o rest) = (taken \o <<ts>>) \o rest
    <3>1. taken \in Seq(Nat) /\ ts \in Nat /\ rest \in Seq(Nat)
      BY <1>1, <1>2
    <3> QED BY <3>1, MoveFront, Zenon
  <2> QED BY <1>3, <1>4, <1>5, <2>1, Zenon
<1>7. rest = Tail(m_dqTsBuffer')
  BY <1>1 DEF rest
<1> QED BY <1>1, <1>6, <1>7 DEF RecordedAsDownloaded

(* The files are written in the order of the downloads, none is left out and
   none written twice, however the main thread and the worker interleave. *)
THEOREM RecordingInOrder == Spec => []RecordedAsDownloaded
<1>1. Init => RecordedAsDownloaded
  BY ConcatEmptySeq, EmptySeq DEF Init, RecordedAsDownloaded
<1>2. TypeOK /\ FrontInv /\ ThreadsInv /\ RecordedAsDownloaded /\ [Next]_vars
        => RecordedAsDownloaded'
  <2> SUFFICES ASSUME TypeOK, FrontInv, ThreadsInv, RecordedAsDownloaded, [Next]_vars
               PROVE RecordedAsDownloaded'
    OBVIOUS
  <2>1. CASE LoopHandOver
    BY <2>1, HandOverOrder
  <2>2. CASE SaveFails \/ SaveWrite
    BY <2>2, TakeOrder
  <2>3. CASE SaveCheck \/ SaveFront \/ SavePop
    BY <2>3 DEF SaveCheck, SaveFront, SavePop, notSave, fileVars, RecordedAsDownloaded,
         listed
  <2>4. CASE RunStartSave
    BY <2>4 DEF RunStartSave, notMain, fileVars, queueVars, RecordedAsDownloaded, ThreadsInv
  <2>5. CASE \/ Server \/ Reload \/ StopFlag \/ Stop \/ Deleted \/ UNCHANGED vars
             \/ (Main /\ ~RunStartSave /\ ~LoopHandOver)
    <3>1. UNCHANGED <<savePc, m_dqTsBuffer, taken, downloaded>>
      BY <2>5 DEF Server, Publish, End, notServer, Reload, ReloadStops, ReloadEnd,
           ReloadNew, ReloadWrite, notReload, StopFlag, Stop, StopCancel, StopSave,
           StopTestValid, StopJoinSave, StopJoinMain, DestroyJoinSave, notApi, Deleted,
           vars, Main, RunFails, RunSelectStream, RunSaveValid, RunLive, RunVod, RunJoin,
           Loop, LoopEnds, LoopHead, LoopSkip, LoopTimeout, LoopFails, LoopDownloaded,
           loopOnly, notMain, fileVars, queueVars, listed
    <3> QED BY <3>1 DEF RecordedAsDownloaded
  <2> QED BY <2>1, <2>2, <2>3, <2>4, <2>5 DEF Next, Save
<1> QED BY <1>1, <1>2, AlwaysTyped, AlwaysThreads, PTL DEF Spec

-----------------------------------------------------------------------------
(* Files are deleted only when the playlist no longer names them *)

\* apart: the distance of two segments in a queue is at most that of their numbers
Rising(s) == \A i, j \in DOMAIN s : i <= j => s[i] + (j - i) <= s[j]

\* the segments the worker has written, that wait for it, that MainLoop is about
\* to hand over, and that it has yet to download
Written == ToSet(m_lstTsHistory)
Unwritten == ToSet(waiting)
AtHand == IF mainPc = "handover" THEN {url} ELSE {}
Wanted == ToSet(m_dqTsUrl)
Seen == Written \cup Unwritten \cup AtHand \cup Wanted

\* each place holds later segments than the one before it
OrderInv ==
  /\ m_lstTsHistory \in Seq(Nat)
  /\ Rising(m_lstTsHistory) /\ Rising(waiting) /\ Rising(m_dqTsUrl)
  /\ \A x \in Written, y \in Unwritten \cup AtHand \cup Wanted : x < y
  /\ \A x \in Unwritten, y \in AtHand \cup Wanted : x < y
  /\ \A x \in AtHand, y \in Wanted : x < y
  /\ mainPc = "get" => url = Head(m_dqTsUrl)
  /\ \A x \in Seen : 1 <= x /\ x <= m_lstOldSegments

Starting == mainPc \in {"getm3u8", "start", "valid", "begin"}

StartInv ==
  /\ m_lstOldSegments <= published
  /\ Starting => /\ m_lstTsHistory = <<>> /\ m_dqTsBuffer = <<>> /\ m_dqTsUrl = <<>>
                 /\ removed = {} /\ m3u8 = 0
  /\ savePc = "none" => removed = {} /\ m_lstTsHistory = <<>>
  /\ ~sliding => /\ reloadPc = "none" /\ removed = {}
                 /\ savePc # "none" => m_segment_count = m_lstOldSegments

Listed == m3u8 # 0 /\ ~m3u8Late

\* while a playlist waits to be written, at most Window segments that it adds
\* are anywhere; what was deleted is three windows behind
ListInv ==
  /\ Listed => /\ m3u8 <= m_lstOldSegments
               /\ reloadPc # "write" => m3u8 = m_lstOldSegments
               /\ \A y \in Seen : y <= m3u8 \/ m_lstOldSegments < y + Window
  /\ m_segment_count = Window =>
       \A x \in removed : /\ x \in Nat /\ x + 3 * Window <= m_lstOldSegments
                          /\ Listed => x + 2 * Window <= m3u8

(* A later segment at the end. *)
LEMMA RisingAppended ==
  ASSUME NEW s \in Seq(Nat), NEW e \in Nat, NEW t, t = Append(s, e)
  PROVE  /\ t \in Seq(Nat) /\ ToSet(t) = ToSet(s) \cup {e}
         /\ Rising(s) /\ (\A x \in ToSet(s) : x < e) => Rising(t)
<1>1. PICK n \in Nat : n = Len(s)
  BY LenProperties
<1>2. /\ t \in Seq(Nat) /\ DOMAIN s = 1 .. n /\ DOMAIN t = 1 .. n + 1 /\ t[n + 1] = e
      /\ \A i \in 1 .. n : t[i] = s[i] /\ s[i] \in Nat
  BY <1>1, AppendProperties, LenProperties, ElementOfSeq
<1>r. /\ \A i \in 1 .. n : s[i] \in ToSet(s)
      /\ Rising(s) <=> \A i, j \in 1 .. n : i <= j => s[i] + (j - i) <= s[j]
  BY <1>2 DEF Rising, ToSet
<1>3. \A i \in 1 .. n + 1 : i \in 1 .. n \/ i = n + 1
  OBVIOUS
<1>4. ToSet(t) = ToSet(s) \cup {e}
  <2>1. \A i \in DOMAIN t : t[i] \in ToSet(s) \cup {e}
    BY <1>2, <1>3 DEF ToSet
  <2>2. e \in ToSet(t) /\ \A i \in DOMAIN s : s[i] \in ToSet(t)
    <3>1. n + 1 \in DOMAIN t /\ \A i \in DOMAIN s : i \in DOMAIN t /\ t[i] = s[i]
      BY <1>2
    <3> QED BY <1>2, <3>1 DEF ToSet
  <2>3. ToSet(t) \subseteq ToSet(s) \cup {e} /\ ToSet(s) \cup {e} \subseteq ToSet(t)
    BY <2>1, <2>2 DEF ToSet
  <2> QED BY <2>3
<1>5. ASSUME Rising(s), \A x \in ToSet(s) : x < e PROVE Rising(t)
  <2> SUFFICES ASSUME NEW i \in 1 .. n + 1, NEW j \in 1 .. n + 1, i <= j
               PROVE  t[i] + (j - i) <= t[j]
    BY <1>2 DEF Rising
  <2>1. CASE j \in 1 .. n
    <3>1. i \in 1 .. n
      BY <2>1
    <3>2. s[i] + (j - i) <= s[j]
      BY <1>r, <1>5, <2>1, <3>1
    <3> QED BY <1>2, <2>1, <3>1, <3>2
  <2>2. CASE j = n + 1 /\ i = n + 1
    BY <1>2, <2>2
  <2>3. CASE j = n + 1 /\ i \in 1 .. n
    <3>1. n \in 1 .. n /\ s[n] < e
      BY <1>2, <1>r, <1>5, <2>3
    <3>2. s[i] + (n - i) <= s[n]
      BY <1>2, <1>r, <1>5, <2>3, <3>1
    <3> QED BY <1>2, <2>3, <3>1, <3>2
  <2> QED BY <1>3, <2>1, <2>2, <2>3
<1> QED BY <1>2, <1>4, <1>5

(* The front taken off. *)
LEMMA RisingTaken ==
  ASSUME NEW s \in Seq(Nat), s # <<>>, NEW t, t = Tail(s)
  PROVE  /\ Head(s) \in Nat /\ t \in Seq(Nat) /\ ToSet(s) = {Head(s)} \cup ToSet(t)
         /\ Rising(s) => Rising(t) /\ \A x \in ToSet(t) : Head(s) < x
<1>1. PICK n \in Nat \ {0} : n = Len(s)
  BY EmptySeq, LenProperties
<1>2. /\ t \in Seq(Nat) /\ DOMAIN s = 1 .. n /\ DOMAIN t = 1 .. n - 1
      /\ Head(s) = s[1] /\ Head(s) \in Nat /\ \A i \in 1 .. n - 1 : t[i] = s[i + 1]
  BY <1>1, HeadTailProperties, LenProperties
<1>3. \A i \in 1 .. n : s[i] \in Nat
  BY <1>1, <1>2, ElementOfSeq
<1>r. /\ \A i \in 1 .. n : s[i] \in ToSet(s)
      /\ Rising(s) <=> \A i, j \in 1 .. n : i <= j => s[i] + (j - i) <= s[j]
  BY <1>2 DEF Rising, ToSet
<1>4. \A i \in 1 .. n - 1 : i + 1 \in 1 .. n /\ 1 < i + 1
  OBVIOUS
<1>5. \A i \in 1 .. n : i = 1 \/ (i - 1 \in 1 .. n - 1 /\ (i - 1) + 1 = i)
  OBVIOUS
<1>6. ToSet(s) = {Head(s)} \cup ToSet(t)
  <2>1. ASSUME NEW i \in 1 .. n PROVE s[i] \in {Head(s)} \cup ToSet(t)
    <3>1. CASE i = 1
      BY <1>2, <3>1
    <3>2. CASE i - 1 \in 1 .. n - 1 /\ (i - 1) + 1 = i
      <4>1. t[i - 1] = s[i]
        BY <1>2, <3>2
      <4> QED BY <1>2, <3>2, <4>1 DEF ToSet
    <3> QED BY <1>5, <3>1, <3>2
  <2>2. Head(s) \in ToSet(s) /\ \A i \in 1 .. n - 1 : t[i] \in ToSet(s)
    <3>1. 1 \in 1 .. n /\ \A i \in 1 .. n - 1 : i + 1 \in 1 .. n /\ t[i] = s[i + 1]
      BY <1>2, <1>4
    <3> QED BY <1>2, <1>r, <3>1
  <2>3. ToSet(s) \subseteq {Head(s)} \cup ToSet(t) /\ {Head(s)} \cup ToSet(t) \subseteq ToSet(s)
    <3>1. /\ \A i \in DOMAIN s : s[i] \in {Head(s)} \cup ToSet(t)
          /\ \A i \in DOMAIN t : t[i] \in ToSet(s)
      BY <1>2, <2>1, <2>2
    <3> QED BY <2>2, <3>1 DEF ToSet
  <2> QED BY <2>3
<1>7. ASSUME Rising(s) PROVE Rising(t) /\ \A x \in ToSet(t) : Head(s) < x
  <2>1. ASSUME NEW i \in 1 .. n - 1, NEW j \in 1 .. n - 1, i <= j PROVE t[i] + (j - i) <= t[j]
    <3>1. s[i + 1] + ((j + 1) - (i + 1)) <= s[j + 1]
      BY <1>2, <1>r, <1>4, <1>7, <2>1
    <3> QED BY <1>2, <3>1
  <2>2. ASSUME NEW i \in 1 .. n - 1 PROVE Head(s) < t[i]
    <3>1. s[1] + ((i + 1) - 1) <= s[i + 1]
      BY <1>2, <1>r, <1>4, <1>7
    <3>2. s[i + 1] \in Nat
      BY <1>3, <1>4
    <3> QED BY <1>2, <3>1, <3>2
  <2> QED BY <1>2, <2>1, <2>2 DEF Rising, ToSet
<1> QED BY <1>2, <1>6, <1>7

(* Later segments behind others. *)
LEMMA RisingJoined ==
  ASSUME NEW s \in Seq(Nat), NEW t \in Seq(Nat), NEW u, u = s \o t
  PROVE  /\ u \in Seq(Nat) /\ ToSet(u) = ToSet(s) \cup ToSet(t)
         /\ Rising(s) /\ Rising(t) /\ (\A x \in ToSet(s), y \in ToSet(t) : x < y) => Rising(u)
<1>1. PICK n \in Nat : n = Len(s)
  BY LenProperties
<1>2. PICK m \in Nat : m = Len(t)
  BY LenProperties
<1>3. /\ u \in Seq(Nat) /\ DOMAIN u = 1 .. n + m /\ DOMAIN s = 1 .. n /\ DOMAIN t = 1 .. m
      /\ \A i \in 1 .. n + m : u[i] = IF i <= n THEN s[i] ELSE t[i - n]
      /\ \A i \in 1 .. n : s[i] \in Nat
      /\ \A i \in 1 .. m : t[i] \in Nat
  <2>1. /\ \A i \in 1 .. n : s[i] \in Nat
        /\ \A i \in 1 .. m : t[i] \in Nat
    BY <1>1, <1>2, ElementOfSeq
  <2>2. /\ u \in Seq(Nat) /\ Len(u) = n + m
        /\ \A i \in 1 .. n + m : u[i] = IF i <= n THEN s[i] ELSE t[i - n]
    BY <1>1, <1>2, ConcatProperties
  <2> QED BY <1>1, <1>2, <2>1, <2>2, LenProperties
<1>r. /\ \A i \in 1 .. n : s[i] \in ToSet(s)
      /\ Rising(s) <=> \A i, j \in 1 .. n : i <= j => s[i] + (j - i) <= s[j]
  BY <1>3 DEF Rising, ToSet
<1>q. /\ \A i \in 1 .. m : t[i] \in ToSet(t)
      /\ Rising(t) <=> \A i, j \in 1 .. m : i <= j => t[i] + (j - i) <= t[j]
  BY <1>3 DEF Rising, ToSet
<1>4. \A i \in 1 .. n + m : \/ i \in 1 .. n /\ u[i] = s[i]
                            \/ i - n \in 1 .. m /\ u[i] = t[i - n]
  BY <1>3
<1>5. ToSet(u) = ToSet(s) \cup ToSet(t)
  <2>1. \A i \in 1 .. n + m : u[i] \in ToSet(s) \cup ToSet(t)
    BY <1>3, <1>4, <1>r, <1>q
  <2>2. \A i \in 1 .. n : s[i] \in ToSet(u)
    <3>1. \A i \in 1 .. n : i \in 1 .. n + m /\ u[i] = s[i]
      BY <1>3
    <3> QED BY <1>3, <3>1 DEF ToSet
  <2>3. \A i \in 1 .. m : t[i] \in ToSet(u)
    <3>1. \A i \in 1 .. m : n + i \in 1 .. n + m /\ u[n + i] = t[i]
      BY <1>3
    <3> QED BY <1>3, <3>1 DEF ToSet
  <2>4. ToSet(u) \subseteq ToSet(s) \cup ToSet(t) /\ ToSet(s) \cup ToSet(t) \subseteq ToSet(u)
    <3>1. /\ \A i \in DOMAIN u : u[i] \in ToSet(s) \cup ToSet(t)
          /\ \A i \in DOMAIN s : s[i] \in ToSet(u)
          /\ \A i \in DOMAIN t : t[i] \in ToSet(u)
      BY <1>3, <2>1, <2>2, <2>3
    <3> QED BY <3>1 DEF ToSet
  <2> QED BY <2>4
<1>6. ASSUME Rising(s), Rising(t), \A x \in ToSet(s), y \in ToSet(t) : x < y PROVE Rising(u)
  <2> SUFFICES ASSUME NEW i \in 1 .. n + m, NEW j \in 1 .. n + m, i <= j
               PROVE  u[i] + (j - i) <= u[j]
    BY <1>3 DEF Rising
  <2>1. CASE j \in 1 .. n /\ u[j] = s[j]
    <3>1. i \in 1 .. n /\ u[i] = s[i]
      BY <1>3, <2>1
    <3> QED BY <1>3, <1>r, <1>6, <2>1, <3>1
  <2>2. CASE i - n \in 1 .. m /\ u[i] = t[i - n]
    <3>1. j - n \in 1 .. m /\ u[j] = t[j - n]
      BY <1>3, <2>2
    <3>2. t[i - n] + ((j - n) - (i - n)) <= t[j - n]
      BY <1>3, <1>q, <1>6, <2>2, <3>1
    <3> QED BY <2>2, <3>1, <3>2
  <2>3. CASE i \in 1 .. n /\ u[i] = s[i] /\ j - n \in 1 .. m /\ u[j] = t[j - n]
    <3>1. n \in 1 .. n /\ 1 \in 1 .. m
      <4>1. i \in 1 .. n /\ j - n \in 1 .. m
        BY <2>3
      <4>2. j \in Int
        OBVIOUS
      <4> QED BY <1>1, <1>2, <4>1, <4>2
    <3>2. s[i] + (n - i) <= s[n] /\ t[1] + ((j - n) - 1) <= t[j - n]
      BY <1>3, <1>r, <1>q, <1>6, <2>3, <3>1
    <3>3. s[n] < t[1]
      BY <1>3, <1>r, <1>q, <1>6, <3>1
    <3>4. s[i] \in Nat /\ s[n] \in Nat /\ t[1] \in Nat /\ t[j - n] \in Nat
      BY <1>3, <2>3, <3>1
    <3>5. ASSUME NEW a \in Nat, NEW b \in Nat, NEW c \in Nat, NEW d \in Nat,
                 a + (n - i) <= b, c + ((j - n) - 1) <= d, b < c
          PROVE  a + (j - i) <= d
      BY <3>5
    <3>6. s[i] + (j - i) <= t[j - n]
      BY <3>2, <3>3, <3>4, <3>5
    <3> QED BY <2>3, <3>6
  <2> QED BY <1>4, <2>1, <2>2, <2>3
<1> QED BY <1>3, <1>5, <1>6

(* What a live playlist adds is later than what was wanted before, and is among
   its last Window segments. *)
LEMMA AddedSegments ==
  ASSUME sliding, published \in Nat, NEW old \in Nat, old <= published,
         NEW new, new = Segments(published) \ Segments(old),
         NEW added, added = [i \in 1 .. Cardinality(new) |-> published - Cardinality(new) + i]
  PROVE  /\ added \in Seq(Nat) /\ Rising(added)
         /\ \A x \in ToSet(added) : old < x /\ x <= published /\ published < x + Window
<1> DEFINE first(n) == IF n > Window THEN n - Window + 1 ELSE 1
<1>0. Window \in Nat \ {0} /\ First(published) = first(published) /\ First(old) = first(old)
  BY RecordingAssumption DEF First
<1>1. PICK f \in Nat \ {0} : f = First(published) /\ f <= published + 1 /\ published < f + Window
  <2>1. first(published) \in Nat \ {0} /\ first(published) <= published + 1
        /\ published < first(published) + Window
    BY <1>0
  <2> QED BY <1>0, <2>1
<1>2. PICK g \in Nat \ {0} : g = First(old) /\ g <= f
  <2>1. first(old) \in Nat \ {0} /\ first(old) <= first(published)
    BY <1>0
  <2> QED BY <1>0, <1>1, <2>1
<1>3. PICK a \in Nat \ {0} : a = IF f > old THEN f ELSE old + 1
  <2>1. (IF f > old THEN f ELSE old + 1) \in Nat \ {0}
    BY <1>1
  <2> QED BY <2>1
<1> HIDE DEF first
<1>4. new = a .. published
  <2>1. Segments(published) = f .. published /\ Segments(old) = g .. old
    BY <1>1, <1>2 DEF Segments
  <2>2. (f .. published) \ (g .. old) = a .. published
    BY <1>1, <1>2, <1>3
  <2> QED BY <2>1, <2>2
<1>5. Cardinality(new) = published - a + 1 /\ a <= published + 1
  <2>1. a <= published + 1
    BY <1>1, <1>3
  <2>2. Cardinality(a .. published) = IF a > published THEN 0 ELSE published - a + 1
    BY FS_Interval
  <2>3. (IF a > published THEN 0 ELSE published - a + 1) = published - a + 1
    BY <2>1
  <2>4. Cardinality(a .. published) = published - a + 1
    BY <2>2, <2>3
  <2> QED BY <1>4, <2>1, <2>4, Zenon
<1>6. PICK n \in Nat : n = Cardinality(new) /\ published - n = a - 1
  <2>1. published - a + 1 \in Nat /\ published - (published - a + 1) = a - 1
    BY <1>5
  <2> QED BY <1>5, <2>1
<1>7. DOMAIN added = 1 .. n /\ \A i \in 1 .. n : added[i] = a - 1 + i /\ added[i] \in Nat
  <2>1. added = [i \in 1 .. n |-> a - 1 + i]
    BY <1>6
  <2>2. \A i \in 1 .. n : a - 1 + i \in Nat
    OBVIOUS
  <2> QED BY <2>1, <2>2
<1>8. added \in Seq(Nat)
  <2> DEFINE numbers == [i \in 1 .. n |-> a - 1 + i]
  <2>1. \A i \in 1 .. n : a - 1 + i \in Nat
    OBVIOUS
  <2>2. numbers \in Seq(Nat)
    BY <2>1, IsASeq
  <2> QED BY <1>6, <2>2
<1>9. Rising(added)
  <2> SUFFICES ASSUME NEW i \in 1 .. n, NEW j \in 1 .. n, i <= j
               PROVE  added[i] + (j - i) <= added[j]
    BY <1>7 DEF Rising
  <2>1. added[i] = a - 1 + i /\ added[j] = a - 1 + j
    BY <1>7
  <2> QED BY <2>1
<1>10. \A i \in 1 .. n : old < added[i] /\ added[i] <= published /\ published < added[i] + Window
  <2> SUFFICES ASSUME NEW i \in 1 .. n
               PROVE  LET x == a - 1 + i IN old < x /\ x <= published /\ published < x + Window
    BY <1>7
  <2>1. f <= a /\ old < a /\ n = published - a + 1
    BY <1>3, <1>5, <1>6
  <2> QED BY <1>0, <1>1, <2>1
<1>11. \A x \in ToSet(added) : old < x /\ x <= published /\ published < x + Window
  <2>1. \A i \in DOMAIN added : old < added[i] /\ added[i] <= published /\ published < added[i] + Window
    BY <1>7, <1>10
  <2> QED BY <2>1 DEF ToSet
<1> QED BY <1>8, <1>9, <1>11

(* Too long a history: its oldest file is three windows older than its newest,
   and two older than the one a window back. *)
LEMMA Expired ==
  ASSUME NEW h \in Seq(Nat), Rising(h), NEW w \in Nat \ {0}, Len(h) > w * 3
  PROVE  \E x, y, z \in ToSet(h) : /\ x = Head(h) /\ x \in Nat /\ y \in Nat /\ z \in Nat
                                   /\ x + 3 * w <= z /\ y + w <= z /\ x + 2 * w <= y
<1>1. PICK n \in Nat : n = Len(h) /\ n > 3 * w
  BY LenProperties
<1>2. /\ DOMAIN h = 1 .. n /\ Head(h) = h[1]
      /\ \A i \in 1 .. n : h[i] \in Nat
  BY <1>1, LenProperties, ElementOfSeq, EmptySeq, HeadTailProperties
<1>3. 1 \in 1 .. n /\ n - w \in 1 .. n /\ n \in 1 .. n
  BY <1>1
<1>4. \A i, j \in 1 .. n : i <= j => h[i] + (j - i) <= h[j]
  BY <1>2 DEF Rising
<1>5. h[1] + (n - 1) <= h[n] /\ h[n - w] + (n - (n - w)) <= h[n] /\ h[1] + ((n - w) - 1) <= h[n - w]
  <2>1. 1 <= n /\ n - w <= n /\ 1 <= n - w
    BY <1>1
  <2> QED BY <1>3, <1>4, <2>1
<1>6. ASSUME NEW x \in Nat, NEW y \in Nat, NEW z \in Nat,
             x + (n - 1) <= z, y + (n - (n - w)) <= z, x + ((n - w) - 1) <= y
      PROVE  x + 3 * w <= z /\ y + w <= z /\ x + 2 * w <= y
  BY <1>1, <1>6
<1>7. h[1] \in ToSet(h) /\ h[n - w] \in ToSet(h) /\ h[n] \in ToSet(h)
  BY <1>2, <1>3 DEF ToSet
<1> QED BY <1>2, <1>3, <1>5, <1>6, <1>7

(* A history in order of at most n segments of n holds no more than n. *)
LEMMA HistoryFits ==
  ASSUME NEW h \in Seq(Nat), Rising(h), h # <<>>, NEW n \in Nat, \A x \in ToSet(h) : 1 <= x /\ x <= n
  PROVE  Len(h) <= n * 3
<1>1. PICK l \in Nat \ {0} : l = Len(h)
  BY EmptySeq, LenProperties
<1>2. DOMAIN h = 1 .. l /\ 1 \in 1 .. l /\ l \in 1 .. l /\ h[1] \in Nat /\ h[l] \in Nat
  BY <1>1, LenProperties, ElementOfSeq
<1>3. h[1] + (l - 1) <= h[l]
  BY <1>2 DEF Rising
<1>4. 1 <= h[1] /\ h[l] <= n
  BY <1>2 DEF ToSet
<1> QED BY <1>1, <1>2, <1>3, <1>4

(* What is not seen anew and does not touch a playlist or a file keeps the
   playlist apart from the deleted files. *)
LEMMA ListStays ==
  ASSUME ListInv, Seen' \subseteq Seen, reloadPc' # "write" => reloadPc # "write",
         UNCHANGED <<m_lstOldSegments, m3u8, m3u8Late, m_segment_count, removed>>
  PROVE  ListInv'
  BY DEF ListInv, Listed

QueuesApart ==
  /\ UNCHANGED <<sliding, m_segment_count, m_lstOldSegments, m_dqTsUrl, url, m_dqTsBuffer,
                 m_lstTsHistory, removed, m3u8, m3u8Late>>
  /\ (savePc = "pop") <=> (savePc' = "pop")
  /\ (savePc = "none") <=> (savePc' = "none")
  /\ (mainPc = "handover") <=> (mainPc' = "handover")
  /\ mainPc' = "get" => mainPc = "get"
  /\ mainPc' \in {"getm3u8", "start", "valid", "begin"} => Starting
  /\ reloadPc' # "write" => reloadPc # "write"
  /\ reloadPc = "none" /\ ~sliding => reloadPc' = "none"
  /\ published <= published'

DeletionInv == OrderInv /\ StartInv /\ ListInv

(* The steps that touch no queue. *)
LEMMA StaysApart ==
  ASSUME TypeOK, TypeOK', DeletionInv, QueuesApart PROVE DeletionInv'
<1>1. /\ waiting' = waiting /\ Written' = Written /\ Unwritten' = Unwritten
      /\ AtHand' = AtHand /\ Wanted' = Wanted
  BY DEF QueuesApart, waiting, Written, Unwritten, AtHand, Wanted
<1>2. Seen' = Seen
  BY <1>1 DEF Seen
<1>3. OrderInv'
  BY <1>1, <1>2 DEF DeletionInv, OrderInv, QueuesApart, Rising
<1>4. StartInv'
  <2>1. m_lstOldSegments' <= published'
    BY DEF TypeOK, ControlOK, QueuesOK, DeletionInv, StartInv, QueuesApart
  <2>2. Starting' => Starting
    BY DEF QueuesApart, Starting
  <2> QED BY <2>1, <2>2 DEF DeletionInv, StartInv, QueuesApart
<1>5. ListInv'
  BY <1>2, ListStays DEF DeletionInv, QueuesApart
<1> QED BY <1>3, <1>4, <1>5 DEF DeletionInv

(* They are these. *)
LEMMA QuietApart ==
  ASSUME TypeOK, ThreadsInv,
         \/ Server \/ RunFails \/ RunSaveValid \/ RunLive \/ LoopEnds \/ LoopTimeout \/ RunJoin
         \/ ReloadStops \/ ReloadEnd \/ SaveCheck \/ SaveFront \/ StopFlag \/ Stop \/ Deleted \/ UNCHANGED vars
  PROVE  QueuesApart
<1> USE DEF QueuesApart, Starting
<1>1. CASE Server
  <2>1. UNCHANGED notServer /\ published <= published'
    BY <1>1, RecordingAssumption DEF Server, Publish, End, notServer, TypeOK, ControlOK
  <2> QED BY <2>1 DEF notServer, startVars, listed, urlVars, queueVars, fileVars, listVars
<1>p. published \in Nat
  BY RecordingAssumption DEF TypeOK, ControlOK
<1>2. CASE RunFails \/ RunSaveValid \/ RunLive \/ LoopEnds \/ LoopTimeout \/ RunJoin
  <2>1. /\ UNCHANGED <<source, savePc, m_segment_count, m_lstOldSegments, m_dqTsUrl, url, queueVars,
                       fileVars, listVars>>
        /\ \/ UNCHANGED reloadPc
           \/ sliding /\ reloadPc' # "write" /\ mainPc = "begin" /\ mainPc' = "loop"
    BY <1>2 DEF RunFails, RunSaveValid, RunLive, LoopEnds, LoopTimeout, RunJoin, notMain,
         loopOnly, startVars, listed, urlVars, ThreadsInv
  <2>2. /\ mainPc # "handover" /\ mainPc' \notin {"handover", "get"}
        /\ mainPc' \in {"getm3u8", "start", "valid", "begin"} => Starting
    BY <1>2 DEF RunFails, RunSaveValid, RunLive, LoopEnds, LoopTimeout, RunJoin
  <2>3. mainPc = "begin" => reloadPc # "write"
    BY DEF ThreadsInv
  <2> QED BY <1>p, <2>1, <2>2, <2>3 DEF source, queueVars, fileVars, listVars
<1>3. CASE ReloadStops \/ ReloadEnd
  BY <1>p, <1>3 DEF ReloadStops, ReloadEnd, notReload, source, startVars, queueVars,
       fileVars, listVars, listed
<1>4. CASE SaveCheck \/ SaveFront
  BY <1>p, <1>4 DEF SaveCheck, SaveFront, notSave, source, startVars, listed, urlVars,
       fileVars, listVars
<1>5. CASE StopFlag \/ Stop
  <2>1. UNCHANGED notApi
    BY <1>5 DEF StopFlag, Stop, StopCancel, StopSave, StopTestValid, StopJoinSave,
         StopJoinMain,
                DestroyJoinSave
  <2> QED BY <1>p, <2>1 DEF notApi, source, startVars, listed, urlVars, queueVars, fileVars,
       listVars
<1>6. CASE Deleted \/ UNCHANGED vars
  <2>1. UNCHANGED vars
    BY <1>6 DEF Deleted
  <2> QED BY <1>p, <2>1 DEF vars, source, startVars, listed, urlVars, queueVars, fileVars,
       listVars
<1> QED BY <1>1, <1>2, <1>3, <1>4, <1>5, <1>6

(* The queues and their numbers. *)
LEMMA QueuesTyped ==
  ASSUME TypeOK, FrontInv, OrderInv
  PROVE  /\ m_dqTsUrl \in Seq(Nat) /\ m_dqTsBuffer \in Seq(Nat) /\ waiting \in Seq(Nat)
         /\ m_lstTsHistory \in Seq(Nat)
         /\ url \in Nat /\ m_lstOldSegments \in Nat /\ published \in Nat
         /\ m3u8 \in Nat /\ m_segment_count \in Nat
         /\ Wanted \subseteq Nat /\ Unwritten \subseteq Nat /\ Written \subseteq Nat
<1>1. /\ m_dqTsUrl \in Seq(Nat) /\ m_dqTsBuffer \in Seq(Nat) /\ m_lstTsHistory \in Seq(Nat)
      /\ url \in Nat /\ m_lstOldSegments \in Nat /\ published \in Nat
      /\ m3u8 \in Nat /\ m_segment_count \in Nat
  BY RecordingAssumption DEF TypeOK, ControlOK, QueuesOK, OrderInv
<1>2. waiting \in Seq(Nat)
  BY <1>1, HeadTailProperties DEF waiting, FrontInv
<1>3. \A s \in Seq(Nat) : ToSet(s) \subseteq Nat
  BY LenProperties, ElementOfSeq DEF ToSet
<1> QED BY <1>1, <1>2, <1>3 DEF Wanted, Unwritten, Written

(* MainLoop takes the front of what is wanted, in order, and hands it over. *)
LEMMA LoopOrder ==
  ASSUME TypeOK, TypeOK', FrontInv, DeletionInv,
         LoopHead \/ LoopSkip \/ LoopFails \/ LoopDownloaded \/ LoopHandOver
  PROVE  DeletionInv'
<1>t. /\ m_dqTsUrl \in Seq(Nat) /\ m_dqTsBuffer \in Seq(Nat) /\ waiting \in Seq(Nat) /\ url \in Nat
      /\ OrderInv /\ StartInv /\ ListInv
  BY QueuesTyped DEF DeletionInv
<1>f. /\ UNCHANGED <<sliding, published, reloadPc, savePc, m_segment_count, m_lstOldSegments,
                     m_lstTsHistory, removed, m3u8, m3u8Late>>
      /\ mainPc \in {"loop", "get", "handover"} /\ mainPc' \in {"loop", "get", "handover"}
  BY DEF LoopHead, LoopSkip, LoopFails, LoopDownloaded, LoopHandOver, loopOnly, notMain,
       source, startVars, fileVars, listVars, listed
<1>s. StartInv'
  BY <1>t, <1>f DEF StartInv, Starting
<1>w. Written' = Written /\ m_lstTsHistory' \in Seq(Nat) /\ Rising(m_lstTsHistory')
  BY <1>t, <1>f DEF Written, OrderInv
<1>1. CASE LoopHead
  <2>1. /\ UNCHANGED <<m_dqTsUrl, m_dqTsBuffer>> /\ mainPc = "loop" /\ mainPc' = "get"
        /\ url' = Head(m_dqTsUrl)
    BY <1>1 DEF LoopHead, queueVars
  <2>2. waiting' = waiting /\ Unwritten' = Unwritten /\ AtHand' = AtHand /\ Wanted' = Wanted
    BY <1>f, <2>1 DEF waiting, Unwritten, AtHand, Wanted
  <2>3. Seen' = Seen
    BY <1>w, <2>2 DEF Seen
  <2>4. OrderInv'
    BY <1>t, <1>f, <1>w, <2>1, <2>2, <2>3 DEF OrderInv
  <2> QED BY <1>t, <1>f, <1>s, <2>3, <2>4, ListStays DEF DeletionInv
<1>2. CASE LoopSkip \/ LoopFails \/ LoopDownloaded
  <2>1. /\ UNCHANGED <<m_dqTsBuffer, url>> /\ mainPc = "get" /\ mainPc' # "get"
        /\ m_dqTsUrl' = Tail(m_dqTsUrl) /\ m_dqTsUrl # <<>> /\ url = Head(m_dqTsUrl)
    BY <1>2, <1>t DEF LoopSkip, LoopFails, LoopDownloaded, queueVars, FrontInv, OrderInv
  <2>2. waiting' = waiting /\ Unwritten' = Unwritten /\ AtHand = {} /\ AtHand' \subseteq {url}
    BY <1>f, <2>1 DEF waiting, Unwritten, AtHand
  <2>3. /\ Wanted = {url} \cup Wanted' /\ Rising(m_dqTsUrl')
        /\ \A x \in Wanted' : url < x
    BY <1>t, <2>1, RisingTaken DEF Wanted, OrderInv
  <2>4. Seen' \subseteq Seen
    BY <1>w, <2>2, <2>3 DEF Seen
  <2>5. AtHand' \cup Wanted' \subseteq AtHand \cup Wanted
    BY <2>2, <2>3
  <2>6. OrderInv'
    <3>1. /\ \A x \in Written', y \in Unwritten' \cup AtHand' \cup Wanted' : x < y
          /\ \A x \in Unwritten', y \in AtHand' \cup Wanted' : x < y
          /\ \A x \in AtHand', y \in Wanted' : x < y
      BY <1>t, <1>w, <2>2, <2>3, <2>5 DEF OrderInv
    <3>2. \A x \in Seen' : 1 <= x /\ x <= m_lstOldSegments'
      BY <1>t, <1>f, <2>4 DEF OrderInv
    <3>3. Rising(waiting')
      BY <1>t, <2>2 DEF OrderInv
    <3> QED BY <1>w, <2>1, <2>3, <3>1, <3>2, <3>3 DEF OrderInv
  <2> QED BY <1>t, <1>f, <1>s, <2>4, <2>6, ListStays DEF DeletionInv
<1>3. CASE LoopHandOver
  <2>1. /\ UNCHANGED <<m_dqTsUrl, url>> /\ mainPc = "handover" /\ mainPc' = "loop"
        /\ m_dqTsBuffer' = Append(m_dqTsBuffer, url)
    BY <1>3 DEF LoopHandOver
  <2>2. waiting' = Append(waiting, url)
    <3>1. CASE savePc = "pop"
      <4>1. m_dqTsBuffer # <<>>
        BY <3>1 DEF FrontInv
      <4>2. Tail(Append(m_dqTsBuffer, url)) = Append(Tail(m_dqTsBuffer), url)
        BY <1>t, <4>1, HeadTailAppend
      <4> QED BY <1>f, <2>1, <3>1, <4>2 DEF waiting
    <3>2. CASE savePc # "pop"
      BY <1>f, <2>1, <3>2 DEF waiting
    <3> QED BY <3>1, <3>2
  <2>3. AtHand = {url} /\ AtHand' = {} /\ Wanted' = Wanted
    BY <2>1 DEF AtHand, Wanted
  <2>4. Unwritten' = Unwritten \cup {url} /\ Rising(waiting')
    <3>1. \A x \in Unwritten : x < url
      BY <1>t, <2>3 DEF OrderInv
    <3> QED BY <1>t, <2>2, <3>1, RisingAppended DEF Unwritten, OrderInv
  <2>5. Seen' \subseteq Seen
    BY <1>w, <2>3, <2>4 DEF Seen
  <2>6. OrderInv'
    <3>1. /\ \A x \in Written', y \in Unwritten' \cup AtHand' \cup Wanted' : x < y
          /\ \A x \in Unwritten', y \in AtHand' \cup Wanted' : x < y
          /\ \A x \in AtHand', y \in Wanted' : x < y
      BY <1>t, <1>w, <2>3, <2>4 DEF OrderInv
    <3>2. \A x \in Seen' : 1 <= x /\ x <= m_lstOldSegments'
      BY <1>t, <1>f, <2>5 DEF OrderInv
    <3>3. Rising(m_dqTsUrl')
      BY <1>t, <2>1 DEF OrderInv
    <3> QED BY <1>w, <2>1, <2>4, <3>1, <3>2, <3>3 DEF OrderInv
  <2> QED BY <1>t, <1>f, <1>s, <2>5, <2>6, ListStays DEF DeletionInv
<1> QED BY <1>1, <1>2, <1>3

(* The worker writes the front of what waits. *)
LEMMA WriteOrder ==
  ASSUME TypeOK, TypeOK', FrontInv, DeletionInv, SaveWrite
  PROVE  DeletionInv'
<1>t. /\ m_dqTsUrl \in Seq(Nat) /\ m_dqTsBuffer \in Seq(Nat) /\ waiting \in Seq(Nat) /\ url \in Nat
      /\ m_lstTsHistory \in Seq(Nat) /\ m_lstOldSegments \in Nat /\ m_segment_count \in Nat
      /\ m3u8 \in Nat /\ Window \in Nat \ {0}
      /\ OrderInv /\ StartInv /\ ListInv
  BY QueuesTyped, RecordingAssumption DEF DeletionInv
<1> DEFINE ts == Head(m_dqTsBuffer)
           h == Append(m_lstTsHistory, ts)
<1>f. /\ UNCHANGED <<sliding, published, mainPc, reloadPc, m_segment_count, m_lstOldSegments,
                     m_dqTsUrl, url, m_dqTsBuffer, m3u8, m3u8Late>>
      /\ savePc = "write" /\ savePc' = "pop" /\ m_dqTsBuffer # <<>>
  BY DEF SaveWrite, notSave, source, startVars, listed, urlVars, listVars, FrontInv
<1>1. /\ waiting = m_dqTsBuffer /\ waiting' = Tail(m_dqTsBuffer)
      /\ AtHand' = AtHand /\ Wanted' = Wanted
  BY <1>f DEF waiting, AtHand, Wanted
<1>2. /\ ts \in Nat /\ Unwritten = {ts} \cup Unwritten' /\ Rising(waiting')
      /\ \A x \in Unwritten' : ts < x
  BY <1>t, <1>f, <1>1, RisingTaken DEF Unwritten, OrderInv
<1>3. \A x \in Written : x < ts
  BY <1>t, <1>2 DEF OrderInv
<1>4. ts \notin ToSet(m_lstTsHistory)
  BY <1>2, <1>3 DEF Written
<1>5. PICK expired :
        /\ expired = IF realtime_mode /\ Len(h) > m_segment_count * 3 THEN {Head(h)} ELSE {}
        /\ m_lstTsHistory' = IF expired = {} THEN h ELSE Tail(h)
        /\ removed' = removed \cup expired
  <2>1. LET kept == IF ts \in ToSet(m_lstTsHistory) THEN Remove(m_lstTsHistory, ts) ELSE m_lstTsHistory
        IN Append(kept, ts) = h
    BY <1>4
  <2> QED BY <2>1, Zenon DEF SaveWrite, MaxHistory
<1>6. h \in Seq(Nat) /\ Rising(h) /\ ToSet(h) = Written \cup {ts} /\ h # <<>>
  <2>1. h \in Seq(Nat) /\ Rising(h) /\ ToSet(h) = Written \cup {ts}
    BY <1>t, <1>2, <1>3, RisingAppended DEF OrderInv, Written
  <2>2. h # <<>>
    BY <1>t, <1>2, AppendedNotEmpty
  <2> QED BY <2>1, <2>2
<1> HIDE DEF ts, h
<1>7. m_lstTsHistory' \in Seq(Nat) /\ Rising(m_lstTsHistory') /\ Written' \subseteq Written \cup {ts}
  <2>1. CASE m_lstTsHistory' = h
    BY <1>6, <2>1 DEF Written
  <2>2. CASE m_lstTsHistory' = Tail(h)
    <3>1. PICK r : r = Tail(h)
      OBVIOUS
    <3>2. r \in Seq(Nat) /\ Rising(r) /\ ToSet(h) = {Head(h)} \cup ToSet(r)
      BY <1>6, <3>1, RisingTaken
    <3>3. m_lstTsHistory' = r
      BY <2>2, <3>1
    <3> QED BY <1>6, <3>2, <3>3 DEF Written
  <2> QED BY <1>5, <2>1, <2>2
<1>8. Seen' \subseteq Seen /\ Written \cup {ts} \subseteq Seen
  BY <1>1, <1>2, <1>7 DEF Seen
<1>9. OrderInv'
  <2>1. /\ \A x \in Written', y \in Unwritten' \cup AtHand' \cup Wanted' : x < y
        /\ \A x \in Unwritten', y \in AtHand' \cup Wanted' : x < y
        /\ \A x \in AtHand', y \in Wanted' : x < y
    <3>1. \A y \in AtHand \cup Wanted : ts < y
      BY <1>t, <1>2 DEF OrderInv
    <3> QED BY <1>t, <1>1, <1>2, <1>7, <3>1 DEF OrderInv
  <2>2. \A x \in Seen' : 1 <= x /\ x <= m_lstOldSegments'
    BY <1>t, <1>f, <1>8 DEF OrderInv
  <2>3. mainPc' = "get" => url' = Head(m_dqTsUrl')
    BY <1>t, <1>f DEF OrderInv
  <2>4. Rising(m_dqTsUrl')
    BY <1>t, <1>f DEF OrderInv
  <2> QED BY <1>2, <1>7, <2>1, <2>2, <2>3, <2>4 DEF OrderInv
<1>10. \A x \in ToSet(h) : 1 <= x /\ x <= m_lstOldSegments
  BY <1>t, <1>6, <1>8 DEF OrderInv
<1>11. StartInv'
  <2>1. ~Starting'
    BY <1>t, <1>f DEF StartInv, Starting
  <2>2. ASSUME ~sliding PROVE removed' = {}
    <3>1. m_segment_count = m_lstOldSegments /\ removed = {}
      BY <1>t, <1>f, <2>2 DEF StartInv
    <3>2. Len(h) <= m_segment_count * 3 /\ Len(h) \in Nat
      BY <1>t, <1>6, <1>10, <3>1, HistoryFits, LenProperties
    <3>3. expired = {}
      BY <1>t, <1>5, <3>2
    <3> QED BY <1>5, <3>1, <3>3
  <2> QED BY <1>t, <1>f, <2>1, <2>2 DEF StartInv
<1>12. ListInv'
  <2>1. Listed' = Listed
    BY <1>f DEF Listed
  <2>2. Listed' => /\ m3u8' <= m_lstOldSegments'
                   /\ reloadPc' # "write" => m3u8' = m_lstOldSegments'
                   /\ \A y \in Seen' : y <= m3u8' \/ m_lstOldSegments' < y + Window
    BY <1>t, <1>f, <1>8, <2>1 DEF ListInv
  <2>3. ASSUME m_segment_count = Window, NEW x \in expired
        PROVE  /\ x \in Nat /\ x + 3 * Window <= m_lstOldSegments
               /\ Listed => x + 2 * Window <= m3u8
    <3>1. Len(h) > Window * 3 /\ x = Head(h)
      BY <1>5, <2>3
    <3>2. PICK y \in ToSet(h), z \in ToSet(h) :
            /\ x \in Nat /\ y \in Nat /\ z \in Nat
            /\ x + 3 * Window <= z /\ y + Window <= z /\ x + 2 * Window <= y
      BY <1>t, <1>6, <3>1, Expired
    <3>3. z <= m_lstOldSegments /\ y \in Seen
      BY <1>6, <1>8, <1>10
    <3>4. ASSUME Listed PROVE y <= m3u8
      <4>1. y <= m3u8 \/ m_lstOldSegments < y + Window
        BY <1>t, <3>3, <3>4 DEF ListInv
      <4> QED BY <1>t, <3>2, <3>3, <4>1
    <3> QED BY <1>t, <3>2, <3>3, <3>4
  <2>4. m_segment_count' = Window =>
          \A x \in removed' : /\ x \in Nat /\ x + 3 * Window <= m_lstOldSegments'
                              /\ Listed' => x + 2 * Window <= m3u8'
    BY <1>t, <1>f, <1>5, <2>1, <2>3 DEF ListInv
  <2> QED BY <2>2, <2>4 DEF ListInv
<1> QED BY <1>9, <1>11, <1>12 DEF DeletionInv

(* The worker leaves out what it could not write, and drops what is written. *)
LEMMA PopOrder ==
  ASSUME TypeOK, TypeOK', FrontInv, DeletionInv, SaveFails \/ SavePop
  PROVE  DeletionInv'
<1>t. /\ m_dqTsBuffer \in Seq(Nat) /\ OrderInv /\ StartInv /\ ListInv
  BY QueuesTyped DEF DeletionInv
<1>f. /\ UNCHANGED <<sliding, published, mainPc, reloadPc, m_segment_count, m_lstOldSegments,
                     m_dqTsUrl, url, m_lstTsHistory, removed, m3u8, m3u8Late>>
      /\ savePc \in {"write", "pop"} /\ savePc' # "none" /\ m_dqTsBuffer # <<>>
  BY DEF SaveFails, SavePop, notSave, source, startVars, listed, urlVars, listVars,
       fileVars, FrontInv
<1>1. Rising(waiting') /\ Unwritten' \subseteq Unwritten
  <2>1. CASE SaveFails
    <3>1. waiting = m_dqTsBuffer /\ waiting' = Tail(m_dqTsBuffer)
      BY <2>1 DEF SaveFails, waiting
    <3>2. PICK r : r = Tail(m_dqTsBuffer)
      OBVIOUS
    <3>3. Rising(r) /\ ToSet(m_dqTsBuffer) = {Head(m_dqTsBuffer)} \cup ToSet(r)
      BY <1>t, <1>f, <3>1, <3>2, RisingTaken DEF OrderInv
    <3> QED BY <3>1, <3>2, <3>3 DEF Unwritten
  <2>2. CASE SavePop
    <3>1. waiting' = waiting
      BY <2>2 DEF SavePop, waiting
    <3> QED BY <1>t, <3>1 DEF Unwritten, OrderInv
  <2> QED BY <2>1, <2>2
<1>2. Written' = Written /\ AtHand' = AtHand /\ Wanted' = Wanted
  BY <1>f DEF Written, AtHand, Wanted
<1>3. Seen' \subseteq Seen
  BY <1>1, <1>2 DEF Seen
<1>4. OrderInv'
  <2>1. /\ \A x \in Written', y \in Unwritten' \cup AtHand' \cup Wanted' : x < y
        /\ \A x \in Unwritten', y \in AtHand' \cup Wanted' : x < y
        /\ \A x \in AtHand', y \in Wanted' : x < y
    BY <1>t, <1>1, <1>2 DEF OrderInv
  <2>2. \A x \in Seen' : 1 <= x /\ x <= m_lstOldSegments'
    BY <1>t, <1>f, <1>3 DEF OrderInv
  <2>3. /\ m_lstTsHistory' \in Seq(Nat) /\ Rising(m_lstTsHistory') /\ Rising(m_dqTsUrl')
        /\ mainPc' = "get" => url' = Head(m_dqTsUrl')
    BY <1>t, <1>f DEF OrderInv
  <2> QED BY <1>1, <2>1, <2>2, <2>3 DEF OrderInv
<1>5. StartInv'
  BY <1>t, <1>f DEF StartInv, Starting
<1>6. ListInv'
  BY <1>t, <1>f, <1>3, ListStays
<1> QED BY <1>4, <1>5, <1>6 DEF DeletionInv

(* Until the loop begins there is nothing to put in order. *)
LEMMA RunOrder ==
  ASSUME TypeOK, TypeOK', FrontInv, ThreadsInv, DeletionInv,
         RunSelectStream \/ RunStartSave \/ RunVod
  PROVE  DeletionInv'
<1>t. /\ m_lstOldSegments \in Nat /\ published \in Nat /\ Window \in Nat \ {0}
      /\ OrderInv /\ StartInv /\ ListInv
  BY QueuesTyped, RecordingAssumption DEF DeletionInv
<1>1. /\ Starting /\ mainPc \in {"getm3u8", "start", "begin"}
      /\ mainPc' \in {"start", "valid", "loop"}
      /\ UNCHANGED <<sliding, published, m_dqTsBuffer, m_lstTsHistory, removed>>
  BY DEF RunSelectStream, RunStartSave, RunVod, notMain, source, queueVars, fileVars,
       Starting, listed
<1>2. m_lstTsHistory = <<>> /\ m_dqTsBuffer = <<>> /\ m_dqTsUrl = <<>> /\ removed = {} /\ m3u8 = 0
  BY <1>t, <1>1 DEF StartInv
<1>3. /\ savePc # "pop" /\ savePc' # "pop" /\ reloadPc = "none"
      /\ mainPc \in {"getm3u8", "start"} => savePc = "none"
  BY <1>1, <1>2 DEF FrontInv, ThreadsInv, RunSelectStream, RunStartSave, RunVod, listed
<1>4. ToSet(<<>>) = {} /\ Rising(<<>>) /\ <<>> \in Seq(Nat)
  BY EmptySeq DEF ToSet, Rising
<1>5. /\ waiting' = <<>> /\ Written' = {} /\ Unwritten' = {} /\ AtHand' = {}
      /\ m_lstTsHistory' \in Seq(Nat) /\ Rising(m_lstTsHistory') /\ Rising(waiting')
  BY <1>1, <1>2, <1>3, <1>4 DEF waiting, Written, Unwritten, AtHand
<1>6. CASE RunSelectStream \/ RunStartSave
  <2>1. /\ UNCHANGED <<m_dqTsUrl, m3u8, m3u8Late, reloadPc>> /\ mainPc' # "get"
        /\ m_lstOldSegments' = m_lstOldSegments \/ m_lstOldSegments' = published
        /\ mainPc \in {"getm3u8", "start"}
    BY <1>6 DEF RunSelectStream, RunStartSave, listVars, listed, urlVars
  <2>2. Wanted' = {} /\ Seen' = {} /\ Rising(m_dqTsUrl')
    BY <1>2, <1>4, <1>5, <2>1 DEF Wanted, Seen
  <2>3. OrderInv'
    BY <1>5, <2>1, <2>2 DEF OrderInv
  <2>4. ~sliding /\ savePc' # "none" => m_segment_count' = m_lstOldSegments'
    <3>1. CASE RunSelectStream
      BY <1>3, <3>1 DEF RunSelectStream, listed
    <3>2. CASE RunStartSave
      <4>1. UNCHANGED m_lstOldSegments /\ m_segment_count' = Cardinality(Segments(m_lstOldSegments))
        BY <3>2 DEF RunStartSave, listed, urlVars
      <4>2. ASSUME ~sliding PROVE Cardinality(Segments(m_lstOldSegments)) = m_lstOldSegments
        <5>1. Segments(m_lstOldSegments) = 1 .. m_lstOldSegments
          BY <4>2 DEF Segments, First
        <5>2. Cardinality(1 .. m_lstOldSegments)
                = IF 1 > m_lstOldSegments THEN 0 ELSE m_lstOldSegments - 1 + 1
          BY <1>t, FS_Interval
        <5>3. (IF 1 > m_lstOldSegments THEN 0 ELSE m_lstOldSegments - 1 + 1) = m_lstOldSegments
          BY <1>t
        <5> QED BY <5>1, <5>2, <5>3, Zenon
      <4> QED BY <4>1, <4>2
    <3> QED BY <1>6, <3>1, <3>2
  <2>5. StartInv'
    BY <1>t, <1>1, <1>2, <1>3, <2>1, <2>4 DEF StartInv
  <2>6. ListInv'
    BY <1>1, <1>2, <2>1 DEF ListInv, Listed
  <2> QED BY <2>3, <2>5, <2>6 DEF DeletionInv
<1>7. CASE RunVod
  <2>1. /\ UNCHANGED <<reloadPc, savePc, m_segment_count, m_lstOldSegments>> /\ ~sliding
        /\ mainPc' = "loop" /\ m_dqTsUrl' = [i \in 1 .. m_lstOldSegments |-> i]
        /\ m3u8' = m_lstOldSegments \/ m3u8' = m3u8
    BY <1>7 DEF RunVod, WriteM3u8, startVars, listed, ThreadsInv
  <2>2. /\ DOMAIN m_dqTsUrl' = 1 .. m_lstOldSegments
        /\ \A i \in 1 .. m_lstOldSegments : m_dqTsUrl'[i] = i
    BY <1>t, <2>1
  <2>3. Wanted' = 1 .. m_lstOldSegments
    BY <2>2 DEF Wanted, ToSet
  <2>4. Rising(m_dqTsUrl')
    BY <2>2 DEF Rising
  <2>5. Seen' = 1 .. m_lstOldSegments
    BY <1>5, <2>3 DEF Seen
  <2>6. OrderInv'
    BY <1>t, <1>5, <2>1, <2>4, <2>5 DEF OrderInv
  <2>7. StartInv'
    BY <1>t, <1>1, <1>2, <2>1 DEF StartInv, Starting
  <2>8. ListInv'
    <3>1. Listed' => m3u8' = m_lstOldSegments'
      BY <1>2, <2>1 DEF Listed
    <3> QED BY <1>t, <1>1, <1>2, <2>1, <2>5, <3>1 DEF ListInv
  <2> QED BY <2>6, <2>7, <2>8 DEF DeletionInv
<1> QED BY <1>6, <1>7

(* A new playlist wants what is later than everything that was seen, and is
   written before the next one is asked for. *)
LEMMA ReloadOrder ==
  ASSUME TypeOK, TypeOK', FrontInv, ThreadsInv, DeletionInv, ReloadNew \/ ReloadWrite
  PROVE  DeletionInv'
<1>t. /\ m_dqTsUrl \in Seq(Nat) /\ m_lstOldSegments \in Nat /\ published \in Nat
      /\ m3u8 \in Nat /\ Window \in Nat \ {0}
      /\ OrderInv /\ StartInv /\ ListInv
  BY QueuesTyped, RecordingAssumption DEF DeletionInv
<1>f. /\ UNCHANGED <<sliding, published, mainPc, savePc, m_segment_count, url, m_dqTsBuffer,
                     m_lstTsHistory, removed>>
      /\ reloadPc # "none" /\ ~Starting
  BY DEF ReloadNew, ReloadWrite, notReload, source, startVars, queueVars, fileVars,
       ThreadsInv, Starting, listed
<1>b. sliding
  BY <1>t, <1>f DEF StartInv
<1>1. /\ waiting' = waiting /\ Written' = Written /\ Unwritten' = Unwritten /\ AtHand' = AtHand
      /\ m_lstTsHistory' \in Seq(Nat) /\ Rising(m_lstTsHistory') /\ Rising(waiting')
  BY <1>t, <1>f DEF waiting, Written, Unwritten, AtHand, OrderInv
<1>2. CASE ReloadWrite
  <2>1. /\ UNCHANGED <<m_dqTsUrl, m_lstOldSegments>> /\ reloadPc' = "check"
        /\ Listed' => m3u8' = m_lstOldSegments
    BY <1>2 DEF ReloadWrite, WriteM3u8, Listed, listed
  <2>2. Wanted' = Wanted /\ Seen' = Seen
    BY <1>1, <2>1 DEF Wanted, Seen
  <2>3. OrderInv'
    BY <1>t, <1>f, <1>1, <2>1, <2>2 DEF OrderInv
  <2>4. StartInv'
    BY <1>t, <1>f, <1>b, <2>1 DEF StartInv, Starting
  <2>5. ListInv'
    <3>1. \A y \in Seen' : y <= m_lstOldSegments
      BY <1>t, <2>2 DEF OrderInv
    <3>2. m_segment_count = Window =>
            \A x \in removed : x \in Nat /\ x + 3 * Window <= m_lstOldSegments
      BY <1>t DEF ListInv
    <3>3. ASSUME NEW x \in Nat, x + 3 * Window <= m_lstOldSegments
          PROVE  x + 2 * Window <= m_lstOldSegments
      BY <1>t, <3>3
    <3> QED BY <1>t, <1>f, <2>1, <3>1, <3>2, <3>3 DEF ListInv
  <2> QED BY <2>3, <2>4, <2>5 DEF DeletionInv
<1>3. CASE ReloadNew
  <2>1. PICK new, added :
          /\ new = Segments(published) \ Segments(m_lstOldSegments)
          /\ added = [i \in 1 .. Cardinality(new) |-> published - Cardinality(new) + i]
          /\ m_dqTsUrl' = m_dqTsUrl \o added
    BY <1>3, Zenon DEF ReloadNew, listed
  <2>2. /\ UNCHANGED <<m3u8, m3u8Late>> /\ reloadPc = "check" /\ reloadPc' = "write"
        /\ m_lstOldSegments' = published /\ m_lstOldSegments <= published
    BY <1>t, <1>3 DEF ReloadNew, listVars, StartInv, listed
  <2>3. /\ added \in Seq(Nat) /\ Rising(added)
        /\ \A x \in ToSet(added) : m_lstOldSegments < x /\ x <= published /\ published < x + Window
    BY <1>t, <1>b, <2>1, <2>2, AddedSegments
  <2>4. ToSet(added) \subseteq Nat
    BY <2>3, LenProperties, ElementOfSeq DEF ToSet
  <2>5. /\ Wanted' = Wanted \cup ToSet(added) /\ Rising(m_dqTsUrl')
    <3>1. \A x \in Wanted, y \in ToSet(added) : x < y
      <4>1. Wanted \subseteq Nat /\ \A x \in Wanted : x <= m_lstOldSegments
        BY <1>t, QueuesTyped DEF OrderInv, Seen
      <4> QED BY <1>t, <2>3, <2>4, <4>1
    <3> QED BY <1>t, <2>1, <2>3, <3>1, RisingJoined DEF Wanted, OrderInv
  <2>6. Seen' = Seen \cup ToSet(added)
    BY <1>1, <2>5 DEF Seen
  <2>7. /\ Seen \subseteq Nat /\ \A x \in Seen : 1 <= x /\ x <= m_lstOldSegments
    BY <1>t, QueuesTyped DEF OrderInv, Seen, AtHand
  <2>8. OrderInv'
    <3>1. \A x \in Seen, y \in ToSet(added) : x < y
      BY <1>t, <2>3, <2>4, <2>7
    <3>2. /\ \A x \in Written', y \in Unwritten' \cup AtHand' \cup Wanted' : x < y
          /\ \A x \in Unwritten', y \in AtHand' \cup Wanted' : x < y
          /\ \A x \in AtHand', y \in Wanted' : x < y
      BY <1>t, <1>1, <2>5, <3>1 DEF OrderInv, Seen
    <3>3. \A x \in Seen' : 1 <= x /\ x <= m_lstOldSegments'
      BY <1>t, <2>2, <2>3, <2>4, <2>6, <2>7
    <3>4. mainPc' = "get" => url' = Head(m_dqTsUrl')
      <4>1. ASSUME m_dqTsUrl # <<>> PROVE Head(m_dqTsUrl \o added) = Head(m_dqTsUrl)
        BY <1>t, <2>3, <4>1, EmptySeq, LenProperties, ConcatProperties, HeadTailProperties
      <4> QED BY <1>t, <1>f, <2>1, <4>1 DEF OrderInv, FrontInv
    <3> QED BY <1>1, <2>5, <3>2, <3>3, <3>4 DEF OrderInv
  <2>9. StartInv'
    BY <1>t, <1>f, <1>b, <2>2 DEF StartInv, Starting
  <2>10. ListInv'
    <3>1. Listed' = Listed /\ (Listed => m3u8 = m_lstOldSegments)
      BY <1>t, <2>2 DEF Listed, ListInv
    <3>2. Listed' => \A y \in Seen' : y <= m3u8' \/ m_lstOldSegments' < y + Window
      BY <2>2, <2>3, <2>6, <2>7, <3>1
    <3>3. m_segment_count' = Window =>
            \A x \in removed' : /\ x \in Nat /\ x + 3 * Window <= m_lstOldSegments'
                                /\ Listed' => x + 2 * Window <= m3u8'
      BY <1>t, <1>f, <2>2, <3>1 DEF ListInv
    <3> QED BY <1>t, <2>2, <3>1, <3>2, <3>3 DEF ListInv
  <2> QED BY <2>8, <2>9, <2>10 DEF DeletionInv
<1> QED BY <1>2, <1>3

(* No step puts a segment out of its place. *)
LEMMA DeletionKept ==
  TypeOK /\ TypeOK' /\ FrontInv /\ ThreadsInv /\ DeletionInv /\ [Next]_vars => DeletionInv'
<1> SUFFICES ASSUME TypeOK, TypeOK', FrontInv, ThreadsInv, DeletionInv, [Next]_vars
             PROVE  DeletionInv'
  OBVIOUS
<1>1. CASE \/ Server \/ RunFails \/ RunSaveValid \/ RunLive \/ LoopEnds \/ LoopTimeout \/ RunJoin
           \/ ReloadStops \/ ReloadEnd \/ SaveCheck \/ SaveFront \/ StopFlag \/ Stop \/ Deleted \/ UNCHANGED vars
  BY <1>1, QuietApart, StaysApart
<1>2. CASE LoopHead \/ LoopSkip \/ LoopFails \/ LoopDownloaded \/ LoopHandOver
  BY <1>2, LoopOrder
<1>3. CASE SaveWrite \/ SaveFails \/ SavePop
  BY <1>3, WriteOrder, PopOrder
<1>4. CASE RunSelectStream \/ RunStartSave \/ RunVod
  BY <1>4, RunOrder
<1>5. CASE ReloadNew \/ ReloadWrite
  BY <1>5, ReloadOrder
<1> QED BY <1>1, <1>2, <1>3, <1>4, <1>5 DEF Next, Main, Loop, Reload, Save

(* A file is deleted only when it is two windows behind the local playlist,
   although the reload thread writes the playlist, after what it adds is queued,
   while the worker writes and deletes: three playlists of files are kept, and at
   most one of them is newer than the playlist. *)
THEOREM NoListedFileRemoved == Spec => []ListedNotRemoved
<1>1. Init => DeletionInv
  <2> SUFFICES ASSUME Init PROVE DeletionInv
    OBVIOUS
  <2>1. /\ m_lstTsHistory = <<>> /\ m_dqTsBuffer = <<>> /\ m_dqTsUrl = <<>> /\ m_lstOldSegments = 0
        /\ removed = {} /\ m3u8 = 0 /\ mainPc = "getm3u8" /\ savePc = "none" /\ reloadPc = "none"
    BY DEF Init
  <2>2. ToSet(<<>>) = {} /\ Rising(<<>>) /\ <<>> \in Seq(Nat)
    BY EmptySeq DEF ToSet, Rising
  <2>3. waiting = <<>> /\ Written = {} /\ Unwritten = {} /\ AtHand = {} /\ Wanted = {}
    BY <2>1, <2>2 DEF waiting, Written, Unwritten, AtHand, Wanted
  <2>4. OrderInv
    BY <2>1, <2>2, <2>3 DEF OrderInv, Seen
  <2>5. published \in Nat
    BY InitTypes, RecordingAssumption DEF TypeOK, ControlOK
  <2> QED BY <2>1, <2>4, <2>5 DEF DeletionInv, StartInv, ListInv, Listed
<1>2. TypeOK /\ DeletionInv => ListedNotRemoved
  <2> SUFFICES ASSUME TypeOK, DeletionInv, m_segment_count = Window, ~m3u8Late,
                      NEW x \in removed, x \in Segments(m3u8)
               PROVE  FALSE
    BY DEF ListedNotRemoved
  <2>1. Window \in Nat \ {0} /\ m3u8 \in Nat /\ sliding
    BY RecordingAssumption DEF TypeOK, QueuesOK, DeletionInv, StartInv
  <2>2. x \in Nat /\ (m3u8 # 0 => x + 2 * Window <= m3u8)
    BY DEF DeletionInv, ListInv, Listed
  <2>3. CASE m3u8 = 0
    BY <2>1, <2>3 DEF Segments, First
  <2>4. CASE m3u8 # 0
    <3>1. m3u8 > Window
      BY <2>1, <2>2, <2>4
    <3>2. m3u8 - Window + 1 <= x
      BY <2>1, <3>1 DEF Segments, First
    <3> QED BY <2>1, <2>2, <2>4, <3>2
  <2> QED BY <2>3, <2>4
<1> QED BY <1>1, <1>2, AlwaysTyped, AlwaysThreads, DeletionKept, PTL DEF Spec
=============================================================================
