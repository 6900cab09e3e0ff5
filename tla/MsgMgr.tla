-------------------------------- MODULE MsgMgr --------------------------------
(***************************************************************************)
(* CMsgMgr: the queue between the threads of the HLS analyser, which post  *)
(* messages, and one worker, which hands them to the application's         *)
(* callback; and CHlsAnalysisImpl's stop and destruction, which clear the  *)
(* queue and end the worker.                                               *)
(*                                                                         *)
(* A critical section under m_muxMsg is one step.  The event m_hEvent only *)
(* shortens a wait of 10 ms.  A message is the pair of the thread that     *)
(* posts it and a number.                                                  *)
(***************************************************************************)
EXTENDS Integers, Sequences, FiniteSets, SequencesExt

CONSTANTS
  Poster,   \* threads that post: Run's and ReloadFun's
  MaxPosts  \* bound: messages each of them posts

ASSUME PosterAssumption == IsFiniteSet(Poster) /\ MaxPosts \in Nat

VARIABLES
  m_dqMsg,
  workerPc,
  param,        \* the message the worker took last
  m_bActiveStop,
  api,          \* CHlsAnalysisImpl's Stop and destructor
  posting,      \* threads that may still post
  posted,       \* messages in the order they were queued (history)
  delivered     \* messages given to the callback (history)

msgVars == <<m_dqMsg, workerPc, param, m_bActiveStop, api, posting, posted, delivered>>

NoMsg == <<>>
Message == Poster \X (1 .. MaxPosts)
PostsOf(p) == Cardinality({i \in DOMAIN posted : posted[i][1] = p})

\* Init of CMsgMgr starts the worker
MsgInit ==
  /\ m_dqMsg = <<>> /\ workerPc = "check" /\ param = NoMsg
  /\ m_bActiveStop = FALSE /\ api = "idle"
  /\ posting = Poster /\ posted = <<>> /\ delivered = <<>>

-----------------------------------------------------------------------------
(* The posting threads *)

\* HlsPostMessageComm
HlsPostMessage(p) ==
  /\ p \in posting /\ PostsOf(p) < MaxPosts
  /\ LET m == <<p, PostsOf(p) + 1>>
     IN m_dqMsg' = Append(m_dqMsg, m) /\ posted' = Append(posted, m)
  /\ UNCHANGED <<workerPc, param, m_bActiveStop, api, posting, delivered>>

\* the thread ends, of itself or because it was told to
PosterEnds(p) ==
  /\ p \in posting
  /\ posting' = posting \ {p}
  /\ UNCHANGED <<m_dqMsg, workerPc, param, m_bActiveStop, api, posted, delivered>>

-----------------------------------------------------------------------------
(* WorkFun *)

otherThanWorker == <<m_bActiveStop, api, posting, posted>>

WorkCheckStop ==
  /\ workerPc = "check"
  /\ workerPc' = IF m_bActiveStop THEN "done" ELSE "empty"
  /\ UNCHANGED <<otherThanWorker, m_dqMsg, param, delivered>>

\* mutant: only the first round asks
WorkTestOnce ==
  /\ workerPc = "empty"
  /\ workerPc' = IF m_dqMsg = <<>> /\ delivered = <<>> THEN "check" ELSE "front"
  /\ UNCHANGED <<otherThanWorker, m_dqMsg, param, delivered>>

WorkTestEmpty ==
  /\ workerPc = "empty"
  /\ workerPc' = IF m_dqMsg = <<>> THEN "check" ELSE "front"
  /\ UNCHANGED <<otherThanWorker, m_dqMsg, param, delivered>>

\* mutants: the message is popped and not sent; the newest one is taken first
WorkFrontDropped ==
  /\ workerPc = "front" /\ m_dqMsg # <<>>
  /\ workerPc' = "check"
  /\ m_dqMsg' = Tail(m_dqMsg)
  /\ UNCHANGED <<otherThanWorker, param, delivered>>

WorkBack ==
  /\ workerPc = "front" /\ m_dqMsg # <<>>
  /\ workerPc' = "send"
  /\ param' = Last(m_dqMsg)
  /\ m_dqMsg' = Front(m_dqMsg)
  /\ UNCHANGED <<otherThanWorker, delivered>>

\* front and pop_front in a critical section of their own
WorkFront ==
  /\ workerPc = "front" /\ m_dqMsg # <<>>
  /\ workerPc' = "send"
  /\ param' = Head(m_dqMsg)
  /\ m_dqMsg' = Tail(m_dqMsg)
  /\ UNCHANGED <<otherThanWorker, delivered>>

\* Clear came between: front() of an empty deque reads a destroyed message and
\* pop_front destroys it again; the process is lost
WorkFrontOfEmpty ==
  /\ workerPc = "front" /\ m_dqMsg = <<>>
  /\ workerPc' = "undefined"
  /\ UNCHANGED <<otherThanWorker, m_dqMsg, param, delivered>>

\* the application's callback
HlsSendMessage ==
  /\ workerPc = "send"
  /\ workerPc' = "check"
  /\ delivered' = Append(delivered, param)
  /\ UNCHANGED <<otherThanWorker, m_dqMsg, param>>

Worker == WorkCheckStop \/ WorkTestEmpty \/ WorkFront \/ WorkFrontOfEmpty \/ HlsSendMessage

-----------------------------------------------------------------------------
(* CHlsAnalysisImpl *)

otherThanApi == <<workerPc, param, posting, posted, delivered>>

\* Stop joins the thread of Run, which has joined that of ReloadFun
StopJoin ==
  /\ api = "idle" /\ posting = {}
  /\ api' = "clear"
  /\ UNCHANGED <<otherThanApi, m_dqMsg, m_bActiveStop>>

\* the last step of Stop
StopClear ==
  /\ api = "clear" /\ api' = "destroy"
  /\ m_dqMsg' = <<>>
  /\ UNCHANGED <<otherThanApi, m_bActiveStop>>

\* the destructor, CMsgMgr::Destroy: Clear, then the flag
DestroyClear ==
  /\ api = "destroy" /\ api' = "setstop"
  /\ m_dqMsg' = <<>>
  /\ UNCHANGED <<otherThanApi, m_bActiveStop>>

\* mutant: the worker is not told
DestroySilently ==
  /\ api = "setstop" /\ api' = "joinworker"
  /\ UNCHANGED <<otherThanApi, m_dqMsg, m_bActiveStop>>

DestroyFlag ==
  /\ api = "setstop" /\ api' = "joinworker"
  /\ m_bActiveStop' = TRUE
  /\ UNCHANGED <<otherThanApi, m_dqMsg>>

\* Ei_MsgWaitForSingleObjects(.., 500) has no timeout: it joins
DestroyJoin ==
  /\ api = "joinworker" /\ workerPc = "done"
  /\ api' = "deleted"
  /\ UNCHANGED <<otherThanApi, m_dqMsg, m_bActiveStop>>

InCall == StopClear \/ DestroyClear \/ DestroyFlag \/ DestroyJoin

\* the object is gone, or the process
Ended == (api = "deleted" \/ workerPc = "undefined") /\ UNCHANGED msgVars

Post == \E p \in Poster : HlsPostMessage(p) \/ PosterEnds(p)

MsgNext ==
  \/ (workerPc # "undefined" /\ (Post \/ Worker \/ StopJoin \/ InCall))
  \/ Ended

MsgSpec == MsgInit /\ [][MsgNext]_msgVars

(* The worker is scheduled, and the callback returns; a call that has begun
   goes on.  Nobody has to post or to stop. *)
FairMsgSpec ==
  MsgSpec /\ WF_msgVars(Worker) /\ WF_msgVars(workerPc # "undefined" /\ InCall)

-----------------------------------------------------------------------------
(* Properties *)

MsgTypeOK ==
  /\ m_dqMsg \in Seq(Message)
  /\ workerPc \in {"check", "empty", "front", "send", "done", "undefined"}
  /\ param \in Message \cup {NoMsg}
  /\ m_bActiveStop \in BOOLEAN
  /\ api \in {"idle", "clear", "destroy", "setstop", "joinworker", "deleted"}
  /\ posting \subseteq Poster
  /\ posted \in Seq(Message)
  /\ delivered \in Seq(Message)

(* The callback sees the messages in the order they were posted, none twice
   and none left out before Stop clears the rest. *)
DeliveredInOrder ==
  /\ IsPrefix(delivered, posted)
  /\ api \in {"idle", "clear"} =>
       posted = delivered \o (IF workerPc = "send" THEN <<param>> ELSE <<>>) \o m_dqMsg

(* A posted message reaches the callback unless Stop clears the queue first. *)
PostedIsDelivered ==
  \A m \in Message :
    m \in ToSet(m_dqMsg) ~> (m \in ToSet(delivered) \/ api \notin {"idle", "clear"})

(* Destroy returns: the worker sees the flag whatever it was doing. *)
DestroyReturns == api = "destroy" ~> (api = "deleted" \/ workerPc = "undefined")

(* The message WorkFun has seen is still there when it takes it, in a critical
   section of its own, as long as nobody has called Clear. *)
FrontHasMessage ==
  workerPc \in {"front", "undefined"} /\ m_dqMsg = <<>> => api \notin {"idle", "clear"}
=============================================================================
