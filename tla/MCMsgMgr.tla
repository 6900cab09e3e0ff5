------------------------------- MODULE MCMsgMgr -------------------------------
(* The thread of Run and the thread of ReloadFun. *)
EXTENDS MsgMgr
CONSTANTS run, reload
MCPoster == {run, reload}
=============================================================================
