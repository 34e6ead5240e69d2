---------------------------- MODULE MCSyncBridge ---------------------------
(***************************************************************************)
(* Model-checking instance of the synchronous bridge.                      *)
(***************************************************************************)
EXTENDS SyncBridge

MCChunkSizes == {1, 2}
MCOperations == {"request", "requestMany", "createSession", "sessionRequest", "sessionClose", "close"}
=============================================================================
