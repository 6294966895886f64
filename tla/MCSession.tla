------------------------------ MODULE MCSession ------------------------------
(* A small instance of Session for TLC: one id for every way an id can decode, *)
(* in any state of either version.                                             *)
EXTENDS Session

(* 0 and 3 carry the protocol forward; 1 is Ping, or a fatal or ignored packet; *)
(* 99 is in no table; NoId is too short for an id, Broken no frame.            *)
MCFrameIds == {0, 1, 3, 99, NoId, Broken}
==============================================================================
