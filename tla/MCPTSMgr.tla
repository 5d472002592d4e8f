------------------------------ MODULE MCPTSMgr ------------------------------
(***************************************************************************)
(* Instances of PTSMgr for TLC.                                            *)
(***************************************************************************)
EXTENDS PTSMgr

\* Rewinding, frozen, normal and double speed.
AllSpeeds == {-100, 0, 100, 200}

\* Normal and double speed, and pauses.
ForwardSpeeds == {100, 200}

\* At the start, in time, past the clamp, around the wrap and after it.
SubtitleTimes == {0, 3, 8, 13, 15, 16, 18}

=============================================================================
