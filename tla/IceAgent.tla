------------------------------ MODULE IceAgent ------------------------------
(***************************************************************************)
(* What a WebRtcTransport relies on from its ICE agent: a connectivity     *)
(* state that moves as below, and a selected tuple exactly while there is  *)
(* connectivity.  Module IceServer implements it.                          *)
(***************************************************************************)
VARIABLES iceState, selected, alive

agentVars == <<iceState, selected, alive>>

Connectivity == {"connected", "completed"}

AgentInit == iceState = "new" /\ selected = FALSE /\ alive = TRUE

Become(s) ==
    /\ alive /\ UNCHANGED alive
    /\ iceState' = s
    /\ selected' = (s \in Connectivity)

Connect == iceState \in {"new", "disconnected"} /\ Become("connected")

Complete == iceState # "completed" /\ Become("completed")

Disconnect == iceState \in Connectivity /\ Become("disconnected")

Destroyed ==
    /\ alive /\ alive' = FALSE
    /\ selected' = FALSE
    /\ UNCHANGED iceState

AgentNext == Connect \/ Complete \/ Disconnect \/ Destroyed

AgentSpec == AgentInit /\ [][AgentNext]_agentVars
=============================================================================
