---------------------------- MODULE MCRtpHelpers ----------------------------
(***************************************************************************)
(* Four helpers of the RTP streams that share no state: the renumbering of *)
(* a Consumer, the NACK list of a received stream, the retransmission      *)
(* buffer of a sent one and the key frame requests of a Producer.  A       *)
(* behaviour is one of a single helper, on numbers of 4 bits.              *)
(***************************************************************************)
EXTENDS SeqManager, NackGenerator, RtpRetransmissionBuffer, KeyFrameRequestManager

CONSTANT Helpers    \* those that are run

VARIABLE helper

mcVars == <<helper, seqVars, nackVars, buffer, vars>>

MCInit ==
    /\ helper \in Helpers
    /\ SeqInit /\ NackInit /\ BufferInit /\ Init

MCNext ==
    /\ UNCHANGED helper
    /\ \/ helper = "seq" /\ SeqNext /\ UNCHANGED <<nackVars, buffer, vars>>
       \/ helper = "nack" /\ NackNext /\ UNCHANGED <<seqVars, buffer, vars>>
       \/ helper = "buffer" /\ BufferNext /\ UNCHANGED <<seqVars, nackVars, vars>>
       \/ helper = "keyframes" /\ Next /\ UNCHANGED <<seqVars, nackVars, buffer>>

MCSpec == MCInit /\ [][MCNext]_mcVars

\* The event loop runs the timers of the helper that is there.
MCFairSpec ==
    /\ MCSpec
    /\ WF_mcVars(helper = "nack" /\ NackTick /\ UNCHANGED <<helper, seqVars, buffer, vars>>)
    /\ WF_mcVars(helper = "nack" /\ OnTimer /\ UNCHANGED <<helper, seqVars, buffer, vars>>)
    /\ WF_mcVars(helper = "keyframes" /\ Tick
                    /\ UNCHANGED <<helper, seqVars, nackVars, buffer>>)
    /\ \A s \in Ssrcs :
          WF_mcVars(helper = "keyframes" /\ Timeout(s)
                        /\ UNCHANGED <<helper, seqVars, nackVars, buffer>>)

\* A Consumer's receiver sees holes for lost packets only, and the state from which the
\* next outputs and syncs are computed is that of the packets sent and dropped, each once.
RenumberingExact == SeqTypeOK /\ OutputsExact /\ MaximaExact /\ RecentDropsKept

\* The NACK list is right: no packet that came is asked for and none that is missing is
\* left out; it keeps to its limits, and while it has entries the timer runs.
\* (NackGenerator.cpp ReceivePacket(), AddPacketsToNackList(), GetNackBatch().)
ListExact == NackTypeOK /\ NoNeedlessNack /\ LostIsListed /\ ListWithinLimits /\ TimerRuns

\* Requests for packets and for key frames come to an end.
RequestsEnd == NackEnds /\ Subsides
=============================================================================
