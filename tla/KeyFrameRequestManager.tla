----------------------- MODULE KeyFrameRequestManager -----------------------
(***************************************************************************)
(* The key frame requests of a Producer.  Consumers ask for key frames at  *)
(* any rate; the manager turns the calls into PLI or FIR requests to the   *)
(* sender.  It keeps two one-shot timers per SSRC: a PendingKeyFrameInfo   *)
(* that waits for the key frame and repeats a lost request, and, when      *)
(* keyFrameRequestDelay is set, a KeyFrameRequestDelayer that spaces the   *)
(* requests out.                                                           *)
(*                                                                         *)
(* Time advances in ticks and a timer that is due fires before the next    *)
(* tick, as the event loop runs due timers first.                          *)
(***************************************************************************)
EXTENDS Integers

CONSTANTS
    Ssrcs,
    Wait,       \* KeyFrameRetransmissionWaitTime
    Delay       \* keyFrameRequestDelay, 0 when disabled

ASSUME TimesAssumption == Wait \in Nat \ {0} /\ Delay \in Nat

VARIABLES
    pending,            \* mapSsrcPendingKeyFrameInfo: ticks left, or None
    retryOnTimeout,     \* the pending infos with PendingKeyFrameInfo::retryOnTimeout
    delayer,            \* mapSsrcKeyFrameRequestDelayer: ticks left, or None
    keyFrameRequested,  \* the delayers with KeyFrameRequestDelayer::keyFrameRequested
    waiting,            \* history: ticks since the oldest call that no request
                        \* and no key frame has followed, or None
    since               \* history: ticks since a call led to a request, up to Delay

vars == <<pending, retryOnTimeout, delayer, keyFrameRequested, waiting, since>>

\* No entry in the map.
None == -1

Init ==
    /\ pending = [s \in Ssrcs |-> None]
    /\ retryOnTimeout = {}
    /\ delayer = [s \in Ssrcs |-> None]
    /\ keyFrameRequested = {}
    /\ waiting = [s \in Ssrcs |-> None]
    /\ since = [s \in Ssrcs |-> Delay]

\* listener->OnKeyFrameNeeded(): the request goes out.
Answered(s) == waiting' = [waiting EXCEPT ![s] = None]

\* A call is now unanswered, unless an older one already is.
Unanswered(s) == waiting' = [waiting EXCEPT ![s] = IF @ = None THEN 0 ELSE @]

\* A new PendingKeyFrameInfo, or a restarted one that will retry.
Expect(s) ==
    /\ pending' = [pending EXCEPT ![s] = Wait]
    /\ retryOnTimeout' = retryOnTimeout \cup {s}

\* A new KeyFrameRequestDelayer in place of what there was.
NewDelayer(s) ==
    /\ delayer' = [delayer EXCEPT ![s] = IF Delay > 0 THEN Delay ELSE None]
    /\ keyFrameRequested' = keyFrameRequested \ {s}

\* Mutant: a key frame needed while one is pending is not asked for again.
NeedNow_NoRetry(s) ==
    \/ /\ pending[s] # None
       /\ Unanswered(s)
       /\ UNCHANGED <<pending, retryOnTimeout, since>>
    \/ /\ pending[s] = None
       /\ Expect(s)
       /\ Answered(s)
       /\ since' = [since EXCEPT ![s] = 0]

\* The second half of KeyFrameNeeded(): a key frame that is already pending
\* will be asked for again, otherwise it is asked for now.
NeedNow(s) ==
    \/ /\ pending[s] # None
       /\ retryOnTimeout' = retryOnTimeout \cup {s}
       /\ Unanswered(s)
       /\ UNCHANGED <<pending, since>>
    \/ /\ pending[s] = None
       /\ Expect(s)
       /\ Answered(s)
       /\ since' = [since EXCEPT ![s] = 0]

\* Mutant: the delay between two requests is not kept.
KeyFrameNeeded_IgnoreDelayer(s) == NewDelayer(s) /\ NeedNow(s)

KeyFrameNeeded(s) ==
    \/ /\ delayer[s] # None
       /\ keyFrameRequested' = keyFrameRequested \cup {s}
       /\ Unanswered(s)
       /\ UNCHANGED <<pending, retryOnTimeout, delayer, since>>
    \/ /\ delayer[s] = None
       /\ NewDelayer(s)
       /\ NeedNow(s)

ForceKeyFrameNeeded(s) ==
    /\ NewDelayer(s)
    /\ Expect(s)
    /\ Answered(s)
    /\ since' = [since EXCEPT ![s] = 0]

\* Deletes the PendingKeyFrameInfo.
Forget(s) ==
    /\ pending' = [pending EXCEPT ![s] = None]
    /\ retryOnTimeout' = retryOnTimeout \ {s}

KeyFrameReceived(s) ==
    /\ Forget(s)
    /\ Answered(s)
    /\ UNCHANGED <<delayer, keyFrameRequested, since>>

OnKeyFrameRequestTimeout(s) ==
    /\ pending[s] = 0
    /\ \/ /\ s \notin retryOnTimeout
          /\ Forget(s)
          /\ UNCHANGED waiting
       \/ /\ s \in retryOnTimeout
          /\ pending' = [pending EXCEPT ![s] = Wait]
          /\ retryOnTimeout' = retryOnTimeout \ {s}
          /\ Answered(s)
    /\ UNCHANGED <<delayer, keyFrameRequested, since>>

\* The delayer is deleted; a call made meanwhile is now made again, which
\* creates the next delayer.
OnKeyFrameDelayTimeout(s) ==
    /\ delayer[s] = 0
    /\ \/ /\ s \in keyFrameRequested
          /\ NewDelayer(s)
          /\ NeedNow(s)
       \/ /\ s \notin keyFrameRequested
          /\ delayer' = [delayer EXCEPT ![s] = None]
          /\ UNCHANGED <<pending, retryOnTimeout, keyFrameRequested, waiting, since>>

\* One tick of the clock.
Tick ==
    /\ \A s \in Ssrcs : pending[s] # 0 /\ delayer[s] # 0
    /\ pending' = [s \in Ssrcs |-> IF pending[s] = None THEN None ELSE pending[s] - 1]
    /\ delayer' = [s \in Ssrcs |-> IF delayer[s] = None THEN None ELSE delayer[s] - 1]
    /\ waiting' = [s \in Ssrcs |-> IF waiting[s] = None THEN None ELSE waiting[s] + 1]
    /\ since' = [s \in Ssrcs |-> IF since[s] < Delay THEN since[s] + 1 ELSE since[s]]
    /\ UNCHANGED <<retryOnTimeout, keyFrameRequested>>

Timeout(s) == OnKeyFrameRequestTimeout(s) \/ OnKeyFrameDelayTimeout(s)

Next ==
    \/ \E s \in Ssrcs :
          \/ KeyFrameNeeded(s)
          \/ ForceKeyFrameNeeded(s)
          \/ KeyFrameReceived(s)
          \/ Timeout(s)
    \/ Tick

\* Time passes and due timers fire.
Fairness == WF_vars(Tick) /\ \A s \in Ssrcs : WF_vars(Timeout(s))

Spec == Init /\ [][Next]_vars

FairSpec == Spec /\ Fairness

(***************************************************************************)
(* Properties.                                                             *)
(***************************************************************************)

\* Timers stay within their periods, and the flags are flags of objects that
\* exist.
TypeOK ==
    /\ pending \in [Ssrcs -> None..Wait]
    /\ retryOnTimeout \subseteq {s \in Ssrcs : pending[s] # None}
    /\ delayer \in [Ssrcs -> None..Delay]
    /\ keyFrameRequested \subseteq {s \in Ssrcs : delayer[s] # None}
    /\ waiting \in [Ssrcs -> Int]
    /\ since \in [Ssrcs -> 0..Delay]

\* No call of KeyFrameNeeded() is forgotten between the two timers: a request
\* or a key frame follows it within the delay plus the retransmission wait.
NeedsAreServed == \A s \in Ssrcs : waiting[s] <= Delay + Wait

\* keyFrameRequestDelay spaces out the requests that calls of KeyFrameNeeded()
\* lead to, at once or when the delayer fires; only a forced one and the
\* repetition of a lost request do not wait.
RequestsSpacedOut ==
    [][\A s \in Ssrcs :
          KeyFrameNeeded(s) \/ OnKeyFrameDelayTimeout(s) =>
              since'[s] = since[s] \/ since[s] = Delay]_vars

\* Requests are not repeated for ever: when calls stop, the manager forgets the
\* SSRC even if no key frame comes.
Subsides ==
    \A s \in Ssrcs :
        <>[][~KeyFrameNeeded(s) /\ ~ForceKeyFrameNeeded(s)]_vars
            => <>[](pending[s] = None /\ delayer[s] = None)
=============================================================================
