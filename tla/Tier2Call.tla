------------------------------ MODULE Tier2Call ------------------------------
(***************************************************************************)
(* One Tier 2 call from the session's worker thread to the Realtime API    *)
(* and back, through the breaker every call shares: realtime/client.py,    *)
(* realtime/stream.py, run_probe of agent/bridge.py and, around them,      *)
(* CircuitBreaker.  The calls of one session's thread (Caller) are         *)
(* modelled step by step, those of the other threads as in CircuitBreaker. *)
(*                                                                         *)
(* The call's time is counted in steps of about two seconds of the code.   *)
(* No step passes a deadline or leaves ready work of the event loop        *)
(* undone, and in each a line that is up delivers one frame (100 of the    *)
(* code's).  The breaker's clock runs on its own.                          *)
(*                                                                         *)
(* The API is external: it may refuse the connection, give a verdict when  *)
(* it is asked for one or, in its greeting, unasked, reply without one,    *)
(* send an error event, close the socket cleanly or not, leave the closing *)
(* handshake unanswered, or say nothing.  How a reply is parsed is left out: a menu's reply yields      *)
(* digits, an abstention or nothing.                                       *)
(***************************************************************************)
EXTENDS CircuitBreaker

CONSTANTS
  Caller,        \* the thread whose calls are looked at
  Pause,         \* the sleep before listening
  Listen,        \* listen_s, in frames
  ProbeTimeout,  \* timeout_s of probe_exchange
  MenuTimeout,   \* _timeout_s of RealtimeClient
  JoinSlack,     \* what _run waits beyond it
  CloseTimeout,  \* close_timeout of the websockets library
  Backstop       \* what StreamingProbe.probe waits

ASSUME CallAssumption == /\ Caller \in Thread
                         /\ {Pause, Listen, ProbeTimeout, MenuTimeout, JoinSlack, CloseTimeout,
                             Backstop} \subseteq Nat \ {0}

VARIABLES
  asking,    \* what Caller is asking for
  live,      \* no probe of the session has failed
  lineUp,    \* the business call's stream is up
  stage,     \* how far the exchange has come
  waited,    \* steps since Caller began to wait
  closing,   \* steps left for the closing handshake
  cancelled, \* the exchange's own timeout has fired
  feeder,    \* where the feeder task of a probe is
  paused,    \* steps left of its sleep
  inbound,   \* _probe_inbound is a queue
  queued,    \* frames put in it, the first Listen of them
  early,     \* how many of these before the greeting was asked for
  fed,       \* frames sent to be judged
  orphan,    \* an exchange nobody waits for any more is still running
  result,    \* what the exchange came to
  verdict,   \* observer: what the API was read to say
  unclear    \* observer: the API has replied without a verdict

timing   == <<waited, closing, cancelled>>
feeding  == <<feeder, paused, queued, early, fed>>
reading  == <<verdict, unclear>>
around   == <<asking, live, lineUp, orphan>>
callVars == <<around, stage, timing, feeding, inbound, result, reading>>
allVars  == <<vars, callVars>>

Timeout == IF asking = "probe" THEN ProbeTimeout ELSE MenuTimeout
Limit   == IF asking = "probe" THEN Backstop ELSE MenuTimeout + JoinSlack
MaxWait == IF Backstop > MenuTimeout + JoinSlack THEN Backstop ELSE MenuTimeout + JoinSlack

Tier2TypeOK ==
  /\ asking \in {"nothing", "menu", "probe"}
  /\ stage \in {"idle", "connecting", "open", "closing", "over"}
  /\ asking = "nothing" <=> stage = "idle"
  /\ asking = "nothing" <=> Caller \notin calling
  /\ waited \in 0..MaxWait
  /\ closing \in 0..CloseTimeout
  /\ feeder \in {"none", "sleeping", "draining", "asked"}
  /\ paused \in 0..Pause
  /\ early \in 0..queued /\ fed \in 0..queued /\ queued \in 0..Listen
  /\ result \in {"none", "digits", "abstain", "human", "not_human", "failed"}
  /\ verdict \in {"none", "human", "not_human"}
  /\ {live, lineUp, cancelled, inbound, orphan, unclear} \subseteq BOOLEAN

Tier2Init ==
  /\ Init
  /\ asking = "nothing"
  /\ stage = "idle"
  /\ waited = 0 /\ closing = 0 /\ cancelled = FALSE
  /\ feeder = "none" /\ paused = 0
  /\ queued = 0 /\ early = 0 /\ fed = 0
  /\ result = "none"
  /\ verdict = "none" /\ unclear = FALSE
  /\ inbound = FALSE
  /\ orphan = FALSE
  /\ live = TRUE
  /\ lineUp = TRUE

-----------------------------------------------------------------------------
(* The call starts.  A session asks while audio reaches it.                *)

MayAsk == live /\ lineUp /\ asking = "nothing"

\* breaker.call lets it through; run_probe, or _run with a thread of its own.
Ask(k) ==
  /\ MayAsk
  /\ Admit(Caller)
  /\ asking' = k
  /\ stage' = "connecting"
  /\ inbound' = (inbound \/ k = "probe")
  /\ UNCHANGED <<live, lineUp, orphan, timing, feeding, result, reading>>

\* CircuitOpenError, which ends the session whatever it asked for.
AskInVain ==
  /\ MayAsk
  /\ Reject(Caller)
  /\ live' = FALSE
  /\ UNCHANGED <<asking, lineUp, orphan, stage, timing, feeding, inbound, result, reading>>

-----------------------------------------------------------------------------
(* The exchange.                                                           *)

Running == stage \in {"connecting", "open", "closing"}

\* Out of the loop over the events, with this to return once the socket is
\* closed.
Leaving(r) ==
  /\ stage' = "closing"
  /\ closing' = CloseTimeout
  /\ result' = r

\* Out of the exchange: run_probe's finally takes its inbound queue away.
Left(r) ==
  /\ stage' = "over"
  /\ inbound' = (inbound /\ asking # "probe")
  /\ result' = r

\* session.update and the first request are sent.
Connected ==
  /\ stage = "connecting"
  /\ stage' = "open"
  /\ \/ asking = "probe" /\ feeder' = "sleeping" /\ paused' = Pause
     \/ asking = "menu" /\ UNCHANGED <<feeder, paused>>
  /\ UNCHANGED <<vars, around, timing, queued, early, fed, inbound, result, reading>>

NotConnected ==
  /\ stage = "connecting"
  /\ Left("failed")
  /\ UNCHANGED <<vars, around, timing, feeding, reading>>

WakeFeeder ==
  /\ stage = "open"
  /\ feeder = "sleeping"
  /\ paused = 0
  /\ feeder' = "draining"
  /\ UNCHANGED <<vars, around, stage, timing, paused, queued, early, fed, inbound, result,
                 reading>>

\* Mutant: the feeder does not wait for a frame.
FeedAnyway ==
  /\ stage = "open"
  /\ feeder = "draining"
  /\ fed < Listen
  /\ fed' = fed + 1
  /\ UNCHANGED <<vars, around, stage, timing, feeder, paused, queued, early, inbound, result,
                 reading>>

\* feed: the next frame of the queue, which has been filling since run_probe
\* made it.
Feed ==
  /\ stage = "open"
  /\ feeder = "draining"
  /\ fed < queued
  /\ fed' = fed + 1
  /\ UNCHANGED <<vars, around, stage, timing, feeder, paused, queued, early, inbound, result,
                 reading>>

\* feed: enough has been sent; commit, and ask for the verdict.
AskVerdict ==
  /\ stage = "open"
  /\ feeder = "draining"
  /\ fed = Listen
  /\ feeder' = "asked"
  /\ UNCHANGED <<vars, around, stage, timing, paused, queued, early, fed, inbound, result,
                 reading>>

\* Mutant: NOT HUMAN has HUMAN in it.
ReadVerdictAsHuman(v) ==
  /\ stage = "open"
  /\ asking = "probe"
  /\ verdict' = v
  /\ Leaving("human")
  /\ UNCHANGED <<vars, around, waited, cancelled, feeding, inbound, unclear>>

\* The text so far has a verdict in it: the transcript of what the API says as
\* well as its written answer, whether or not it was asked for.
ReadVerdict(v) ==
  /\ stage = "open"
  /\ asking = "probe"
  /\ verdict' = v
  /\ Leaving(v)
  /\ UNCHANGED <<vars, around, waited, cancelled, feeding, inbound, unclear>>

\* The API's reply is complete and has no verdict in it: the listening goes on.
ReadNoVerdict ==
  /\ stage = "open"
  /\ feeder = "asked"
  /\ unclear' = TRUE
  /\ UNCHANGED <<vars, around, stage, timing, feeding, inbound, result, verdict>>

\* Keys to press, no usable ones, or no text at all.
MenuResults == {"digits", "abstain", "failed"}

\* response.done of a menu turn.
ReadMenuReply ==
  /\ stage = "open"
  /\ asking = "menu"
  /\ \E r \in MenuResults : Leaving(r)
  /\ UNCHANGED <<vars, around, waited, cancelled, feeding, inbound, reading>>

ReadError ==
  /\ stage = "open"
  /\ Leaving("failed")
  /\ UNCHANGED <<vars, around, waited, cancelled, feeding, inbound, reading>>

\* The API closes the socket: a probe has then heard nobody, a menu turn takes
\* the text it has so far for the reply.
ClosedCleanly ==
  /\ stage = "open"
  /\ \/ asking = "probe" /\ Left("not_human")
     \/ asking = "menu" /\ \E r \in MenuResults : Left(r)
  /\ UNCHANGED <<vars, around, timing, feeding, reading>>

ConnectionLost ==
  /\ stage = "open"
  /\ Left("failed")
  /\ UNCHANGED <<vars, around, timing, feeding, reading>>

\* The closing handshake is answered, or given up.
SocketCloses ==
  /\ stage = "closing"
  /\ Left(result)
  /\ UNCHANGED <<vars, around, timing, feeding, reading>>

\* Mutant: a timeout is a read that heard nobody.
ResultOfTimeout == "not_human"

Unavailable == "failed"

\* asyncio.timeout, asyncio.wait_for: an open socket is closed first, and a
\* handshake that is under way is given up, whatever has been read.
TimesOut ==
  /\ Running
  /\ ~cancelled
  /\ waited >= Timeout
  /\ cancelled' = TRUE
  /\ \/ stage = "open" /\ Leaving(Unavailable) /\ UNCHANGED inbound
     \/ stage # "open" /\ Left(Unavailable) /\ UNCHANGED closing
  /\ UNCHANGED <<vars, around, waited, feeding, reading>>

-----------------------------------------------------------------------------
(* The thread goes on.                                                     *)

Reset ==
  /\ asking' = "nothing"
  /\ stage' = "idle"
  /\ waited' = 0 /\ closing' = 0 /\ cancelled' = FALSE
  /\ feeder' = "none" /\ paused' = 0
  /\ queued' = 0 /\ early' = 0 /\ fed' = 0
  /\ result' = "none"
  /\ verdict' = "none" /\ unclear' = FALSE

\* Mutant: a failed probe is survivable, as a failed menu read is.
SurvivesProbe(r) == FALSE

\* AgentSession: a probe that failed ends the call.
EndsSession(r) == asking = "probe" /\ r = "failed"

\* Mutant: the breaker does not hear of a call that raised.
LeaveUncounted ==
  /\ stage = "over"
  /\ Leave(Caller)
  /\ UNCHANGED <<breaker, failures, openFor, sinceTrip, healed>>
  /\ live' = (live /\ ~EndsSession(result))
  /\ Reset
  /\ UNCHANGED <<inbound, orphan, lineUp>>

\* The exchange has returned: a result that is not ok, or none, raises
\* Tier2Unavailable, which the breaker counts.
Return ==
  /\ stage = "over"
  /\ \/ result = "failed" /\ Failure(Caller)
     \/ result # "failed" /\ Success(Caller)
  /\ live' = (live /\ ~EndsSession(result))
  /\ Reset
  /\ UNCHANGED <<inbound, orphan, lineUp>>

\* The thread stops waiting; the exchange goes on without it.
StopWaiting ==
  /\ Running
  /\ waited >= Limit
  /\ Failure(Caller)
  /\ live' = (live /\ ~EndsSession("failed"))
  /\ orphan' = (orphan \/ asking = "probe")
  /\ Reset
  /\ UNCHANGED <<inbound, lineUp>>

\* It ends, and takes the inbound queue away, whosever that is by now.
OrphanEnds ==
  /\ orphan
  /\ orphan' = FALSE
  /\ inbound' = FALSE
  /\ UNCHANGED <<vars, asking, live, lineUp, stage, timing, feeding, result, reading>>

-----------------------------------------------------------------------------
\* The business hangs up, or the stream drops.
LineDrops ==
  /\ lineUp
  /\ lineUp' = FALSE
  /\ UNCHANGED <<vars, asking, live, orphan, stage, timing, feeding, inbound, result, reading>>

\* What the event loop and the thread do before time passes.
Urgent ==
  \/ stage = "over"
  \/ stage = "closing" /\ closing = 0
  \/ Running /\ ~cancelled /\ waited >= Timeout
  \/ Running /\ waited >= Limit
  \/ stage = "open" /\ feeder = "sleeping" /\ paused = 0
  \/ stage = "open" /\ feeder = "draining" /\ (fed = Listen \/ fed < queued)

Less(n) == IF n > 0 THEN n - 1 ELSE 0

\* on_agent_audio puts a frame in the queue of the probe that is running; frames
\* beyond the ones it will take are not counted.
Heard == IF lineUp /\ inbound /\ asking = "probe" /\ queued < Listen THEN 1 ELSE 0

Second ==
  /\ Running
  /\ ~Urgent
  /\ waited' = waited + 1
  /\ closing' = Less(closing)
  /\ paused' = Less(paused)
  /\ queued' = queued + Heard
  /\ early' = IF stage = "connecting" THEN early + Heard ELSE early
  /\ UNCHANGED <<vars, around, stage, cancelled, feeder, fed, inbound, result, reading>>

-----------------------------------------------------------------------------
Begin    == AskInVain \/ \E k \in {"menu", "probe"} : Ask(k)
Exchange == \/ Connected \/ NotConnected \/ WakeFeeder \/ Feed \/ AskVerdict
            \/ \E v \in {"human", "not_human"} : ReadVerdict(v)
            \/ ReadNoVerdict \/ ReadMenuReply \/ ReadError \/ ClosedCleanly
            \/ ConnectionLost \/ SocketCloses \/ TimesOut
Resume   == Return \/ StopWaiting

\* The other threads, whoever looks at the breaker, and its clock.
Others ==
  /\ \/ Look \/ Tick
     \/ \E t \in Thread \ {Caller} : Admit(t) \/ Reject(t) \/ Success(t) \/ Failure(t)
  /\ UNCHANGED callVars

Tier2Next == Begin \/ Exchange \/ Resume \/ OrphanEnds \/ LineDrops \/ Second \/ Others

\* Time passes; the event loop runs what is ready and the thread what it is
\* given; another thread's call ends, as this one is shown to.
Tier2Fairness ==
  /\ WF_allVars(Second)
  /\ WF_allVars(Tick /\ UNCHANGED callVars)
  /\ WF_allVars((WakeFeeder \/ Feed \/ AskVerdict \/ SocketCloses \/ TimesOut) /\ Urgent)
  /\ WF_allVars(Resume)
  /\ \A t \in Thread \ {Caller} : WF_allVars((Success(t) \/ Failure(t)) /\ UNCHANGED callVars)

Tier2Spec == Tier2Init /\ [][Tier2Next]_allVars /\ Tier2Fairness

-----------------------------------------------------------------------------
(* Properties.                                                             *)

\* circuit_breaker.py:55-65 around client.py:102-119 and stream.py:251-260:
\* through timeouts, lost connections, unanswered handshakes and exchanges that
\* are given up, a call does nothing to the breaker but what CircuitBreaker
\* allows, and it ends.
GuardedCallEnds == FairSpec

\* stream.py:148-171 with bridge.py:158-175: whichever of the verdict, the
\* timeout, an error, the socket's end and its handshake comes first, a probe that
\* timed out is no reading, a human is reported only on a verdict read in this
\* very exchange, and a verdict that was read is reported unless the timeout came.
AnswersAreReads ==
  stage = "over" /\ asking = "probe" =>
    /\ cancelled => result = "failed"
    /\ result = "human" => verdict = "human"
    /\ verdict # "none" /\ ~cancelled => result = verdict

\* bridge.py:164, 173: a probe that is running has its inbound queue, also when
\* an exchange nobody waits for any more takes "the" queue away.
OwnInbound == asking = "probe" /\ Running => inbound

-----------------------------------------------------------------------------
(* What the documents say of the code, and the code does not do.           *)

\* m5-bridge.md:116-117 "ambiguous => NOT HUMAN", stream.py:61-63: a probe whose
\* reply is complete and has no verdict is a reading of nobody, not a failure.
NoClearRead ==
  [][unclear /\ stage = "open" /\ cancelled' => result' = "not_human"]_allVars

\* stream.py:52-53 "Classify ONLY what you heard since your greeting", :119 "let
\* the greeting play first": what a verdict that was asked for is about was heard,
\* in part at least, after the greeting was asked for.
HeardSinceGreeting == verdict # "none" /\ feeder = "asked" => fed > early
=============================================================================
