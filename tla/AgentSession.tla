---------------------------- MODULE AgentSession ----------------------------
(***************************************************************************)
(* One live call: agent/session.py around the call-phase machine, with the *)
(* single-slot Tier 2 executor of agent/executor.py.                       *)
(*                                                                         *)
(* The media loop runs _run_tick in phases, each an action here: observe,  *)
(* dispatch what the machine asked for, fire a menu wake that has become   *)
(* due, poll the Tier 2 slot and apply its result.  `pc' is the phase the  *)
(* loop is in; "feed" is the point between two ticks, where the event loop *)
(* may run something else (abort).  The Tier 2 worker thread interleaves   *)
(* with every phase.  The rolling buffer, the classifier and the telemetry *)
(* events are abstracted: a tick hears any label the classifier can emit.  *)
(***************************************************************************)
EXTENDS CallStateMachine

CONSTANTS
  MenuCollect,     \* menu_collect_s, in intervals
  Tier2Error,      \* the ways a Tier 2 call can raise in this deployment
  MenuEntryBound   \* bound of the model: times the line may lead into a menu

Errors == {"Tier2Unavailable", "CircuitOpenError", "NotImplementedError", "Exception"}

ASSUME SessionAssumption == /\ MenuCollect \in Nat
                            /\ Tier2Error \subseteq Errors
                            /\ MenuEntryBound \in Nat

VARIABLES
  pc,          \* the phase of the tick
  wakePending, \* _menu_wake_due is not None
  wakeLeft,    \* intervals until _menu_wake_due
  kind,        \* _tier2_kind
  job,         \* the executor's slot: empty, running, or what the call came to
  finished,    \* finished
  outcomes,    \* what has been reported of the call: completed, failed
  entries,     \* observer: times IVR_MENU was entered
  unread,      \* observer: Tier 2 calls submitted whose answer was not yet taken
  stale,       \* observer: the phase that asked for the Tier 2 call was left
  late         \* observer: digits pressed outside a menu

sessionVars == <<pc, wakePending, wakeLeft, kind, job, finished, outcomes, entries, unread, stale,
                 late>>
vars == <<fsmVars, sessionVars>>

Phase    == {"feed", "dispatch", "wake", "poll", "handoff", "complete"}
Kind     == {"menu", "probe"}
Answer(k) == (IF k = "menu" THEN {"digits", "abstain"} ELSE {"human", "not_human"})
               \union Tier2Error
Job      == {"empty", "running", "digits", "abstain", "human", "not_human"} \union Errors

SessionTypeOK ==
  /\ TypeOK
  /\ pc \in Phase
  /\ wakePending \in BOOLEAN
  /\ wakeLeft \in 0..MenuCollect
  /\ kind \in Kind \union {"none"}
  /\ job \in Job
  /\ finished \in BOOLEAN
  /\ outcomes \subseteq {"completed", "failed"}
  /\ entries \in 0..MenuEntryBound
  /\ unread \in Nat
  /\ stale \in BOOLEAN
  /\ late \in Nat

Init ==
  /\ FsmInit
  /\ pc = "feed"
  /\ wakePending = FALSE
  /\ wakeLeft = 0
  /\ kind = "none"
  /\ job = "empty"
  /\ finished = FALSE
  /\ outcomes = {}
  /\ entries = 0
  /\ unread = 0
  /\ stale = FALSE
  /\ late = 0

-----------------------------------------------------------------------------
(* feed_audio and the observation of _run_tick.                            *)

EntersMenu == state # "IVR_MENU" /\ state' = "IVR_MENU"

Tick(l, confident, e) ==
  /\ pc = "feed"
  /\ ~finished
  /\ Observe(l, confident, e)
  /\ entries' = IF EntersMenu THEN entries + 1 ELSE entries
  /\ entries' <= MenuEntryBound
  /\ stale' = (stale \/ (kind # "none" /\ state' # state))
  /\ wakeLeft' = Left(wakeLeft, e)
  /\ pc' = "dispatch"
  /\ UNCHANGED <<wakePending, kind, job, unread, finished, outcomes, late>>

\* feed_audio on a finished session returns at once.
FeedAfterEnd ==
  /\ pc = "feed"
  /\ finished
  /\ UNCHANGED vars

-----------------------------------------------------------------------------
(* Starting and ending things.                                             *)

\* _start_menu, _start_probe: submit to the executor's slot.
StartTier2(k) ==
  /\ kind' = k
  /\ job' = "running"
  /\ unread' = unread + 1
  /\ stale' = FALSE

\* _fail: the machine itself is left where it is.
Fail ==
  /\ finished' = TRUE
  /\ outcomes' = outcomes \union {"failed"}

-----------------------------------------------------------------------------
(* _dispatch of what observe returned.                                     *)

DispatchNone ==
  /\ pc = "dispatch"
  /\ asked = "NONE"
  /\ pc' = "wake"
  /\ UNCHANGED <<fsmVars, wakePending, wakeLeft, kind, job, finished, outcomes,
                 entries, unread, stale, late>>

DispatchMenuWake ==
  /\ pc = "dispatch"
  /\ asked = "WAKE_TIER2_MENU"
  /\ wakePending' = TRUE
  /\ wakeLeft' = MenuCollect
  /\ pc' = "wake"
  /\ UNCHANGED <<fsmVars, kind, job, finished, outcomes, entries, unread, stale, late>>

\* Mutant: submit, whatever is outstanding.
DispatchProbeWakeAnyway ==
  /\ pc = "dispatch"
  /\ asked = "WAKE_TIER2_PROBE"
  /\ StartTier2("probe")
  /\ pc' = "wake"
  /\ UNCHANGED <<fsmVars, wakePending, wakeLeft, finished, outcomes, entries, late>>

\* A probe asked for while another call is outstanding is dropped.
DispatchProbeWake ==
  /\ pc = "dispatch"
  /\ asked = "WAKE_TIER2_PROBE"
  /\ \/ kind = "none" /\ StartTier2("probe")
     \/ kind # "none" /\ UNCHANGED <<kind, job, unread, stale>>
  /\ pc' = "wake"
  /\ UNCHANGED <<fsmVars, wakePending, wakeLeft, finished, outcomes, entries, late>>

DispatchFail ==
  /\ pc = "dispatch"
  /\ asked = "FAIL"
  /\ Fail
  /\ pc' = "wake"
  /\ UNCHANGED <<fsmVars, wakePending, wakeLeft, kind, job, entries, unread, stale, late>>

-----------------------------------------------------------------------------
(* The deferred menu wake.                                                 *)

WakeDue == wakePending /\ wakeLeft = 0

\* Mutant: the phase is not looked at again when the wake is due.
MayStartMenuAnywhere == kind = "none"

\* Due, but no longer in a menu or another call is outstanding: it is lost.
MayStartMenu == state = "IVR_MENU" /\ kind = "none"

FireMenuWake ==
  /\ pc = "wake"
  /\ WakeDue
  /\ wakePending' = FALSE
  /\ \/ MayStartMenu /\ StartTier2("menu")
     \/ ~MayStartMenu /\ UNCHANGED <<kind, job, unread, stale>>
  /\ pc' = "poll"
  /\ UNCHANGED <<fsmVars, wakeLeft, finished, outcomes, entries, late>>

KeepCollecting ==
  /\ pc = "wake"
  /\ ~WakeDue
  /\ pc' = "poll"
  /\ UNCHANGED <<fsmVars, wakePending, wakeLeft, kind, job, finished, outcomes,
                 entries, unread, stale, late>>

-----------------------------------------------------------------------------
(* _poll_tier2: runs at the end of every tick, also of the tick that has   *)
(* just failed the call.                                                   *)

PollNothing ==
  /\ pc = "poll"
  /\ kind = "none" \/ job \in {"empty", "running"}
  /\ pc' = "feed"
  /\ UNCHANGED <<fsmVars, wakePending, wakeLeft, kind, job, finished, outcomes,
                 entries, unread, stale, late>>

\* Take the result out of the slot.
TakeResult ==
  /\ pc = "poll"
  /\ kind # "none"
  /\ job \notin {"empty", "running"}
  /\ kind' = "none"
  /\ job' = "empty"
  /\ unread' = unread - 1
  /\ UNCHANGED <<wakePending, wakeLeft, entries, stale>>

\* Mutant: an unavailable Tier 2 is survivable for a probe too.
FatalErrorOfBreaker == job \in {"NotImplementedError", "CircuitOpenError"}

\* A menu read that failed for want of Tier 2 is survivable, a probe is not.
FatalError == job \in {"NotImplementedError", "CircuitOpenError"} \/ kind = "probe"

PollError ==
  /\ TakeResult
  /\ job \in Errors
  /\ \/ FatalError /\ Fail
     \/ ~FatalError /\ UNCHANGED <<finished, outcomes>>
  /\ pc' = "feed"
  /\ UNCHANGED <<fsmVars, late>>

\* _apply_menu: the digits are pressed whatever phase the machine is in by now.
ApplyMenu ==
  /\ TakeResult
  /\ kind = "menu"
  /\ \/ job = "digits" /\ NoteMenuAction /\ late' = IF state = "IVR_MENU" THEN late ELSE late + 1
     \/ job = "abstain" /\ NoteMenuAbstained /\ UNCHANGED late
  /\ pc' = "feed"
  /\ UNCHANGED <<finished, outcomes>>

\* _apply_probe, and the dispatch of BRIDGE that may follow.
ApplyProbe ==
  /\ TakeResult
  /\ kind = "probe"
  /\ job \in {"human", "not_human"}
  /\ ProbeResult(job = "human")
  /\ pc' = IF asked' = "BRIDGE" THEN "handoff" ELSE "feed"
  /\ UNCHANGED <<finished, outcomes, late>>

-----------------------------------------------------------------------------
(* _bridge.                                                                *)

\* on_bridge returned: the handoff is under way.
StartHandoff ==
  /\ pc = "handoff"
  /\ Bridged
  /\ pc' = "complete"
  /\ UNCHANGED <<wakePending, wakeLeft, kind, job, finished, outcomes, entries, unread, stale, late>>

\* Mutant: a hand-off that failed is only logged.
HandoffLogged ==
  /\ pc = "handoff"
  /\ pc' = "feed"
  /\ UNCHANGED <<fsmVars, wakePending, wakeLeft, kind, job, finished, outcomes, entries, unread,
                 stale, late>>

\* on_bridge raised (the user has left, or anything else).
HandoffUnavailable ==
  /\ pc = "handoff"
  /\ Fail
  /\ pc' = "feed"
  /\ UNCHANGED <<fsmVars, wakePending, wakeLeft, kind, job, entries, unread, stale, late>>

CompleteCall ==
  /\ pc = "complete"
  /\ Completed
  /\ finished' = TRUE
  /\ outcomes' = outcomes \union {"completed"}
  /\ pc' = "feed"
  /\ UNCHANGED <<wakePending, wakeLeft, kind, job, entries, unread, stale, late>>

-----------------------------------------------------------------------------
\* abort: the transport ends the call between two ticks.
Abort ==
  /\ pc = "feed"
  /\ ~finished
  /\ Fail
  /\ UNCHANGED <<fsmVars, pc, wakePending, wakeLeft, kind, job, entries, unread, stale, late>>

\* The worker thread: the Tier 2 call returns or raises.
Work ==
  /\ job = "running"
  /\ job' \in Answer(kind)
  /\ UNCHANGED <<fsmVars, pc, wakePending, wakeLeft, kind, finished, outcomes,
                 entries, unread, stale, late>>

-----------------------------------------------------------------------------
SomeTick == \E l \in Heard, c \in BOOLEAN, e \in Elapsed : Tick(l, c, e)

Dispatch == DispatchNone \/ DispatchMenuWake \/ DispatchProbeWake \/ DispatchFail
MenuWake == FireMenuWake \/ KeepCollecting
Poll     == PollNothing \/ PollError \/ ApplyMenu \/ ApplyProbe
Bridge   == StartHandoff \/ HandoffUnavailable \/ CompleteCall

MediaLoop == SomeTick \/ Dispatch \/ MenuWake \/ Poll \/ Bridge

Next == MediaLoop \/ FeedAfterEnd \/ Abort \/ Work

Spec == Init /\ [][Next]_vars

\* Audio keeps arriving while the call is up and the loop runs each tick to
\* its end; every Tier 2 call has a timeout (stream.py:75, 255; client.py:70).
Fairness == WF_vars(MediaLoop) /\ WF_vars(Work)

FairSpec == Spec /\ Fairness

-----------------------------------------------------------------------------
(* Properties.                                                             *)

\* executor.py:34-37, 74-77: a new submission replaces what is in the slot.  Of
\* all the Tier 2 calls a session submits, of either kind, at most one has not had
\* its answer taken, and session and slot agree on whether there is one: no call is
\* submitted over one that is running or finished, and no answer is lost.
SlotHonoured ==
  /\ unread = IF kind = "none" THEN 0 ELSE 1
  /\ kind = "none" <=> job = "empty"

\* session.py:292-298, 267-290: a call that was reported failed is never
\* handed off and one that was handed off is never reported failed, also when
\* a probe's verdict is polled in the very tick that failed the call.
OutcomesExclusive == outcomes # {"completed", "failed"}

\* state.py:330-335, session.py:267-298: outside the live phases nothing that is
\* heard moves the machine on.  Between ticks such a machine belongs to a session
\* that has ended, also when the hand-off raised half-way: no call stays up, unable
\* to get anywhere.
NoDeadEnd == pc = "feed" /\ state \notin LiveStates => finished

\* session.py:169-175: once the session is finished no further Tier 2 call is
\* started, though the failing tick still runs its wake and poll phases.
NoCallAfterEnd == [][job = "empty" /\ job' = "running" => ~finished]_vars

\* What holds in place of HardCap (below): state.py:294 looks at the cap where a
\* re-wake is asked for, not where the digit is pressed, and state.py:307 reads a
\* menu entered anew whatever the count.  Each entry into a menu is good for one
\* press more, and for no more than that, however late Tier 2 answers.
PressBudget == presses <= MaxMenuPresses + entries

\* session.py:245-260: a digit is pressed whatever phase the call is in by the
\* time Tier 2 has decided on it.  A menu that was left leaves one such digit
\* behind at most: whoever answers is not dialled at over and over.
OneLatePress == late <= entries

\* state.py:319-327, session.py:210-243: an evaluation whose probe runs is
\* decided or given up, or the call ends; it does not hang on a Tier 2 error.
EvaluationResolves ==
  (state = "EVALUATING_SPEECH" /\ kind = "probe") ~>
    (state # "EVALUATING_SPEECH" \/ finished)

-----------------------------------------------------------------------------
(* What the documents say of the code, and the code does not do.           *)

\* state.py:320 "We've woken Tier 2 to probe; waiting for probe_result()":
\* between ticks of a live call, EVALUATING_SPEECH has its probe outstanding.
EvaluatingHasProbe ==
  pc = "feed" /\ ~finished /\ state = "EVALUATING_SPEECH" => kind = "probe"

\* state.py:85 "safety rail: stop navigating after this many", state.py:114 "count
\* of digits pressed this call (safety cap)", m4-menu-nav.md:84-85 "a hard cap".
HardCap == presses <= MaxMenuPresses

\* state.py:182-183: a verdict is "ignored otherwise - e.g. a stale/late result
\* after we already moved on": no evaluation is decided by an older probe.
StaleVerdictIgnored ==
  [][pc = "poll" /\ state = "EVALUATING_SPEECH" /\ state' # state => ~stale]_vars
=============================================================================
