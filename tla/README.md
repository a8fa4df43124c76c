# DialPass in TLA+

DialPass places a phone call to a business, works through its menu, waits on
hold, checks that whoever picks up is a person, and patches the user in. This
directory holds a model of the program's control: TLA+ modules translated from
`src/src/dialpass`, the TLC runs that check them, and TLAPS proofs of what the
runs check on small instances. Paths below are relative to `src/src/dialpass`
unless they start with `docs/` (`src/docs`).

    tlc -config MCAgentSession.cfg MCAgentSession.tla     one run
    tlapm AgentSession_proofs.tla                         one proof module

## 1. The system

| part | state it keeps | operations | who calls it |
|---|---|---|---|
| Phase machine `agent/state.py` | phase, same-label streak, two deadlines on the audio clock, gap flag, presses, fruitless reads | `observe`, `probe_result`, `note_menu_action`, `note_menu_abstained`, `bridged`, `completed`, `failed` | the session |
| Session `agent/session.py` | the deferred menu wake, the kind of the outstanding Tier 2 call, `finished` | `feed_audio`/`_run_tick`, `abort`, `close` | the bridge, per audio frame; the media socket |
| Tier 2 executor `agent/executor.py` | one job slot | `submit`, `poll`, `close` | the session; its worker thread fills the slot |
| Circuit breaker `resilience/circuit_breaker.py` | state, failure count, `opened_at`; one per process | `call`, `state` | every call's worker thread; `/health` |
| Bridge `agent/bridge.py` | two stream ids, `reconnecting`, `relay_open`, handoff and closed flags, outbound queues | bind, audio in and out, `press_dtmf`, `run_probe`, `begin_handoff`, `close` | media sockets, session hooks |
| Media sockets `api/media.py` | `bridges`, `sessions` and the per-group context dictionaries of the app | one handler per socket, redial, teardown, the reaper | Twilio, the reaper task of `main.py` |
| Call creation `api/calls.py` | writes the context | `create_call` | the user, on a request thread |
| Twilio `telephony/twilio_client.py`, `api/voice.py` | none | place, ring, press, hang up, SMS; TwiML | all of the above |
| Fallback texts `resilience/fallback.py` | none | reason to text | teardown |
| Realtime `realtime/*` | one websocket per exchange, its deadlines; for a probe also a feeder task and the bridge's inbound queue | menu read, probe exchange, speech | Tier 2 calls, handoff |
| Telemetry sink `telemetry/sqs_sink.py` | bounded queue, three counters, the pump's batch and attempt | emit, pump, close | every part; a thread of its own; `main.py` |
| Telemetry worker `workers/telemetry_worker.py`, `telemetry/store.py` | the batch in hand; an append-only table | receive, write, delete | a process of its own, over SQS |
| Classifier, buffer, codecs, recorder, config, dev tools | samples | signal processing, I/O | the session, the sockets |

How they meet. The event loop runs the sockets' handlers; each handler runs to
its next `await`. A frame of business audio goes socket -> bridge -> session ->
classifier -> phase machine; the action the machine returns makes the session
submit a Tier 2 call to its executor, whose worker thread runs it through the
breaker; the answer is polled by a later tick. A keypress runs in a thread of
its own and makes Twilio drop and reopen the socket. The handoff is a task. A
session that gives up calls back through the bridge into the group's teardown.

What is hard: answers that arrive after the phase that asked for them; the one
slot two kinds of calls compete for; a tick that fails the call and still runs
its remaining phases; late outcomes of calls admitted by a breaker that has
changed since; the deadlines of thread, exchange and closing handshake, none of
which knows of the others; sockets of one group that end in any order after the
group has a new bridge or none; state read before seconds of speech and used
after them; context written by a request thread while the call it placed is
already up; batches acknowledged in part or not at all, delivered twice, stored
twice, and two processes that stop anywhere. PROJECT.json lists these hazards at
their lines.

What makes each part correct, in a sentence: the machine changes phase only on
what was really heard, long enough, and leaves its cool-down times alone; the
session never overwrites a Tier 2 call, has one outcome, ends when the machine can
go nowhere, starts nothing after its end, keeps keypresses bounded and does not
hang in an evaluation; the breaker fails fast for the full timeout and recovers; a
Tier 2 call tells the breaker its outcome once, ends, and reports only what was
really read; a group has one live bridge, a bounded number of business calls and
one fallback text, and a bridge waiting for its stream is always resolved;
telemetry accounts for every event and the worker deletes nothing it has not
stored.

## 2. Modules

| module | models | source |
|---|---|---|
| `Labels` | the ten labels of Tier 1 and the sets the machine tests | `agent/labels.py` |
| `CallStateMachine` | the phase machine, one action per method, `observe` split by how it returns | `agent/state.py` |
| `CallTimeline` | an observer that keeps, from the inputs only, what the machine's counters and its gap flag should mean | properties of `agent/state.py` |
| `AgentSession` | a session with the phases of a tick, the executor's slot and its worker | `agent/session.py`, `agent/executor.py` |
| `CircuitBreaker` | the shared breaker and the threads going through it | `resilience/circuit_breaker.py` |
| `Tier2Call` | one thread's Tier 2 calls step by step, through the breaker | `realtime/client.py`, `realtime/stream.py`, `run_probe` of `agent/bridge.py` |
| `CallMedia` | one group: request, sockets, bridges, keypress, reaper, user leg, Twilio | `api/calls.py`, `api/media.py`, `agent/bridge.py`, `main.py` |
| `CallPromise` | abstract: what one request promises to the business and to the user | |
| `EventDelivery` | abstract: what the telemetry pipeline promises of the events it accepts | |
| `SqsQueue` | the queue and its dead-letter queue (external) | `scripts/localstack-init.sh` for its policy |
| `TelemetrySink` | emit, the pump thread, close, the exit of the API process | `telemetry/sqs_sink.py` |
| `TelemetryWorker` | the worker's loop, its death and restart, the store | `workers/telemetry_worker.py`, `telemetry/store.py` |
| `Telemetry` | the three composed; refines `EventDelivery` | |
| `MCCallTimeline`, `MCAgentSession` | label alphabets of the small instances | |
| `*_proofs` | the theorems of section 5 | |

`AgentSession` EXTENDS `CallStateMachine`: each step of a tick is a conjunction
with the machine's action it calls. `CallTimeline` puts its observer next to the
same machine. `Tier2Call` EXTENDS `CircuitBreaker`: the steps by which its thread
enters and leaves the guarded call are the breaker's actions, and every other
step leaves the breaker alone. `Telemetry` EXTENDS `TelemetrySink` and
`TelemetryWorker`, which share only the queue. `CallMedia` sees a session only
from outside (it works until it presses, reaches a human or gives up), which is
what the bridge sees of it.

Time in the machine. `now` is the audio clock and advances per tick. A deadline
is kept as the number of classifier intervals left to it, and
`now >= deadline` becomes "none left"; `Elapsed` is the set of distances between
two ticks (more than one interval when `feed_audio` skips ahead). Streaks and
the count of fruitless reads saturate where no comparison can tell the
difference.

Phases of a tick (`pc` in `AgentSession`): `feed` (between ticks), `dispatch`,
`wake`, `poll`, and, after a positive verdict, `handoff` and `complete`. The
event loop does not leave a tick, so `abort` happens only in `feed`; the worker
thread interleaves everywhere. `entries`, `unread` (how many submitted calls have
not had their answer taken), `stale` and `late` are observers no guard of the code
reads (`entries` also carries the bound `MenuEntryBound`). Errors of a
Tier 2 call are the classes `_poll_tier2` distinguishes; `Tier2Error` chooses
those a deployment can meet.

`CallMedia`. A socket's handler is atomic up to its next `await`, hence one
action. `SocketEnds` is `_finish_agent_leg`: left for the reconnect, redialled,
given up or ended quietly. `TeardownLoudly`/`TeardownQuietly` are
`_teardown_group` with and without a reason; they always end the bridge the
group has *now*, which need not be the caller's. Twilio is external: `leg` is its
side of each business call, a redirected call loses its socket and opens another
one, a socket ends with or without `stop`. Twilio's answers get lost: the request
for the first call, for the user's, for a redial and for a keypress may raise
before or after it took effect, and a hang-up may do nothing. A redial whose
answer is lost ends the group with a text while the business is being called, and
`POST /calls` can answer with an error and have called. Choices made there:

- `texts` lists the texts sent; an SMS that fails is logged and forgotten by the
  code;
- a second keypress of a bridge waits for the request of the first
  (`menu_refractory_s` is 10 s, the request takes 0.1-0.3 s);
- `begin_handoff` without a key or loop opens the relay at once: that is
  `BeginHandoff` followed by `OpenRelay` with nothing in between;
- the writes of `create_call` are steps of their own, since a request thread can
  be interrupted between them; the goal is left out;
- the first placement takes effect, whether or not it is answered (else nothing
  is stored and nothing happens);
- the session's error reasons are represented by two of them.

`Tier2Call`. The calls of one thread (`Caller`) are looked at; the other threads
do what `CircuitBreaker` lets them. `stage` is how far the exchange is
(connecting, open, closing handshake, over) and `asking` whether it is a menu
turn or a probe. Time passes in steps of about two seconds (`Second`), none of
which passes a deadline or leaves ready work of the event loop undone (`Urgent`);
one frame per step stands for a hundred. What happens at a deadline is the
code's: `TimesOut` is `asyncio.timeout`/`wait_for` inside the exchange,
`StopWaiting` the thread that leaves before its exchange has ended (the exchange
then goes on as `orphan` and, when it ends, takes the bridge's inbound queue
away), `SocketCloses` the end of a handshake the websockets library waits for.
The API is external: it refuses, answers, answers without a verdict, reports an
error, closes cleanly or not, leaves the handshake unanswered, or is silent. Its
verdict is taken from any text of the exchange, the transcript of its greeting
included, asked for or not (`realtime/stream.py:148-163`). Choices made there:

- frames are counted up to the number the feeder takes, and apart from them the
  ones older than the greeting;
- the breaker's clock and the call's are independent: no relation between the
  30 s of the one and the seconds of the other is used;
- a session asks only while its line is up, and asks no more after a failed
  probe or an open circuit (`AgentSession` shows that); the other ends of a
  session are left to `AgentSession` and `CallMedia`.

`Telemetry`. Each put to and get from the sink's queue is an action, and so is
each send attempt, write and delete; `Exit` is the end of the API process, with
the pump ended or the join of `close` timed out, and `Die`/`DieUndeleted`/`Start`
are the worker process. A message is named by its event and the attempt that
sent it. Choices made there:

- an event is a number; an event that cannot be serialised (logged and gone) and
  the backoff between attempts are left out;
- an attempt is acknowledged in full or in part, or raises after SQS took any
  part of the batch;
- SQS is external: at least once, in any order; a receive returns any visible
  messages up to the batch; a message is parked after `maxReceiveCount` receives;
- a `write_many` that returns has stored its batch; one that raises may have
  stored any part of it, since no transaction is opened around it
  (`telemetry/store.py:61`, 71-75), and it may raise for ever: its connection is
  opened once per process;
- nobody is assumed to restart a worker that died;
- one message of somebody else does not parse (`Junk`).

## 3. Runs

| run | instance | states | shows |
|---|---|---|---|
| `timeline` | six labels (each kind the handlers distinguish, and one none knows), thresholds 2-4 ordered as `FsmConfig`'s, two tick distances | 141 k | `Debounced`, `CooldownHolds`, `SubmenuSpacing` |
| `session` | five labels, cap 1, three presses, two menu entries, all four error classes | 172 k | `SlotHonoured`, `OutcomesExclusive`, `NoDeadEnd`, `NoCallAfterEnd`, `PressBudget`, `OneLatePress`, `EvaluationResolves` |
| `tier2` | three threads, threshold 2, reset timeout 2; the code's times in steps of two seconds | 253 k | `ClosedIffHealthy`, `FailsFast`, `Recovers`, `GuardedCallEnds`, `AnswersAreReads`, `OwnInbound` |
| `telemetry` | two events, queue 1, batch 2, two attempts, two receives | 632 k | `CountersBalance`, `DeletedOnlyStored`, `NothingVanishes`, `DuplicatesHaveCause`, `DeliverySpec` |
| `media` | `_MAX_REDIALS` = 2, three bridges, four sockets, one keypress | 687 k | `OneOpenBridge`, `RedialBudget`, `OneFallback`, `NoCallAfterReason`, `AbandonedByKeypress`, `PromiseSpec`, `ReconnectResolves` |

Each also checks its module's type invariant. Three of the properties are
specifications, checked as refinements: `GuardedCallEnds` (a Tier 2 call in full,
with its deadlines, is to the breaker a guarded call of `CircuitBreaker`, fairness
included, so that what is assumed there of guarded calls is what the exchange
really does), `DeliverySpec` (sink, queue and worker implement `EventDelivery`
with `stored` the events that have a row, `givenUp` those counted in
`dropped_send`, lost at an exit or parked, `serving` the worker being up), and
`PromiseSpec` (sockets, bridges and requests of a group implement `CallPromise`:
the business is called a bounded number of times and again only for a call that is
known, what was forgotten of a call is never known again, and the user is texted
only while the number is stored).

Bounds and why they are enough:

- Thresholds are counters compared with constants; the small values keep the
  order between thresholds that compete in one phase, and the proofs remove the
  bound altogether.
- `MenuEntryBound` 2 is the smallest at which a menu is re-entered, `PressBound`
  3 the number at which `PressBudget` would be broken in the first menu (cap 1 +
  one entry), so a missing cap shows. `MenuCollect` 3 is longer than the hold
  music that leads out of a menu, so a menu wake can come due after its menu.
- Three breaker threads: two fail the breaker open while a third, admitted
  before, is still out and then succeeds or fails.
- The times of `Tier2Call.cfg` are the code's halved: pause 1, listening 2,
  probe timeout 8, menu timeout 5, join slack 2, handshake 5, backstop 13,
  rounded so that the order of all deadlines and of their sums is kept (the
  probe's timeout plus its handshake reach the backstop, a menu's join ends
  before its handshake need). The seconds themselves (2, 4, 15, 10, 5, 10, 25)
  pass too, with 1.4 million states.
- `Telemetry`: two events and a queue of one make an overflow; a batch of two is
  acknowledged in part; the second attempt is the last one, and the second
  receive parks. `StrayBound` 1 is a lost answer or a junk message,
  `RepeatBound` 1 a message stored and left undeleted, so `DuplicatesHaveCause`
  is met with equality. The run has `CHECK_DEADLOCK FALSE`: with both events
  settled, the API process gone and the bounds used up nothing is left to
  happen.
- Three bridges and three calls reach the exhausted redial. The fourth socket is
  the reconnect after the keypress. There is one keypress, since a second one
  multiplies the states more than tenfold; the theorems hold for any number.
  `CallMedia` has `CHECK_DEADLOCK FALSE`: when both calls are over and every
  socket is closed the group really is at its end. The runs of the other modules
  check deadlock.

Fairness. `AgentSession`: audio keeps arriving and the loop finishes its ticks
(`WF` of the media loop), and every Tier 2 call returns or raises, because each
has a timeout (`realtime/stream.py:75,255`, `realtime/client.py:70`). Nothing is
assumed about which label is heard. `CircuitBreaker`: time passes and guarded
calls end; nobody is assumed to call. `Tier2Call` assumes that only of the other
threads. Of its own it assumes that time passes, that the event loop runs what is
ready and the thread resumes when it may, and nothing of the API: the call ends
by its deadlines. `Telemetry`: the pump thread runs and its requests return, the
worker goes on while it is up, visibility timeouts pass, and the join of `close`
returns (it has a timeout); neither a write's success nor a restart is assumed.
`CallMedia`: the grace window passes and the reaper's task runs
(`main.py:58-66`, it survives exceptions); neither Twilio nor the user is
assumed to do anything.

Every property has a mutant in PROJECT.json: an operator of the same module,
marked `Mutant:`, that replaces a definition by a plausible slip (a dropped
guard, a missing reset, one attempt too many) and breaks the property in the
same instance.

## 4. Where the code and its documents disagree

Each is a run that TLC ends with a counterexample.

| run | document | code |
|---|---|---|
| `evaluating_has_probe` | `agent/state.py:320` "We've woken Tier 2 to probe; waiting for probe_result()" | `agent/session.py:186` drops the probe while a menu read is outstanding; nothing asks again |
| `stale_verdict` | `agent/state.py:182` a stale result is ignored | a verdict is matched by phase only; one from an abandoned evaluation decides the next |
| `no_clear_read` | `docs/m5-bridge.md:116` "ambiguous => NOT HUMAN", `realtime/stream.py:61` "No clear read - treat as not-human" | `realtime/stream.py:148` a complete reply without a verdict is waited past until the timeout, fails the probe and ends the call |
| `heard_since_greeting` | `realtime/stream.py:53` "Classify ONLY what you heard since your greeting" | `agent/bridge.py:164` frames queue up before the connection is open, and the feeder takes the oldest first |
| `not_waiting` | `agent/bridge.py:187`, `resilience/fallback.py:30` "you hung up before..." | after a redial the waiting user is still bound to the replaced bridge |
| `connected_for_real` | `agent/bridge.py:46`, `docs/m8-resilience.md:117` | a user who leaves while the holding line is spoken is told they are connected |
| `hard_cap` | `agent/state.py:85` "stop navigating after this many", 114 "digits pressed this call (safety cap)", `docs/m4-menu-nav.md:84` "a hard cap" | `agent/state.py:294` looks at the cap where a menu is to be read again, not where the digit is pressed, and 307 reads a menu re-entered from hold whatever the count |

Of the two ways around the cap the `hard_cap` run finds the first: a second read of
the menu is asked for while the first is outstanding, and both press. What the
code does keep, by either way, is `PressBudget`: one press more for each entry
into a menu.

Two more, seen on the way and given no run of their own: a `stop` in mid-navigation
ends the call without a text and leaves the user's leg up (`api/media.py:310`),
while `docs/m8-resilience.md:16` has every dead end text the user; and
`resilience/circuit_breaker.py:22` speaks of one trial call, while line 57 admits
everyone in HALF_OPEN.

## 5. Proofs

All theorems hold for every value of the constants that satisfies the named
assumptions: labels are labels, thresholds and tick distances positive, the
saturation bound no smaller than any threshold, the rest natural numbers.

- `CallStateMachine_proofs`: `FsmTypeCorrect`. `EnterType` says what a
  transition does to the types once; every disjunct of `Observe` then follows
  from it.
- `CallTimeline_proofs`: `Debounce`, `Cooldown`, `Submenus`,
  `TimelineTypeCorrect`. None of the properties is inductive. The strengthenings
  relate the machine's counters to the observer's: `RunHeard` (in a live phase
  the run the observer counted has the streak's label and phase and is at least
  as long), `CooldownClock` and `PressClock` (time left + time passed >= the
  period, kept by the lemma `Countdown`), `GapClock` (a gap flag that is up means
  that the observer has heard the line pause since the last wake and since the
  last digit; that a pause the machine counts is one the observer counts is
  `PromptEndHeard`, from `RunHeard`).
- `AgentSession_proofs`: `SlotNeverOverwritten`, which counts the calls whose
  answer was not taken and is inductive as it stands; `OneOutcome` and
  `QuietAfterEnd` from `Ending` (in the phases of a tick after a failure the
  machine is already in FAILED, so no verdict can hand off and no wake can start);
  `EndsWithMachine` from `Settling` (what each phase of a tick knows of machine
  and session, until the tick is over); `PressesBounded` from `Budget`, which
  counts the menu calls in flight (asked for, waiting, running) together with the
  presses already made: an entry pays for one and a re-wake is paid for by the
  cap; `LatePresses` from `Late`: a menu that is entered holds one late digit in
  reserve, and outside a menu no read is started that could use up another; and
  `SessionTypeCorrect`, which takes the machine's types over from its own
  specification.
- `CircuitBreaker_proofs`: `TypeCorrect`, `Healthy`, and `NoEarlyCall` from
  `TripClock` (after an unhealed trip the breaker is not CLOSED and `opened_at`
  is the time of that trip, or the whole timeout has passed).
- `Tier2Call_proofs`: `QueueKept` from `QueueOwned`, since an exchange given up is
  a probe's, and a probe given up ended its session, so no probe runs beside it;
  `ReadsReported` from `ReadsKept`, which follows the verdict from the moment it
  is read through the closing handshake, where a timeout may still throw it away,
  and ties a reported human to a verdict that was read; `CallTypeCorrect`, whose
  hard part is that no clock passes its deadline: `Urgent` stops time at each of
  them, also for an exchange its thread has given up. `CallsFailFast` has the
  breaker's three properties for the calls as they really are, over the lemma
  `CallIsGuarded` (the safety part of `GuardedCallEnds`; what that property is
  about, that the call ends, is liveness and stays with the run).
- `Telemetry_proofs`: one inductive invariant, `Inv`, for all of
  `TelemetryTypeCorrect`, `DeletesOnlyStored`, `NothingLost`, `CountersAccount`
  and `DeliveryRefined`. It says that queue and batch hold distinct accepted
  events (`SinkInv`), that the worker is about to delete only poison and what
  has a row (`WorkerInv`), and, in `QueueInv`, that a message on the queue comes
  from an attempt that is over: `Spent(e, a)`. Without the last an attempt could
  be thought to overwrite the message of another one, deleted or parked, and
  neither the deletions nor `givenUp` would follow. `CountersAccount` rests on
  two lemmas about cardinalities, of the parts of a batch and of what is in
  memory.
- `TelemetryRows_proofs`: `DuplicatesCaused` from `RowsInv`: the rows of an event
  and its messages still to be stored are at most its messages times one more
  than the repetitions so far; its messages are at most one more than the answers
  lost, and not even that while it is still in the batch. The bound is a product
  of counters that grow in different processes, so each step is shown to leave
  one factor alone.
- `CallMedia_proofs`: `MediaTypeCorrect`; `RegisteredIsOpen` from `BridgeInv`
  (the registered bridge is the one made and not closed; sockets and the user
  are bound only to bridges that were made); `GroupStep` shows once, action by
  action, the few things a step may do to bridges, attachments and placed calls;
  `CallsBounded` from `PlacedInv`, which relates the calls placed to the redial
  count of the context and to how far the request has come (after a teardown
  there is no context, hence no redial); `OneReason` from `TextInv` (while the
  number is stored nothing but "connected" was sent, and a reason takes the
  number away); `OverForGood` from `ToldInv` (a group whose user was told a
  reason has no entry left to redial with, and the request that could store one
  has ended); `OnlyKeypressAbandons`, which needs no more than the types: of all
  the ways a socket can end in, each unregisters its bridge or leaves it to the
  reaper; and `PromiseRefined`: `Spec => PromiseSpec`, the whole refinement,
  which rests on one lemma that says for each action what it does to what is
  stored (`ContextSteps`) and one on how many calls that makes (`PlacedCount`).

Every invariant and every action property a passing run checks has a theorem, and
so have the refinement `PromiseSpec` and the safety part of `DeliverySpec`. Only
model-checked: liveness (`EvaluationResolves`, `Recovers`, `ReconnectResolves`,
and the fairness parts of `GuardedCallEnds` and `DeliverySpec`), which is beyond
the prover.

## 6. Not modelled, and the plan

Not modelled: the classifier, the rolling buffer, the codecs and the recorder
(signal processing; the machine is checked against every label sequence
instead); parsing of the API's replies, beyond the outcomes it has;
`speak_exchange`, beyond the time it takes; the executor's `close`; `LogSink`, the
in-memory sink and the logging store; the wording of texts, the settings, the
persistence stubs and the development tools.

Behaviours the runs contain and no property rules out, because no document says
what they should come to:

- a line that drops while a probe listens leaves the probe to time out, and the
  breaker, which all calls share, counts that as a failure of the API;
- a verdict that is in the transcript of the greeting is taken at once, before the
  line has said anything (`realtime/stream.py:148-163`);
- the tick that fails a call polls Tier 2 once more, and a probe's error found
  there fails it again: `on_fail` runs twice, and `_teardown_group` finds nothing
  left to tear down the second time;
- a menu reply cut short by a clean close is parsed as if it were whole;
- a menu wake that comes due while a call is outstanding is forgotten
  (`agent/session.py:172`);
- a user who answers more than five seconds before the business finds no bridge
  (`api/media.py:163`);
- a keypress whose request raises after its socket has ended leaves a bridge that
  is registered, has no socket and is never reaped (`api/media.py:145`;
  `AbandonedByKeypress` says that nothing else does);
- a redialled call nobody answers leaves the user on an open line
  (`api/media.py:208`);
- a worker that died is not restarted (`docker-compose.yml`), and what is still on
  the queue stays there.

Order of the work, most important behaviour first. Done: 1-7.

1. `CallStateMachine` with `CallTimeline`: abstract promises of the machine.
2. `AgentSession` over it: the slot, the outcome, the budget.
3. `CircuitBreaker`.
4. `CallMedia`: the group over Twilio.
5. `Telemetry` with the abstract `EventDelivery`.
6. `Tier2Call`: the exchanges with their deadlines inside the shared breaker.
7. `CallPromise`, which `CallMedia` implements.
8. The executor's shutdown under teardown.
9. The session over `Tier2Call` instead of over a slot with four errors.
10. A corrected reaper that collects every bridge without a socket, and a corrected
   breaker that admits one trial call, as specifications to compare with.

Theorems worth proving next: that a machine with a corrected cap keeps `HardCap`,
and that a corrected reaper leaves no bridge without a socket.
