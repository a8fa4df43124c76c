------------------------------ MODULE CallMedia ------------------------------
(***************************************************************************)
(* One call (a "group") from POST /calls to its end: api/calls.py,         *)
(* api/media.py and agent/bridge.py over Twilio.                           *)
(*                                                                         *)
(* The event loop runs a socket's handler up to its next await, so each    *)
(* handler is one action; what interleaves is the request thread of        *)
(* create_call, the agent sockets, the user's socket, the thread of a      *)
(* keypress, the handoff task, the reaper and whatever the phone network   *)
(* does.  A session is seen from outside only: it works until it presses   *)
(* a key, reaches a human or gives up (AgentSession says when it may).     *)
(* Audio, the recorder and the probe are left out.                         *)
(*                                                                         *)
(* Twilio is external and modelled from how the code uses it: a call that  *)
(* is answered opens a media socket and sends "start"; a redirected call   *)
(* drops its socket and comes back with another one; a socket can end with *)
(* "stop" or without; a REST request for a call, a redial, a keypress or a *)
(* hang-up can fail, all but the last after Twilio acted on it too.        *)
(* Nothing tells the code that a call it placed was never answered.        *)
(***************************************************************************)
EXTENDS Naturals, Sequences, FiniteSets

CONSTANTS
  MaxRedials,  \* _MAX_REDIALS
  BridgeBound, \* bound of the model: bridges made for the group
  SocketBound, \* bound of the model: agent sockets accepted for the group
  PressBound   \* bound of the model: keypresses of all sessions together

ASSUME BoundsAssumption == /\ MaxRedials \in Nat
                           /\ BridgeBound \in Nat
                           /\ SocketBound \in Nat
                           /\ PressBound \in Nat

\* Business calls, in the order they are placed; one more than is ever allowed.
Legs    == 1..(MaxRedials + 2)
Bridges == 1..BridgeBound
Sockets == 1..SocketBound

None      == 0
NoContext == MaxRedials + 1  \* call_meta has no entry for the group

VARIABLES
  request,    \* how far create_call has come
  meta,       \* call_meta[group]["redials"], or NoContext
  number,     \* the group is in user_numbers
  userSid,    \* the group is in user_legs
  leg,        \* Twilio's side of each business call
  sock,       \* the agent sockets: open or not, their bridge and call
  bridge,     \* the CallBridges made for the group
  current,    \* app.state.bridges[group]
  userCall,   \* Twilio's side of the user's call
  userSock,   \* the user's socket
  userBridge, \* the bridge it was attached to
  presses,    \* keypresses so far, for the bound
  texts       \* what the user was texted, in order

context  == <<meta, number, userSid>>
userVars == <<userCall, userSock, userBridge>>
vars == <<request, context, leg, sock, bridge, current, userVars, presses, texts>>

Reason == {"tier2_unavailable", "non_connect", "dropped", "user_left"}

NoBridge == [leg |-> None, session |-> "none", closed |-> FALSE, reconnecting |-> FALSE,
             overdue |-> FALSE, pressing |-> FALSE, user |-> FALSE, knowsUser |-> FALSE,
             speaking |-> FALSE, relay |-> FALSE]
NoSocket == [status |-> "none", bridge |-> None, leg |-> None]

LegState == {"unplaced", "ringing", "live", "redirected", "ended"}

BridgeRecord == [leg : {None} \union Legs,
                 session : {"none", "working", "handed_off", "failed"},
                 closed : BOOLEAN, reconnecting : BOOLEAN, overdue : BOOLEAN,
                 pressing : BOOLEAN, user : BOOLEAN, knowsUser : BOOLEAN,
                 speaking : BOOLEAN, relay : BOOLEAN]

MediaTypeOK ==
  /\ request \in {"new", "placed", "stored", "rung", "known", "done"}
  /\ meta \in 0..NoContext
  /\ number \in BOOLEAN /\ userSid \in BOOLEAN
  /\ leg \in [Legs -> LegState]
  /\ sock \in [Sockets -> [status : {"none", "open", "closed"},
                           bridge : {None} \union Bridges,
                           leg : {None} \union Legs]]
  /\ bridge \in [Bridges -> BridgeRecord]
  /\ current \in {None} \union Bridges
  /\ userCall \in {"unplaced", "ringing", "up", "over"}
  /\ userSock \in {"none", "searching", "bound", "closed"}
  /\ userBridge \in {None} \union Bridges
  /\ presses \in 0..PressBound
  /\ texts \in Seq(Reason \union {"connected"})

Init ==
  /\ request = "new"
  /\ meta = NoContext
  /\ number = FALSE
  /\ userSid = FALSE
  /\ leg = [i \in Legs |-> "unplaced"]
  /\ sock = [k \in Sockets |-> NoSocket]
  /\ bridge = [g \in Bridges |-> NoBridge]
  /\ current = None
  /\ userCall = "unplaced"
  /\ userSock = "none"
  /\ userBridge = None
  /\ presses = 0
  /\ texts = <<>>

Unplaced(i)  == leg[i] = "unplaced" /\ \A j \in Legs : j < i => leg[j] # "unplaced"
Fresh(g)     == bridge[g] = NoBridge /\ \A h \in Bridges : h < g => bridge[h] # NoBridge
Accepting(k) == sock[k] = NoSocket /\ \A j \in Sockets : j < k => sock[j] # NoSocket

\* Frames from the business call reach the session over an open socket.
Working(g) ==
  /\ bridge[g].session = "working"
  /\ \E k \in Sockets : sock[k].status = "open" /\ sock[k].bridge = g

-----------------------------------------------------------------------------
(* create_call.                                                            *)

\* Twilio's answer may be lost: the request ends with an error, the call rings.
PlaceCall ==
  /\ request = "new"
  /\ \E i \in Legs : Unplaced(i) /\ leg' = [leg EXCEPT ![i] = "ringing"]
  /\ request' \in {"placed", "done"}
  /\ UNCHANGED <<context, sock, bridge, current, userVars, presses, texts>>

StoreContext ==
  /\ request = "placed"
  /\ meta' = 0
  /\ request' = "stored"
  /\ UNCHANGED <<number, userSid, leg, sock, bridge, current, userVars, presses, texts>>

\* ring_user went through, or raised, before or after Twilio acted: a call
\* without a known user leg goes on.
RingUser ==
  /\ request = "stored"
  /\ \/ userCall' = "ringing" /\ request' = "rung"
     \/ userCall' \in {userCall, "ringing"} /\ request' = "done"
  /\ UNCHANGED <<context, leg, sock, bridge, current, userSock, userBridge, presses, texts>>

StoreUserLeg ==
  /\ request = "rung"
  /\ userSid' = TRUE
  /\ request' = "known"
  /\ UNCHANGED <<meta, number, leg, sock, bridge, current, userVars, presses, texts>>

StoreUserNumber ==
  /\ request = "known"
  /\ number' = TRUE
  /\ request' = "done"
  /\ UNCHANGED <<meta, userSid, leg, sock, bridge, current, userVars, presses, texts>>

-----------------------------------------------------------------------------
(* _teardown_group, with the calls and bridges as its caller left them: it  *)
(* ends whatever bridge the group has now.                                 *)

HungUp(call) == IF call \in {"ringing", "up"} THEN "over" ELSE call

\* Mutant: the number is kept where the hooks are wired, not looked up.
TextedAnyway(reason) == Append(texts, reason)

Texted(reason) == IF number THEN Append(texts, reason) ELSE texts

\* Mutant: the user's number outlives the call.
ForgetAllButNumber == meta' = NoContext /\ number' = number /\ userSid' = FALSE

\* Mutant: the redial entry outlives the call.
ForgetAllButMeta == meta' = meta /\ number' = FALSE /\ userSid' = FALSE

ForgetContext ==
  /\ meta' = NoContext
  /\ number' = FALSE
  /\ userSid' = FALSE

\* Text the user why and hang up both calls; a request that fails is only logged.
TeardownLoudly(reason, ls, bs) ==
  /\ current' = None
  /\ ForgetContext
  /\ \/ /\ current = None
        /\ leg' = ls
        /\ bridge' = bs
        /\ UNCHANGED <<userCall, texts>>
     \/ /\ current # None
        /\ leg' \in {ls, [ls EXCEPT ![bs[current].leg] = "ended"]}
        /\ bridge' = [bs EXCEPT ![current].closed = TRUE]
        /\ userCall' \in {userCall} \union (IF bs[current].knowsUser THEN {HungUp(userCall)} ELSE {})
        /\ texts' = Texted(reason)

\* No reason, no hang-up: the other end has gone.
TeardownQuietly(ls, bs) ==
  /\ current' = None
  /\ ForgetContext
  /\ leg' = ls
  /\ bridge' = IF current = None THEN bs ELSE [bs EXCEPT ![current].closed = TRUE]
  /\ UNCHANGED <<userCall, texts>>

\* AgentSession._fail and the hooks it runs into: the session is finished, and
\* the group, not only this bridge, is torn down.
FailSession(g, reason, bs) ==
  TeardownLoudly(reason, leg, [bs EXCEPT ![g].session = "failed"])

-----------------------------------------------------------------------------
(* The agent's sockets.                                                    *)

Bind(k, g, i) == sock' = [sock EXCEPT ![k] = [status |-> "open", bridge |-> g, leg |-> i]]

\* "start": the group has a bridge, so this is the stream coming back.
Reconnect(k, i) ==
  /\ Accepting(k)
  /\ leg[i] \in {"ringing", "redirected"}
  /\ current # None
  /\ leg' = [leg EXCEPT ![i] = "live"]
  /\ Bind(k, current, i)
  /\ bridge' = [bridge EXCEPT ![current].reconnecting = FALSE, ![current].overdue = FALSE]
  /\ UNCHANGED <<request, context, current, userVars, presses, texts>>

\* "start": a new session, with what the request has stored by now.
NewSession(k, i) ==
  /\ Accepting(k)
  /\ leg[i] \in {"ringing", "redirected"}
  /\ current = None
  /\ leg' = [leg EXCEPT ![i] = "live"]
  /\ \E g \in Bridges :
       /\ Fresh(g)
       /\ Bind(k, g, i)
       /\ bridge' = [bridge EXCEPT ![g] = [NoBridge EXCEPT !.leg = i, !.session = "working",
                                                           !.knowsUser = userSid]]
       /\ current' = g
  /\ UNCHANGED <<request, context, userVars, presses, texts>>

\* The socket carries the call's latest stream.
Latest(k) == \A j \in Sockets : sock[j].leg = sock[k].leg => j <= k

\* Losing the stream of a call ends the call; losing one that a redirect has
\* replaced, or is about to, does not.
LegsWithout(k) ==
  IF leg[sock[k].leg] = "live" /\ Latest(k) THEN [leg EXCEPT ![sock[k].leg] = "ended"] ELSE leg

Close(k) == sock' = [sock EXCEPT ![k].status = "closed"]

\* Mutant: one attempt too many.
MayRedialOnceMore == meta <= MaxRedials

\* Mutant: a group without an entry is redialed too.
MayRedialUnknown == meta # MaxRedials

\* _redial_agent_leg has an entry to count on and an attempt left.
MayRedial == meta < MaxRedials

\* _finish_agent_leg while a keypress is in flight: leave everything.
LeaveForReconnect(k) ==
  /\ bridge[sock[k].bridge].reconnecting
  /\ leg' = LegsWithout(k)
  /\ UNCHANGED <<context, bridge, current, userCall, texts>>

\* Mutant: whatever the group has now is unregistered.
UnregisterAny(g) == current' = None

\* Mutant: the entry is left for the next session to replace.
UnregisterNothing(g) == UNCHANGED current

\* A bridge of the group that has been replaced is no longer registered.
Unregister(g) == current' = IF current = g THEN None ELSE current

\* _finish_agent_leg of a call that dropped: redial, for the same group.
Redial(k) ==
  LET g == sock[k].bridge IN
  /\ ~bridge[g].reconnecting
  /\ bridge[g].session = "working"
  /\ MayRedial
  /\ meta' = meta + 1
  /\ \E i \in Legs : Unplaced(i) /\ leg' = [LegsWithout(k) EXCEPT ![i] = "ringing"]
  /\ Unregister(g)
  /\ bridge' = [bridge EXCEPT ![g].closed = TRUE]
  /\ UNCHANGED <<number, userSid, userCall, texts>>

\* ... no redial, or its REST request failed: also if the business is being
\* called by now.
GiveUpDropped(k) ==
  /\ ~bridge[sock[k].bridge].reconnecting
  /\ bridge[sock[k].bridge].session = "working"
  /\ \/ TeardownLoudly("dropped", LegsWithout(k), bridge)
     \/ /\ MayRedial
        /\ \E i \in Legs :
             /\ Unplaced(i)
             /\ TeardownLoudly("dropped", [LegsWithout(k) EXCEPT ![i] = "ringing"], bridge)

\* _finish_agent_leg after "stop", or of a finished session.
FinishQuietly(k) ==
  /\ ~bridge[sock[k].bridge].reconnecting
  /\ TeardownQuietly(LegsWithout(k), bridge)

SocketEnds(k, sawStop) ==
  /\ sock[k].status = "open"
  /\ Close(k)
  /\ \/ LeaveForReconnect(k)
     \/ ~sawStop /\ (Redial(k) \/ GiveUpDropped(k))
     \/ (sawStop \/ bridge[sock[k].bridge].session # "working") /\ FinishQuietly(k)
  /\ UNCHANGED <<request, userSock, userBridge, presses>>

-----------------------------------------------------------------------------
(* A keypress: press_dtmf on the loop, press() in a thread of its own.     *)

Press(g) ==
  /\ Working(g)
  /\ ~bridge[g].pressing
  /\ presses < PressBound
  /\ presses' = presses + 1
  /\ bridge' = [bridge EXCEPT ![g].reconnecting = TRUE, ![g].overdue = FALSE,
                              ![g].pressing = TRUE]
  /\ UNCHANGED <<request, context, leg, sock, current, userVars, texts>>

\* Twilio takes the call away to play the digits.
Redirected(i) == [leg EXCEPT ![i] = IF @ = "live" THEN "redirected" ELSE @]

PressDone(g) ==
  /\ bridge[g].pressing
  /\ leg[bridge[g].leg] = "live"
  /\ leg' = Redirected(bridge[g].leg)
  /\ bridge' = [bridge EXCEPT ![g].pressing = FALSE]
  /\ UNCHANGED <<request, context, sock, current, userVars, presses, texts>>

\* The request raised: the call has ended, or Twilio refused, or the answer of
\* a redirect that did happen was lost.
PressFails(g) ==
  /\ bridge[g].pressing
  /\ leg' \in {leg, Redirected(bridge[g].leg)}
  /\ bridge' = [bridge EXCEPT ![g].pressing = FALSE, ![g].reconnecting = FALSE]
  /\ UNCHANGED <<request, context, sock, current, userVars, presses, texts>>

-----------------------------------------------------------------------------
(* The reaper.                                                             *)

\* The grace window of the registered bridge has passed.
GraceExpires ==
  /\ current # None
  /\ bridge[current].reconnecting
  /\ ~bridge[current].overdue
  /\ bridge' = [bridge EXCEPT ![current].overdue = TRUE]
  /\ UNCHANGED <<request, context, leg, sock, current, userVars, presses, texts>>

\* Mutant: only calls still being navigated are looked at.
StaleAndWorking ==
  /\ current # None
  /\ bridge[current].reconnecting
  /\ bridge[current].overdue
  /\ bridge[current].session = "working"

Stale == current # None /\ bridge[current].reconnecting /\ bridge[current].overdue

Reap ==
  /\ Stale
  /\ TeardownLoudly("dropped", leg, bridge)
  /\ UNCHANGED <<request, sock, userSock, userBridge, presses>>

-----------------------------------------------------------------------------
(* The session, as the bridge sees it.                                     *)

SessionGivesUp(g) ==
  /\ Working(g)
  /\ \E r \in {"tier2_unavailable", "non_connect"} : FailSession(g, r, bridge)
  /\ UNCHANGED <<request, sock, userSock, userBridge, presses>>

\* begin_handoff, with nobody attached to this bridge.
HandoffUnavailable(g) ==
  /\ Working(g)
  /\ ~bridge[g].user
  /\ FailSession(g, "user_left", bridge)
  /\ UNCHANGED <<request, sock, userSock, userBridge, presses>>

\* begin_handoff: the holding line is spoken in a task of its own.
BeginHandoff(g) ==
  /\ Working(g)
  /\ bridge[g].user
  /\ bridge' = [bridge EXCEPT ![g].session = "handed_off", ![g].speaking = TRUE]
  /\ UNCHANGED <<request, context, leg, sock, current, userVars, presses, texts>>

\* The end of _do_handoff: nothing is asked about the two parties again.
OpenRelay(g) ==
  /\ bridge[g].speaking
  /\ bridge' = [bridge EXCEPT ![g].speaking = FALSE, ![g].relay = TRUE]
  /\ texts' = Texted("connected")
  /\ UNCHANGED <<request, context, leg, sock, current, userVars, presses>>

-----------------------------------------------------------------------------
(* The user's socket: _serve_user_leg.                                     *)

UserAnswers ==
  /\ userCall = "ringing"
  /\ userCall' = "up"
  /\ userSock' = "searching"
  /\ UNCHANGED <<request, context, leg, sock, bridge, current, userBridge, presses, texts>>

Attach ==
  /\ userSock = "searching"
  /\ current # None
  /\ userSock' = "bound"
  /\ userBridge' = current
  /\ bridge' = [bridge EXCEPT ![current].user = TRUE]
  /\ UNCHANGED <<request, context, leg, sock, current, userCall, presses, texts>>

\* No bridge after five seconds.
GiveUpAttaching ==
  /\ userSock = "searching"
  /\ current = None
  /\ userSock' = "closed"
  /\ userCall' = "over"
  /\ UNCHANGED <<request, context, leg, sock, bridge, current, userBridge, presses, texts>>

\* The socket ended; the user is no longer on the bridge it was attached to.
Detach ==
  /\ userSock = "bound"
  /\ userCall = "over"
  /\ userSock' = "closed"
  /\ LET alone == [bridge EXCEPT ![userBridge].user = FALSE]
     IN  \/ /\ ~bridge[userBridge].relay
            /\ bridge[userBridge].session = "working"
            /\ FailSession(userBridge, "user_left", alone)
         \/ /\ bridge[userBridge].relay \/ bridge[userBridge].session # "working"
            /\ bridge' = alone
            /\ UNCHANGED <<context, leg, current, userCall, texts>>
  /\ UNCHANGED <<request, sock, userBridge, presses>>

-----------------------------------------------------------------------------
(* The network: calls nobody answers, a user who hangs up.                 *)

NoAnswer(i) ==
  /\ leg[i] = "ringing"
  /\ leg' = [leg EXCEPT ![i] = "ended"]
  /\ UNCHANGED <<request, context, sock, bridge, current, userVars, presses, texts>>

UserHangsUp ==
  /\ userCall \in {"ringing", "up"}
  /\ userCall' = "over"
  /\ UNCHANGED <<request, context, leg, sock, bridge, current, userSock, userBridge,
                 presses, texts>>

-----------------------------------------------------------------------------
Request == PlaceCall \/ StoreContext \/ RingUser \/ StoreUserLeg \/ StoreUserNumber
Agent   == \E k \in Sockets :
             \/ \E i \in Legs : Reconnect(k, i) \/ NewSession(k, i)
             \/ \E stop \in BOOLEAN : SocketEnds(k, stop)
Keypress == \E g \in Bridges : Press(g) \/ PressDone(g) \/ PressFails(g)
Session  == \E g \in Bridges : \/ SessionGivesUp(g) \/ HandoffUnavailable(g)
                               \/ BeginHandoff(g) \/ OpenRelay(g)
User     == UserAnswers \/ Attach \/ GiveUpAttaching \/ Detach
Network  == UserHangsUp \/ \E i \in Legs : NoAnswer(i)

Next == Request \/ Agent \/ Keypress \/ Session \/ User \/ Network \/ GraceExpires \/ Reap

Spec == Init /\ [][Next]_vars

\* Time passes and the reaper's task runs every bridge_reap_interval_s
\* (main.py:58-66); nothing else is assumed to happen.
Fairness == WF_vars(GraceExpires) /\ WF_vars(Reap)

FairSpec == Spec /\ Fairness

-----------------------------------------------------------------------------
(* Properties.                                                             *)

\* media.py:89-101, 313-318: the bridge that is registered is the one that is
\* not closed.  Nothing registered is dead, and nothing alive (an executor, a
\* recorder) is out of the reach of teardown and reaper.
OneOpenBridge ==
  \A g \in Bridges : current = g <=> bridge[g] # NoBridge /\ ~bridge[g].closed

\* media.py:53, 195-212: the business is called at most 1 + _MAX_REDIALS times
\* for one request, whichever of its calls, old or new, ends in which order.
RedialBudget == Cardinality({i \in Legs : leg[i] # "unplaced"}) <= 1 + MaxRedials

\* media.py:89-101 "Idempotent": a call that ends in several ways at once texts
\* the user one reason, and no text follows it, not even that of a handoff that
\* was being announced (a second reason would follow the first).
OneFallback ==
  \A n \in 1..Len(texts) : texts[n] # "connected" => n = Len(texts)

\* calls.py:56-76, media.py:89-101, 195-212: a user who was told why the call
\* ended is not called for again: whatever socket, keypress or request is late, no
\* other call to the business is placed after the text.
NoCallAfterReason ==
  [][(\E n \in 1..Len(texts) : texts[n] # "connected") =>
       \A i \in Legs : leg[i] = "unplaced" => leg'[i] = "unplaced"]_vars

\* The group keeps the promise of CallPromise.
Promise == INSTANCE CallPromise
  WITH Redials   <- MaxRedials,
       request   <- (IF request \in {"stored", "rung", "known"} THEN "introduced" ELSE request),
       placed    <- Cardinality({i \in Legs : leg[i] # "unplaced"}),
       known     <- (meta # NoContext),
       reachable <- number

PromiseSpec == Promise!Spec

\* m8-resilience.md:102-108: a bridge that waits for its stream to come back is
\* reconnected, released or reaped.
ReconnectResolves ==
  \A g \in Bridges :
    (current = g /\ bridge[g].reconnecting) ~> (current # g \/ ~bridge[g].reconnecting)

\* media.py:104-115, 300-322: a registered bridge has an open socket or waits for
\* one under the reaper's eye.  Only the request of a keypress can take both
\* away, by raising after its socket has ended (media.py:145).
Abandoned ==
  /\ current # None
  /\ ~bridge[current].reconnecting
  /\ \A k \in Sockets : sock[k].bridge = current => sock[k].status # "open"

AbandonedByKeypress ==
  [][~Abandoned /\ Abandoned' =>
       bridge[current].pressing /\ ~bridge'[current].pressing]_vars

-----------------------------------------------------------------------------
(* What the documents say of the code, and the code does not do.           *)

TextsNow(t) == texts' = Append(texts, t)

\* bridge.py:187 "The user hung up before we found a human", fallback.py:30 "you
\* hung up before DialPass reached a person": a user told so has hung up, and
\* is not waiting on our line.
NotWaiting == [][TextsNow("user_left") => ~(userCall = "up" /\ userSock = "bound")]_vars

\* bridge.py:46 "you're connected now", m8-resilience.md:117-119 "instead of
\* reporting a bridge that didn't happen": a user told so is still on a socket of ours.
ConnectedForReal == [][TextsNow("connected") => userSock = "bound"]_vars
=============================================================================
