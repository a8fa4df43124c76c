---------------------------- MODULE CallMedia_proofs ----------------------------
(***************************************************************************)
(* What holds of a group for any number of redials, bridges, sockets and   *)
(* keypresses.                                                             *)
(***************************************************************************)
EXTENDS CallMedia, FiniteSetTheorems, TLAPS

USE DEF None, NoContext

-----------------------------------------------------------------------------
(* Types.                                                                  *)

(***************************************************************************)
(* The changes the code makes to the fields of a bridge.                   *)
(***************************************************************************)
LEMMA RecordChanges ==
  ASSUME NEW r \in BridgeRecord
  PROVE  /\ [r EXCEPT !.closed = TRUE] \in BridgeRecord
         /\ [r EXCEPT !.session = "failed"] \in BridgeRecord
         /\ [r EXCEPT !.user = TRUE] \in BridgeRecord
         /\ [r EXCEPT !.user = FALSE] \in BridgeRecord
         /\ [r EXCEPT !.overdue = TRUE] \in BridgeRecord
         /\ [r EXCEPT !.pressing = FALSE] \in BridgeRecord
         /\ [r EXCEPT !.reconnecting = FALSE, !.overdue = FALSE] \in BridgeRecord
         /\ [r EXCEPT !.reconnecting = TRUE, !.overdue = FALSE, !.pressing = TRUE] \in BridgeRecord
         /\ [r EXCEPT !.pressing = FALSE, !.reconnecting = FALSE] \in BridgeRecord
         /\ [r EXCEPT !.session = "handed_off", !.speaking = TRUE] \in BridgeRecord
         /\ [r EXCEPT !.speaking = FALSE, !.relay = TRUE] \in BridgeRecord
<1>1. [r EXCEPT !.closed = TRUE] \in BridgeRecord
  BY DEF BridgeRecord
<1>2. [r EXCEPT !.session = "failed"] \in BridgeRecord
  BY DEF BridgeRecord
<1>3. [r EXCEPT !.user = TRUE] \in BridgeRecord
  BY DEF BridgeRecord
<1>4. [r EXCEPT !.user = FALSE] \in BridgeRecord
  BY DEF BridgeRecord
<1>5. [r EXCEPT !.overdue = TRUE] \in BridgeRecord
  BY DEF BridgeRecord
<1>6. [r EXCEPT !.pressing = FALSE] \in BridgeRecord
  BY DEF BridgeRecord
<1>7. [r EXCEPT !.reconnecting = FALSE, !.overdue = FALSE] \in BridgeRecord
  BY DEF BridgeRecord
<1>8. [r EXCEPT !.reconnecting = TRUE, !.overdue = FALSE, !.pressing = TRUE] \in BridgeRecord
  BY DEF BridgeRecord
<1>9. [r EXCEPT !.pressing = FALSE, !.reconnecting = FALSE] \in BridgeRecord
  BY DEF BridgeRecord
<1>10. [r EXCEPT !.session = "handed_off", !.speaking = TRUE] \in BridgeRecord
  BY DEF BridgeRecord
<1>11. [r EXCEPT !.speaking = FALSE, !.relay = TRUE] \in BridgeRecord
  BY DEF BridgeRecord
<1> QED BY <1>1, <1>2, <1>3, <1>4, <1>5, <1>6, <1>7, <1>8, <1>9, <1>10, <1>11

LEMMA BridgeChanges ==
  ASSUME NEW bs \in [Bridges -> BridgeRecord], NEW g \in Bridges
  PROVE  /\ [bs EXCEPT ![g].closed = TRUE] \in [Bridges -> BridgeRecord]
         /\ [bs EXCEPT ![g].session = "failed"] \in [Bridges -> BridgeRecord]
         /\ [bs EXCEPT ![g].user = TRUE] \in [Bridges -> BridgeRecord]
         /\ [bs EXCEPT ![g].user = FALSE] \in [Bridges -> BridgeRecord]
         /\ [bs EXCEPT ![g].overdue = TRUE] \in [Bridges -> BridgeRecord]
         /\ [bs EXCEPT ![g].pressing = FALSE] \in [Bridges -> BridgeRecord]
         /\ [bs EXCEPT ![g].reconnecting = FALSE, ![g].overdue = FALSE] \in [Bridges -> BridgeRecord]
         /\ [bs EXCEPT ![g].reconnecting = TRUE, ![g].overdue = FALSE, ![g].pressing = TRUE] \in [Bridges -> BridgeRecord]
         /\ [bs EXCEPT ![g].pressing = FALSE, ![g].reconnecting = FALSE] \in [Bridges -> BridgeRecord]
         /\ [bs EXCEPT ![g].session = "handed_off", ![g].speaking = TRUE] \in [Bridges -> BridgeRecord]
         /\ [bs EXCEPT ![g].speaking = FALSE, ![g].relay = TRUE] \in [Bridges -> BridgeRecord]
  BY bs[g] \in BridgeRecord, RecordChanges

(***************************************************************************)
(* What a teardown leaves is as well typed as what its caller left.        *)
(***************************************************************************)
LEMMA TextedType ==
  ASSUME MediaTypeOK, NEW t \in Reason \union {"connected"}
  PROVE  Texted(t) \in Seq(Reason \union {"connected"})
  BY DEF Texted, MediaTypeOK

LEMMA TeardownTypes ==
  ASSUME MediaTypeOK, NEW ls \in [Legs -> LegState], NEW bs \in [Bridges -> BridgeRecord],
         NEW r \in Reason, TeardownLoudly(r, ls, bs) \/ TeardownQuietly(ls, bs),
         request' = request, sock' \in [Sockets -> [status : {"none", "open", "closed"},
                                                    bridge : {None} \union Bridges,
                                                    leg : {None} \union Legs]],
         userSock' \in {"none", "searching", "bound", "closed"},
         userBridge' = userBridge, presses' = presses
  PROVE  MediaTypeOK'
<1>0. NoContext \in 0..NoContext
  BY BoundsAssumption
<1>1. /\ meta' = NoContext /\ number' \in BOOLEAN /\ userSid' \in BOOLEAN
      /\ current' = None
  BY DEF TeardownLoudly, TeardownQuietly, ForgetContext
<1>2. leg' \in [Legs -> LegState]
  BY DEF TeardownLoudly, TeardownQuietly, LegState
<1>3. bridge' \in [Bridges -> BridgeRecord]
  <2>1. bridge' = bs \/ (current # None /\ bridge' = [bs EXCEPT ![current].closed = TRUE])
    BY DEF TeardownLoudly, TeardownQuietly
  <2>2. ASSUME current # None PROVE [bs EXCEPT ![current].closed = TRUE] \in [Bridges -> BridgeRecord]
    <3>1. current \in Bridges
      BY <2>2 DEF MediaTypeOK
    <3> QED BY <3>1, BridgeChanges
  <2> QED BY <2>1, <2>2
<1>4. userCall' \in {"unplaced", "ringing", "up", "over"}
  BY DEF TeardownLoudly, TeardownQuietly, HungUp, MediaTypeOK
<1>5. texts' \in Seq(Reason \union {"connected"})
  BY TextedType DEF TeardownLoudly, TeardownQuietly, MediaTypeOK
<1> QED BY <1>0, <1>1, <1>2, <1>3, <1>4, <1>5 DEF MediaTypeOK

LEMMA LegsWithoutType ==
  ASSUME MediaTypeOK, NEW k \in Sockets
  PROVE  LegsWithout(k) \in [Legs -> LegState]
  BY DEF LegsWithout, MediaTypeOK, LegState

LEMMA TypesKept == MediaTypeOK /\ [Next]_vars => MediaTypeOK'
<1> SUFFICES ASSUME MediaTypeOK, [Next]_vars PROVE MediaTypeOK'
  OBVIOUS
<1> USE BoundsAssumption
<1>1. CASE UNCHANGED vars
  BY <1>1 DEF vars, context, userVars, MediaTypeOK
<1>2. CASE Request
  <2>1. CASE PlaceCall
    BY <2>1 DEF PlaceCall, MediaTypeOK, context, userVars, LegState
  <2>2. CASE StoreContext
    BY <2>2 DEF StoreContext, MediaTypeOK, userVars
  <2>3. CASE RingUser
    BY <2>3 DEF RingUser, MediaTypeOK, context
  <2>4. CASE StoreUserLeg \/ StoreUserNumber
    BY <2>4 DEF StoreUserLeg, StoreUserNumber, MediaTypeOK, userVars
  <2> QED BY <1>2, <2>1, <2>2, <2>3, <2>4 DEF Request
<1>3. ASSUME NEW k \in Sockets, NEW i \in Legs, Reconnect(k, i) \/ NewSession(k, i)
      PROVE  MediaTypeOK'
  <2>1. leg' \in [Legs -> LegState]
    BY <1>3 DEF Reconnect, NewSession, MediaTypeOK, LegState
  <2>2. CASE Reconnect(k, i)
    <3>1. bridge' \in [Bridges -> BridgeRecord]
      BY <2>2, BridgeChanges DEF Reconnect, MediaTypeOK
    <3>2. sock' \in [Sockets -> [status : {"none", "open", "closed"},
                                 bridge : {None} \union Bridges, leg : {None} \union Legs]]
      BY <2>2 DEF Reconnect, Bind, MediaTypeOK
    <3> QED BY <2>1, <2>2, <3>1, <3>2 DEF Reconnect, MediaTypeOK, context, userVars
  <2>3. CASE NewSession(k, i)
    <3>1. PICK g \in Bridges :
            /\ Bind(k, g, i)
            /\ bridge' = [bridge EXCEPT ![g] = [NoBridge EXCEPT !.leg = i, !.session = "working",
                                                                !.knowsUser = userSid]]
            /\ current' = g
      BY <2>3 DEF NewSession
    <3>2. bridge' \in [Bridges -> BridgeRecord]
      BY <3>1 DEF MediaTypeOK, BridgeRecord, NoBridge
    <3>3. sock' \in [Sockets -> [status : {"none", "open", "closed"},
                                 bridge : {None} \union Bridges, leg : {None} \union Legs]]
      BY <3>1 DEF Bind, MediaTypeOK
    <3> QED BY <2>1, <2>3, <3>1, <3>2, <3>3 DEF NewSession, MediaTypeOK, context, userVars
  <2> QED BY <1>3, <2>2, <2>3
<1>4. ASSUME NEW k \in Sockets, NEW stop \in BOOLEAN, SocketEnds(k, stop)
      PROVE  MediaTypeOK'
  <2>1. sock' \in [Sockets -> [status : {"none", "open", "closed"},
                               bridge : {None} \union Bridges, leg : {None} \union Legs]]
    BY <1>4 DEF SocketEnds, Close, MediaTypeOK
  <2>2. LegsWithout(k) \in [Legs -> LegState] /\ "dropped" \in Reason
    BY LegsWithoutType DEF Reason
  <2>3. bridge \in [Bridges -> BridgeRecord]
    BY DEF MediaTypeOK
  <2>4. CASE LeaveForReconnect(k)
    BY <1>4, <2>1, <2>2, <2>4 DEF SocketEnds, LeaveForReconnect, MediaTypeOK, context
  <2>5. CASE Redial(k)
    <3>1. PICK i \in Legs : leg' = [LegsWithout(k) EXCEPT ![i] = "ringing"]
      BY <2>5 DEF Redial
    <3>2. leg' \in [Legs -> LegState]
      BY <2>2, <3>1 DEF LegState
    <3>3. bridge' \in [Bridges -> BridgeRecord]
      BY <2>3, <2>5 DEF Redial, BridgeRecord
    <3>4. meta' \in 0..NoContext /\ current' \in {None} \union Bridges
      BY <2>5 DEF Redial, MayRedial, Unregister, MediaTypeOK
    <3> QED BY <1>4, <2>1, <2>5, <3>2, <3>3, <3>4 DEF SocketEnds, Redial, MediaTypeOK
  <2>6. CASE GiveUpDropped(k) \/ FinishQuietly(k)
    <3>1. UNCHANGED <<request, userSock, userBridge, presses>>
      BY <1>4 DEF SocketEnds
    <3>2. PICK ls \in [Legs -> LegState] :
            TeardownLoudly("dropped", ls, bridge) \/ TeardownQuietly(ls, bridge)
      <4>1. \A i \in Legs : [LegsWithout(k) EXCEPT ![i] = "ringing"] \in [Legs -> LegState]
        BY <2>2 DEF LegState
      <4> QED BY <2>2, <2>6, <4>1 DEF GiveUpDropped, FinishQuietly
    <3> QED BY <2>1, <2>2, <2>3, <3>1, <3>2, TeardownTypes DEF MediaTypeOK
  <2> QED BY <1>4, <2>4, <2>5, <2>6 DEF SocketEnds
<1>5. ASSUME NEW g \in Bridges, Press(g) \/ PressDone(g) \/ PressFails(g)
      PROVE  MediaTypeOK'
  <2>1. leg' \in [Legs -> LegState]
    BY <1>5 DEF Press, PressDone, PressFails, Redirected, MediaTypeOK, LegState
  <2>2. bridge' \in [Bridges -> BridgeRecord]
    <3>1. bridge \in [Bridges -> BridgeRecord]
      BY DEF MediaTypeOK
    <3>2. CASE Press(g)
      BY <3>1, <3>2, BridgeChanges DEF Press
    <3>3. CASE PressDone(g)
      BY <3>1, <3>3, BridgeChanges DEF PressDone
    <3>4. CASE PressFails(g)
      BY <3>1, <3>4, BridgeChanges DEF PressFails
    <3> QED BY <1>5, <3>2, <3>3, <3>4
  <2>3. presses' \in 0..PressBound
    BY <1>5 DEF Press, PressDone, PressFails, MediaTypeOK
  <2> QED BY <1>5, <2>1, <2>2, <2>3 DEF Press, PressDone, PressFails, MediaTypeOK, context, userVars
<1>6. ASSUME NEW g \in Bridges, NEW r \in Reason, NEW bs \in [Bridges -> BridgeRecord],
             FailSession(g, r, bs), UNCHANGED <<request, sock, userBridge, presses>>,
             userSock' \in {userSock, "closed"}
      PROVE  MediaTypeOK'
  <2>1. [bs EXCEPT ![g].session = "failed"] \in [Bridges -> BridgeRecord]
    BY DEF BridgeRecord
  <2> QED BY <1>6, <2>1, TeardownTypes DEF FailSession, MediaTypeOK
<1>7. ASSUME NEW g \in Bridges, SessionGivesUp(g) \/ HandoffUnavailable(g)
      PROVE  MediaTypeOK'
  <2>1. bridge \in [Bridges -> BridgeRecord]
    BY DEF MediaTypeOK
  <2> QED BY <1>6, <1>7, <2>1 DEF SessionGivesUp, HandoffUnavailable, Reason
<1>8. ASSUME NEW g \in Bridges, BeginHandoff(g) \/ OpenRelay(g)
      PROVE  MediaTypeOK'
  <2>1. bridge' \in [Bridges -> BridgeRecord]
    <3>1. bridge \in [Bridges -> BridgeRecord]
      BY DEF MediaTypeOK
    <3>2. CASE BeginHandoff(g)
      BY <3>1, <3>2, BridgeChanges DEF BeginHandoff
    <3>3. CASE OpenRelay(g)
      BY <3>1, <3>3, BridgeChanges DEF OpenRelay
    <3> QED BY <1>8, <3>2, <3>3
  <2>2. texts' \in Seq(Reason \union {"connected"})
    BY <1>8, TextedType DEF BeginHandoff, OpenRelay, MediaTypeOK
  <2> QED BY <1>8, <2>1, <2>2 DEF BeginHandoff, OpenRelay, MediaTypeOK, context, userVars
<1>9. CASE UserAnswers \/ GiveUpAttaching \/ UserHangsUp
  BY <1>9 DEF UserAnswers, GiveUpAttaching, UserHangsUp, MediaTypeOK, context, userVars
<1>10. CASE Attach \/ GraceExpires
  <2>1. bridge' \in [Bridges -> BridgeRecord]
    <3>1. bridge \in [Bridges -> BridgeRecord] /\ current \in Bridges
      BY <1>10 DEF Attach, GraceExpires, MediaTypeOK
    <3>2. CASE Attach
      BY <3>1, <3>2, BridgeChanges DEF Attach
    <3>3. CASE GraceExpires
      BY <3>1, <3>3, BridgeChanges DEF GraceExpires
    <3> QED BY <1>10, <3>2, <3>3
  <2> QED BY <1>10, <2>1 DEF Attach, GraceExpires, MediaTypeOK, context, userVars
<1>11. CASE Detach
  <2> DEFINE alone == [bridge EXCEPT ![userBridge].user = FALSE]
  <2>1. alone \in [Bridges -> BridgeRecord]
    BY DEF MediaTypeOK, BridgeRecord
  <2>2. CASE FailSession(userBridge, "user_left", alone)
    <3>1. [alone EXCEPT ![userBridge].session = "failed"] \in [Bridges -> BridgeRecord]
      <4>1. CASE userBridge \in Bridges
        BY <2>1, <4>1, BridgeChanges
      <4>2. CASE userBridge \notin Bridges
        BY <2>1, <4>2
      <4> QED BY <4>1, <4>2
    <3> QED BY <1>11, <2>2, <3>1, TeardownTypes DEF FailSession, Detach, MediaTypeOK, Reason
  <2>3. CASE bridge' = alone /\ UNCHANGED <<context, leg, current, userCall, texts>>
    BY <1>11, <2>1, <2>3 DEF Detach, MediaTypeOK, context
  <2> QED BY <1>11, <2>2, <2>3 DEF Detach
<1>12. CASE Reap
  <2>1. leg \in [Legs -> LegState] /\ bridge \in [Bridges -> BridgeRecord] /\ "dropped" \in Reason
    BY DEF MediaTypeOK, Reason
  <2> QED BY <1>12, <2>1, TeardownTypes DEF Reap, MediaTypeOK
<1>13. ASSUME NEW i \in Legs, NoAnswer(i) PROVE MediaTypeOK'
  BY <1>13 DEF NoAnswer, MediaTypeOK, LegState, context, userVars
<1> QED BY <1>1, <1>2, <1>3, <1>4, <1>5, <1>7, <1>8, <1>9, <1>10, <1>11, <1>12, <1>13
  DEF Next, Agent, Keypress, Session, User, Network

(***************************************************************************)
(* Every variable keeps its type, the bounds on redials and keypresses     *)
(* included.                                                               *)
(***************************************************************************)
THEOREM MediaTypeCorrect == Spec => []MediaTypeOK
<1>1. Init => MediaTypeOK
  <2> SUFFICES ASSUME Init PROVE MediaTypeOK
    OBVIOUS
  <2>1. NoBridge \in BridgeRecord
    BY DEF NoBridge, BridgeRecord
  <2>2. NoContext \in 0..NoContext /\ 0 \in 0..PressBound
    BY BoundsAssumption
  <2>3. leg \in [Legs -> LegState] /\ bridge \in [Bridges -> BridgeRecord]
    BY <2>1 DEF Init, LegState
  <2>4. sock \in [Sockets -> [status : {"none", "open", "closed"},
                              bridge : {None} \union Bridges, leg : {None} \union Legs]]
    BY DEF Init, NoSocket
  <2>5. meta \in 0..NoContext /\ presses \in 0..PressBound
    BY <2>2 DEF Init
  <2>6. number \in BOOLEAN /\ userSid \in BOOLEAN
    BY DEF Init
  <2> QED BY <2>3, <2>4, <2>5, <2>6 DEF Init, MediaTypeOK
<1> QED BY <1>1, TypesKept, PTL DEF Spec

-----------------------------------------------------------------------------
(* What a step does to the bridges and to the business calls.              *)

Made(g) == bridge[g].leg # None

(***************************************************************************)
(* A bridge that was never made is as it was created, sockets and users    *)
(* are on bridges that were made, and the one registered is the one open.  *)
(***************************************************************************)
BridgeInv ==
  /\ \A g \in Bridges : /\ ~Made(g) => bridge[g] = NoBridge
                        /\ Made(g) => leg[bridge[g].leg] # "unplaced"
                        /\ current = g <=> Made(g) /\ ~bridge[g].closed
  /\ \A k \in Sockets :
       sock[k].status # "none" => sock[k].bridge \in Bridges /\ Made(sock[k].bridge)
  /\ userSock = "bound" => userBridge \in Bridges /\ Made(userBridge)

(***************************************************************************)
(* bs are the bridges of the group with other flags, and those of          *)
(* `closing' closed.                                                       *)
(***************************************************************************)
Adjusted(bs, closing) ==
  \A h \in Bridges : /\ bs[h].leg = bridge[h].leg
                     /\ ~Made(h) => bs[h] = bridge[h]
                     /\ bs[h].closed <=> bridge[h].closed \/ h \in closing

SamePlaced(ls) == \A i \in Legs : ls[i] = "unplaced" <=> leg[i] = "unplaced"

BridgeStep ==
  \/ Adjusted(bridge', {}) /\ current' = current
  \/ \E g \in Bridges : /\ Adjusted(bridge', {g}) /\ Made(g)
                         /\ current' = IF current = g THEN None ELSE current
  \/ /\ current = None
     /\ \E g \in Bridges, i \in Legs :
          /\ ~Made(g) /\ bridge'[g].leg = i /\ ~bridge'[g].closed
          /\ leg'[i] # "unplaced" /\ current' = g
          /\ \A h \in Bridges \ {g} : bridge'[h] = bridge[h]

AttachStep ==
  /\ \A k \in Sockets : sock'[k].status # "none" =>
       \/ sock[k].status # "none" /\ sock'[k].bridge = sock[k].bridge
       \/ sock'[k].bridge \in Bridges /\ sock'[k].bridge = current'
  /\ userSock' = "bound" =>
       \/ userSock = "bound" /\ userBridge' = userBridge
       \/ userBridge' \in Bridges /\ userBridge' = current'

OneMore ==
  \E i \in Legs : /\ leg[i] = "unplaced" /\ leg'[i] # "unplaced"
                  /\ \A j \in Legs \ {i} : leg'[j] = "unplaced" <=> leg[j] = "unplaced"

PlaceStep ==
  \/ SamePlaced(leg')
  \/ /\ OneMore
     /\ \/ request = "new" /\ request' \in {"placed", "done"} /\ UNCHANGED meta
        \/ meta < MaxRedials /\ meta' \in {meta + 1, NoContext} /\ UNCHANGED request

LEMMA SomePlacedMore ==
  ASSUME MediaTypeOK, NEW i \in Legs, NEW ls \in [Legs -> LegState], SamePlaced(ls),
         leg[i] = "unplaced", leg' = [ls EXCEPT ![i] = "ringing"]
  PROVE  /\ leg'[i] # "unplaced"
         /\ \A j \in Legs \ {i} : leg'[j] = "unplaced" <=> leg[j] = "unplaced"
  BY DEF SamePlaced, MediaTypeOK

(***************************************************************************)
(* A teardown closes the bridge the group has and places no call but the   *)
(* ones its caller has placed.                                             *)
(***************************************************************************)
LEMMA TeardownStep ==
  ASSUME MediaTypeOK, BridgeInv, NEW ls \in [Legs -> LegState], NEW bs \in [Bridges -> BridgeRecord],
         Adjusted(bs, {}), \A i \in Legs : leg[i] # "unplaced" => ls[i] # "unplaced",
         NEW r \in Reason, TeardownLoudly(r, ls, bs) \/ TeardownQuietly(ls, bs)
  PROVE  /\ BridgeStep
         /\ \A i \in Legs : leg'[i] = "unplaced" <=> ls[i] = "unplaced"
         /\ SamePlaced(ls) => SamePlaced(leg')
<1>1. CASE current = None
  <2>1. current' = None /\ bridge' = bs /\ leg' = ls
    BY <1>1 DEF TeardownLoudly, TeardownQuietly
  <2> QED BY <1>1, <2>1 DEF BridgeStep
<1>2. CASE current # None
  <2>1. current \in Bridges /\ Made(current) /\ leg[bridge[current].leg] # "unplaced"
        /\ bridge[current].leg \in Legs
    BY <1>2 DEF MediaTypeOK, BridgeInv, Made, BridgeRecord
  <2>2. current' = None /\ bridge' = [bs EXCEPT ![current].closed = TRUE]
    BY <1>2 DEF TeardownLoudly, TeardownQuietly
  <2>3. Adjusted(bridge', {current})
    BY <2>1, <2>2 DEF Adjusted, BridgeRecord
  <2>4. leg' = ls \/ leg' = [ls EXCEPT ![bs[current].leg] = "ended"]
    BY <1>2 DEF TeardownLoudly, TeardownQuietly
  <2>5. bs[current].leg = bridge[current].leg
    BY <2>1 DEF Adjusted
  <2>6. \A i \in Legs : leg'[i] = "unplaced" <=> ls[i] = "unplaced"
    BY <2>1, <2>4, <2>5
  <2> QED BY <2>1, <2>2, <2>3, <2>6 DEF BridgeStep, SamePlaced
<1> QED BY <1>1, <1>2

LEMMA LegsWithoutPlaced ==
  ASSUME MediaTypeOK, NEW k \in Sockets PROVE SamePlaced(LegsWithout(k))
  BY DEF LegsWithout, SamePlaced, MediaTypeOK

LEMMA Unadjusted == Adjusted(bridge, {}) /\ SamePlaced(leg)
  BY DEF Adjusted, SamePlaced

LEMMA FieldsAdjusted ==
  ASSUME MediaTypeOK, NEW g \in Bridges, Made(g), NEW bs \in [Bridges -> BridgeRecord],
         bs[g].leg = bridge[g].leg, bs[g].closed <=> bridge[g].closed,
         \A h \in Bridges \ {g} : bs[h] = bridge[h]
  PROVE  Adjusted(bs, {})
  BY DEF Adjusted

(***************************************************************************)
(* What every step does to bridges, sockets and calls.                     *)
(***************************************************************************)
LEMMA GroupStep ==
  ASSUME MediaTypeOK, BridgeInv, [Next]_vars
  PROVE  BridgeStep /\ AttachStep /\ PlaceStep
<1> USE BoundsAssumption
<1>0. MediaTypeOK'
  BY TypesKept
<1>1. CASE UNCHANGED <<leg, sock, bridge, current, userSock, userBridge>>
  BY <1>1, Unadjusted DEF BridgeStep, AttachStep, PlaceStep, SamePlaced, Adjusted
<1>2. CASE PlaceCall
  <2>1. PICK i \in Legs : leg[i] = "unplaced" /\ leg' = [leg EXCEPT ![i] = "ringing"]
    BY <1>2 DEF PlaceCall, Unplaced
  <2>2. /\ leg'[i] # "unplaced"
        /\ \A j \in Legs \ {i} : leg'[j] = "unplaced" <=> leg[j] = "unplaced"
    BY <2>1 DEF MediaTypeOK
  <2>3. /\ UNCHANGED <<sock, bridge, current, userSock, userBridge, meta>>
        /\ request = "new" /\ request' \in {"placed", "done"}
    BY <1>2 DEF PlaceCall, context, userVars
  <2>4. BridgeStep
    BY <2>3, Unadjusted DEF BridgeStep, Adjusted
  <2>5. AttachStep
    BY <2>3 DEF AttachStep
  <2>6. PlaceStep
    BY <2>1, <2>2, <2>3 DEF PlaceStep, OneMore
  <2> QED BY <2>4, <2>5, <2>6
<1>3. ASSUME NEW g \in Bridges, bridge[g] # NoBridge PROVE Made(g)
  BY <1>3 DEF BridgeInv
<1>4. ASSUME current # None PROVE current \in Bridges /\ Made(current)
  BY <1>4 DEF BridgeInv, MediaTypeOK
<1>5. ASSUME NEW g \in Bridges, NEW k \in Sockets, NEW i \in Legs,
             Bind(k, g, i), current' = g
      PROVE  AttachStep \/ userSock' # userSock \/ userBridge' # userBridge
  BY <1>5 DEF Bind, AttachStep, MediaTypeOK
<1>6. ASSUME NEW k \in Sockets, NEW i \in Legs, Reconnect(k, i)
      PROVE  BridgeStep /\ AttachStep /\ PlaceStep
  <2>1. current \in Bridges /\ Made(current)
    BY <1>4, <1>6 DEF Reconnect
  <2>2. Adjusted(bridge', {})
    <3>1. bridge' = [bridge EXCEPT ![current].reconnecting = FALSE, ![current].overdue = FALSE]
      BY <1>6 DEF Reconnect
    <3> QED BY <2>1, <3>1 DEF Adjusted, MediaTypeOK, BridgeRecord
  <2>3. AttachStep
    BY <1>5, <1>6, <2>1 DEF Reconnect, userVars
  <2>4. SamePlaced(leg')
    BY <1>6 DEF Reconnect, SamePlaced, MediaTypeOK
  <2> QED BY <1>6, <2>2, <2>3, <2>4 DEF Reconnect, BridgeStep, PlaceStep
<1>7. ASSUME NEW k \in Sockets, NEW i \in Legs, NewSession(k, i)
      PROVE  BridgeStep /\ AttachStep /\ PlaceStep
  <2>1. PICK g \in Bridges :
          /\ Fresh(g) /\ Bind(k, g, i) /\ current' = g
          /\ bridge' = [bridge EXCEPT ![g] = [NoBridge EXCEPT !.leg = i, !.session = "working",
                                                              !.knowsUser = userSid]]
    BY <1>7 DEF NewSession
  <2>2. AttachStep
    BY <1>5, <1>7, <2>1 DEF NewSession, userVars
  <2>3. SamePlaced(leg') /\ leg'[i] # "unplaced"
    BY <1>7 DEF NewSession, SamePlaced, MediaTypeOK
  <2>4. /\ ~Made(g) /\ bridge'[g].leg = i /\ ~bridge'[g].closed
        /\ \A h \in Bridges \ {g} : bridge'[h] = bridge[h]
    BY <2>1 DEF Fresh, Made, NoBridge, MediaTypeOK
  <2> QED BY <1>7, <2>1, <2>2, <2>3, <2>4 DEF NewSession, BridgeStep, PlaceStep
<1>8. ASSUME NEW k \in Sockets, NEW stop \in BOOLEAN, SocketEnds(k, stop)
      PROVE  BridgeStep /\ AttachStep /\ PlaceStep
  <2>1. AttachStep
    BY <1>8 DEF SocketEnds, Close, AttachStep, MediaTypeOK
  <2>2. SamePlaced(LegsWithout(k)) /\ LegsWithout(k) \in [Legs -> LegState] /\ "dropped" \in Reason
    BY LegsWithoutPlaced, LegsWithoutType DEF Reason
  <2>3. CASE LeaveForReconnect(k)
    BY <2>1, <2>2, <2>3, Unadjusted DEF LeaveForReconnect, BridgeStep, PlaceStep, Adjusted
  <2>4. CASE Redial(k)
    <3>1. sock[k].bridge \in Bridges /\ Made(sock[k].bridge)
      BY <1>8 DEF SocketEnds, BridgeInv
    <3>2. bridge' = [bridge EXCEPT ![sock[k].bridge].closed = TRUE]
          /\ current' = IF current = sock[k].bridge THEN None ELSE current
      BY <2>4 DEF Redial, Unregister
    <3>3. Adjusted(bridge', {sock[k].bridge})
      BY <3>1, <3>2 DEF Adjusted, MediaTypeOK, BridgeRecord
    <3>4. PICK i \in Legs : Unplaced(i) /\ leg' = [LegsWithout(k) EXCEPT ![i] = "ringing"]
      BY <2>4 DEF Redial
    <3>5. /\ leg[i] = "unplaced" /\ leg'[i] # "unplaced"
          /\ \A j \in Legs \ {i} : leg'[j] = "unplaced" <=> leg[j] = "unplaced"
      BY <2>2, <3>4, SomePlacedMore DEF Unplaced
    <3>6. meta < MaxRedials /\ meta' = meta + 1 /\ request' = request
      BY <1>8, <2>4 DEF Redial, MayRedial, SocketEnds
    <3>7. PlaceStep
      BY <3>5, <3>6 DEF PlaceStep, OneMore
    <3>8. BridgeStep
      BY <3>1, <3>2, <3>3 DEF BridgeStep
    <3> QED BY <2>1, <3>7, <3>8
  <2>5. CASE GiveUpDropped(k) \/ FinishQuietly(k)
    <3>1. bridge \in [Bridges -> BridgeRecord]
      BY DEF MediaTypeOK
    <3>2. CASE TeardownLoudly("dropped", LegsWithout(k), bridge)
               \/ TeardownQuietly(LegsWithout(k), bridge)
      <4>1. BridgeStep /\ SamePlaced(leg')
        BY <2>2, <3>1, <3>2, Unadjusted, TeardownStep DEF SamePlaced
      <4> QED BY <2>1, <4>1 DEF PlaceStep
    <3>3. ASSUME MayRedial, NEW i \in Legs, Unplaced(i),
                 TeardownLoudly("dropped", [LegsWithout(k) EXCEPT ![i] = "ringing"], bridge)
          PROVE  BridgeStep /\ AttachStep /\ PlaceStep
      <4> DEFINE ls == [LegsWithout(k) EXCEPT ![i] = "ringing"]
      <4>1. ls \in [Legs -> LegState]
        BY <2>2 DEF LegState
      <4>2. /\ leg[i] = "unplaced" /\ ls[i] # "unplaced"
            /\ \A j \in Legs \ {i} : ls[j] = "unplaced" <=> leg[j] = "unplaced"
        BY <2>2, <3>3 DEF Unplaced, SamePlaced
      <4>3. \A j \in Legs : leg[j] # "unplaced" => ls[j] # "unplaced"
        BY <4>2
      <4> HIDE DEF ls
      <4>4. BridgeStep /\ \A j \in Legs : leg'[j] = "unplaced" <=> ls[j] = "unplaced"
        <5>1. TeardownLoudly("dropped", ls, bridge)
          BY <3>3 DEF ls
        <5> QED BY <2>2, <3>1, <4>1, <4>3, <5>1, Unadjusted, TeardownStep
      <4>5. meta < MaxRedials /\ meta' = NoContext /\ request' = request
        BY <1>8, <3>3 DEF MayRedial, TeardownLoudly, ForgetContext, SocketEnds
      <4> QED BY <2>1, <4>2, <4>4, <4>5 DEF PlaceStep, OneMore
    <3> QED BY <2>5, <3>2, <3>3 DEF GiveUpDropped, FinishQuietly
  <2> QED BY <1>8, <2>3, <2>4, <2>5 DEF SocketEnds
<1>9. ASSUME NEW g \in Bridges, Press(g) \/ PressDone(g) \/ PressFails(g)
                                  \/ BeginHandoff(g) \/ OpenRelay(g)
      PROVE  BridgeStep /\ AttachStep /\ PlaceStep
  <2>1. Made(g)
    <3>1. bridge[g] # NoBridge
      BY <1>9 DEF Press, PressDone, PressFails, BeginHandoff, OpenRelay, Working, NoBridge
    <3> QED BY <1>3, <3>1
  <2>2. Adjusted(bridge', {})
    <3>1. \A h \in Bridges \ {g} : bridge'[h] = bridge[h]
      BY <1>9 DEF Press, PressDone, PressFails, BeginHandoff, OpenRelay, MediaTypeOK
    <3>2. bridge'[g].leg = bridge[g].leg /\ (bridge'[g].closed <=> bridge[g].closed)
      <4>1. bridge[g] \in BridgeRecord /\ bridge \in [Bridges -> BridgeRecord]
        BY DEF MediaTypeOK
      <4>2. CASE Press(g)
        BY <4>1, <4>2 DEF Press, BridgeRecord
      <4>3. CASE PressDone(g)
        BY <4>1, <4>3 DEF PressDone, BridgeRecord
      <4>4. CASE PressFails(g)
        BY <4>1, <4>4 DEF PressFails, BridgeRecord
      <4>5. CASE BeginHandoff(g)
        BY <4>1, <4>5 DEF BeginHandoff, BridgeRecord
      <4>6. CASE OpenRelay(g)
        BY <4>1, <4>6 DEF OpenRelay, BridgeRecord
      <4> QED BY <1>9, <4>2, <4>3, <4>4, <4>5, <4>6
    <3> QED BY <2>1, <3>1, <3>2 DEF Adjusted
  <2>3. SamePlaced(leg')
    BY <1>9 DEF Press, PressDone, PressFails, BeginHandoff, OpenRelay, Redirected, SamePlaced,
                MediaTypeOK
  <2>4. UNCHANGED <<sock, current, userSock, userBridge>>
    BY <1>9 DEF Press, PressDone, PressFails, BeginHandoff, OpenRelay, userVars
  <2> QED BY <2>2, <2>3, <2>4 DEF BridgeStep, PlaceStep, AttachStep
<1>10. CASE Attach \/ GraceExpires
  <2>1. current \in Bridges /\ Made(current)
    BY <1>4, <1>10 DEF Attach, GraceExpires
  <2>2. UNCHANGED <<leg, sock, current>>
    BY <1>10 DEF Attach, GraceExpires
  <2>3. Adjusted(bridge', {})
    <3>1. CASE Attach
      BY <2>1, <3>1 DEF Attach, Adjusted, MediaTypeOK, BridgeRecord
    <3>2. CASE GraceExpires
      BY <2>1, <3>2 DEF GraceExpires, Adjusted, MediaTypeOK, BridgeRecord
    <3> QED BY <1>10, <3>1, <3>2
  <2>4. AttachStep
    BY <1>10, <2>1, <2>2 DEF Attach, GraceExpires, userVars, AttachStep
  <2> QED BY <2>2, <2>3, <2>4, Unadjusted DEF BridgeStep, PlaceStep, SamePlaced
<1>11. ASSUME NEW g \in Bridges, Made(g), NEW r \in Reason, NEW bs \in [Bridges -> BridgeRecord],
              Adjusted(bs, {}), FailSession(g, r, bs)
       PROVE  BridgeStep /\ SamePlaced(leg')
  <2>1. [bs EXCEPT ![g].session = "failed"] \in [Bridges -> BridgeRecord]
    BY BridgeChanges
  <2>2. Adjusted([bs EXCEPT ![g].session = "failed"], {})
    BY <1>11 DEF Adjusted, BridgeRecord
  <2>3. leg \in [Legs -> LegState]
    BY DEF MediaTypeOK
  <2> QED BY <1>11, <2>1, <2>2, <2>3, Unadjusted, TeardownStep DEF FailSession
<1>12. ASSUME NEW g \in Bridges, SessionGivesUp(g) \/ HandoffUnavailable(g)
       PROVE  BridgeStep /\ AttachStep /\ PlaceStep
  <2>1. bridge \in [Bridges -> BridgeRecord]
    BY DEF MediaTypeOK
  <2>2. Made(g)
    BY <1>3, <1>12 DEF SessionGivesUp, HandoffUnavailable, Working, NoBridge
  <2>3. BridgeStep /\ SamePlaced(leg')
    BY <1>11, <1>12, <2>1, <2>2, Unadjusted DEF SessionGivesUp, HandoffUnavailable, Reason
  <2>4. AttachStep
    BY <1>12 DEF SessionGivesUp, HandoffUnavailable, AttachStep
  <2> QED BY <2>3, <2>4 DEF PlaceStep
<1>13. CASE Detach
  <2>1. userBridge \in Bridges /\ Made(userBridge)
    BY <1>13 DEF Detach, BridgeInv
  <2> DEFINE alone == [bridge EXCEPT ![userBridge].user = FALSE]
  <2>2. alone \in [Bridges -> BridgeRecord]
    BY <2>1, BridgeChanges DEF MediaTypeOK
  <2>3. Adjusted(alone, {})
    BY <2>1 DEF Adjusted, MediaTypeOK, BridgeRecord
  <2>4. AttachStep
    BY <1>13 DEF Detach, AttachStep
  <2>5. CASE FailSession(userBridge, "user_left", alone)
    <3>1. "user_left" \in Reason
      BY DEF Reason
    <3>2. BridgeStep /\ SamePlaced(leg')
      <4> HIDE DEF alone
      <4> QED BY <1>11, <2>1, <2>2, <2>3, <2>5, <3>1
    <3> QED BY <2>4, <3>2 DEF PlaceStep
  <2>6. CASE bridge' = alone /\ UNCHANGED <<context, leg, current, userCall, texts>>
    <3>1. Adjusted(bridge', {})
      BY <2>3, <2>6 DEF Adjusted
    <3> QED BY <2>4, <2>6, <3>1, Unadjusted DEF BridgeStep, PlaceStep, SamePlaced
  <2> QED BY <1>13, <2>5, <2>6 DEF Detach
<1>14. CASE Reap
  <2>1. leg \in [Legs -> LegState] /\ bridge \in [Bridges -> BridgeRecord] /\ "dropped" \in Reason
    BY DEF MediaTypeOK, Reason
  <2>2. BridgeStep /\ SamePlaced(leg')
    BY <1>14, <2>1, Unadjusted, TeardownStep DEF Reap
  <2> QED BY <1>14, <2>2 DEF Reap, AttachStep, PlaceStep
<1>15. ASSUME NEW i \in Legs, NoAnswer(i) PROVE BridgeStep /\ AttachStep /\ PlaceStep
  <2>1. UNCHANGED <<sock, bridge, current, userSock, userBridge>>
    BY <1>15 DEF NoAnswer, userVars
  <2>2. SamePlaced(leg')
    BY <1>15 DEF NoAnswer, SamePlaced, MediaTypeOK
  <2> QED BY <2>1, <2>2, Unadjusted DEF BridgeStep, AttachStep, PlaceStep, Adjusted
<1>16. CASE UserAnswers \/ GiveUpAttaching \/ UserHangsUp
  <2>1. UNCHANGED <<leg, sock, bridge, current, userBridge>>
    BY <1>16 DEF UserAnswers, GiveUpAttaching, UserHangsUp
  <2>2. AttachStep
    BY <1>16, <2>1 DEF UserAnswers, GiveUpAttaching, UserHangsUp, AttachStep
  <2> QED BY <2>1, <2>2, Unadjusted DEF BridgeStep, PlaceStep, SamePlaced, Adjusted
<1> QED BY <1>1, <1>2, <1>6, <1>7, <1>8, <1>9, <1>10, <1>12, <1>13, <1>14, <1>15, <1>16
  DEF Next, vars, userVars, Request, Agent, Keypress, Session, User, Network, StoreContext,
      RingUser, StoreUserLeg, StoreUserNumber

-----------------------------------------------------------------------------
(* One open bridge.                                                        *)

LEMMA BridgesKept == MediaTypeOK /\ BridgeInv /\ [Next]_vars => BridgeInv'
<1> SUFFICES ASSUME MediaTypeOK, BridgeInv, [Next]_vars PROVE BridgeInv'
  OBVIOUS
<1> DEFINE goal ==
      /\ \A g \in Bridges : /\ bridge'[g].leg = None => bridge'[g] = NoBridge
                            /\ bridge'[g].leg # None => leg'[bridge'[g].leg] # "unplaced"
                            /\ current' = g <=> bridge'[g].leg # None /\ ~bridge'[g].closed
      /\ \A g \in Bridges : Made(g) => bridge'[g].leg # None
<1>0. MediaTypeOK' /\ BridgeStep /\ AttachStep /\ PlaceStep
  BY TypesKept, GroupStep
<1>1. \A i \in Legs : leg[i] # "unplaced" => leg'[i] # "unplaced"
  BY <1>0 DEF PlaceStep, SamePlaced, OneMore
<1>2. ASSUME NEW closing, Adjusted(bridge', closing),
             \A g \in Bridges : current' = g <=> current = g /\ g \notin closing
      PROVE  goal
  <2>1. \A g \in Bridges : bridge[g].leg \in {None} \union Legs
    BY DEF MediaTypeOK, BridgeRecord
  <2>2. ASSUME NEW g \in Bridges
        PROVE  /\ bridge'[g].leg = bridge[g].leg
               /\ bridge'[g].leg = None => bridge'[g] = NoBridge
               /\ bridge'[g].leg # None => leg'[bridge'[g].leg] # "unplaced"
    BY <1>1, <1>2, <2>1 DEF Adjusted, BridgeInv, Made
  <2>3. ASSUME NEW g \in Bridges
        PROVE  current' = g <=> bridge'[g].leg # None /\ ~bridge'[g].closed
    BY <1>2, <2>2 DEF Adjusted, BridgeInv, Made
  <2> QED BY <2>2, <2>3 DEF Made
<1>3. goal
  <2>1. CASE Adjusted(bridge', {}) /\ current' = current
    BY <1>2, <2>1
  <2>2. CASE \E g \in Bridges : /\ Adjusted(bridge', {g}) /\ Made(g)
                                /\ current' = IF current = g THEN None ELSE current
    <3>1. PICK g \in Bridges : /\ Adjusted(bridge', {g})
                              /\ current' = IF current = g THEN None ELSE current
      BY <2>2
    <3>2. \A h \in Bridges : current' = h <=> current = h /\ h \notin {g}
      BY <3>1 DEF Bridges
    <3> QED BY <1>2, <3>1, <3>2
  <2>3. CASE /\ current = None
             /\ \E g \in Bridges, i \in Legs :
                  /\ ~Made(g) /\ bridge'[g].leg = i /\ ~bridge'[g].closed
                  /\ leg'[i] # "unplaced" /\ current' = g
                  /\ \A h \in Bridges \ {g} : bridge'[h] = bridge[h]
    <3>1. PICK g \in Bridges, i \in Legs :
            /\ ~Made(g) /\ bridge'[g].leg = i /\ ~bridge'[g].closed
            /\ leg'[i] # "unplaced" /\ current' = g
            /\ \A h \in Bridges \ {g} : bridge'[h] = bridge[h]
      BY <2>3
    <3>2. i # None /\ current \notin Bridges
      BY <2>3, BoundsAssumption DEF Legs, Bridges
    <3>3. ASSUME NEW h \in Bridges \ {g}
          PROVE  /\ bridge'[h] = bridge[h]
                 /\ bridge'[h].leg = None => bridge'[h] = NoBridge
                 /\ bridge'[h].leg # None => leg'[bridge'[h].leg] # "unplaced"
                 /\ ~(bridge'[h].leg # None /\ ~bridge'[h].closed)
      <4>1. bridge[h].leg \in {None} \union Legs
        BY DEF MediaTypeOK, BridgeRecord
      <4> QED BY <1>1, <3>1, <3>2, <4>1 DEF BridgeInv, Made
    <3> QED BY <3>1, <3>2, <3>3 DEF Made
  <2> QED BY <1>0, <2>1, <2>2, <2>3 DEF BridgeStep
<1>4. \A g \in Bridges : current' = g => bridge'[g].leg # None
  BY <1>3
<1>5. ASSUME NEW k \in Sockets, sock'[k].status # "none"
      PROVE  sock'[k].bridge \in Bridges /\ bridge'[sock'[k].bridge].leg # None
  BY <1>0, <1>3, <1>5 DEF AttachStep, BridgeInv
<1>6. ASSUME userSock' = "bound"
      PROVE  userBridge' \in Bridges /\ bridge'[userBridge'].leg # None
  BY <1>0, <1>3, <1>6 DEF AttachStep, BridgeInv
<1> HIDE DEF goal
<1>7. /\ \A g \in Bridges : /\ bridge'[g].leg = None => bridge'[g] = NoBridge
                            /\ bridge'[g].leg # None => leg'[bridge'[g].leg] # "unplaced"
                            /\ current' = g <=> bridge'[g].leg # None /\ ~bridge'[g].closed
  BY <1>3 DEF goal
<1> QED BY <1>5, <1>6, <1>7 DEF BridgeInv, Made

LEMMA BridgesStart == Init => BridgeInv
  BY DEF Init, BridgeInv, Made, NoBridge, NoSocket, Bridges

(***************************************************************************)
(* The registered bridge is the open one (media.py:89-101, 313-318).       *)
(***************************************************************************)
THEOREM RegisteredIsOpen == Spec => []OneOpenBridge
<1>1. BridgeInv => OneOpenBridge
  <2>1. \A g \in Bridges : BridgeInv => (Made(g) <=> bridge[g] # NoBridge)
    BY DEF BridgeInv, Made, NoBridge
  <2> QED BY <2>1 DEF BridgeInv, OneOpenBridge
<1> QED BY <1>1, BridgesStart, BridgesKept, MediaTypeCorrect, PTL DEF Spec

-----------------------------------------------------------------------------
(* What a step does to what is stored of the group and to what is texted.  *)

RequestStep ==
  /\ UNCHANGED texts
  /\ \/ /\ request = "new" /\ request' \in {"placed", "done"}
        /\ OneMore /\ UNCHANGED <<meta, number>>
     \/ request = "placed" /\ request' = "stored" /\ meta' = 0 /\ UNCHANGED number
     \/ request = "stored" /\ request' \in {"rung", "done"} /\ UNCHANGED <<meta, number>>
     \/ request = "rung" /\ request' = "known" /\ UNCHANGED <<meta, number>>
     \/ request = "known" /\ request' = "done" /\ UNCHANGED meta /\ number' = TRUE

ForgetStep ==
  /\ meta' = NoContext
  /\ number' = FALSE
  /\ texts' = texts \/ (number /\ \E r \in Reason : texts' = Append(texts, r))
  /\ UNCHANGED request

RedialStep == meta < MaxRedials /\ meta' = meta + 1 /\ OneMore /\ UNCHANGED <<request, number, texts>>

TalkStep ==
  /\ texts' = texts \/ (number /\ texts' = Append(texts, "connected"))
  /\ UNCHANGED <<request, meta, number>>

LEMMA ContextSteps ==
  ASSUME MediaTypeOK, BridgeInv, [Next]_vars
  PROVE  RequestStep \/ ForgetStep \/ RedialStep \/ TalkStep
<1>1. ASSUME NEW r \in Reason, NEW ls, NEW bs, UNCHANGED request,
             TeardownLoudly(r, ls, bs) \/ TeardownQuietly(ls, bs)
      PROVE  ForgetStep
  BY <1>1 DEF TeardownLoudly, TeardownQuietly, ForgetContext, Texted, ForgetStep
<1>2. ASSUME NEW k \in Sockets, NEW stop \in BOOLEAN, SocketEnds(k, stop)
      PROVE  ForgetStep \/ RedialStep \/ TalkStep
  <2>1. request' = request /\ "dropped" \in Reason
    BY <1>2 DEF SocketEnds, Reason
  <2>2. CASE LeaveForReconnect(k)
    BY <2>1, <2>2 DEF LeaveForReconnect, TalkStep, context
  <2>3. CASE Redial(k)
    <3>1. PICK i \in Legs : Unplaced(i) /\ leg' = [LegsWithout(k) EXCEPT ![i] = "ringing"]
      BY <2>3 DEF Redial
    <3>2. /\ leg[i] = "unplaced" /\ leg'[i] # "unplaced"
          /\ \A j \in Legs \ {i} : leg'[j] = "unplaced" <=> leg[j] = "unplaced"
      BY <3>1, LegsWithoutPlaced, LegsWithoutType, SomePlacedMore DEF Unplaced
    <3> QED BY <2>1, <2>3, <3>2 DEF Redial, MayRedial, RedialStep, OneMore
  <2>4. CASE GiveUpDropped(k) \/ FinishQuietly(k)
    BY <1>1, <2>1, <2>4 DEF GiveUpDropped, FinishQuietly
  <2> QED BY <1>2, <2>2, <2>3, <2>4 DEF SocketEnds
<1>3. ASSUME NEW g \in Bridges, SessionGivesUp(g) \/ HandoffUnavailable(g) PROVE ForgetStep
  BY <1>1, <1>3 DEF SessionGivesUp, HandoffUnavailable, FailSession, Reason
<1>4. CASE Reap
  BY <1>1, <1>4 DEF Reap, Reason
<1>5. CASE Detach
  <2>1. CASE UNCHANGED <<context, texts>>
    BY <1>5, <2>1 DEF Detach, TalkStep, context
  <2>2. CASE FailSession(userBridge, "user_left", [bridge EXCEPT ![userBridge].user = FALSE])
    BY <1>1, <1>5, <2>2 DEF Detach, FailSession, Reason
  <2> QED BY <1>5, <2>1, <2>2 DEF Detach
<1>6. CASE PlaceCall
  <2>1. PICK i \in Legs : leg[i] = "unplaced" /\ leg' = [leg EXCEPT ![i] = "ringing"]
    BY <1>6 DEF PlaceCall, Unplaced
  <2>2. OneMore
    BY <2>1 DEF OneMore, MediaTypeOK
  <2> QED BY <1>6, <2>2 DEF PlaceCall, RequestStep, context
<1>7. CASE StoreContext \/ RingUser \/ StoreUserLeg \/ StoreUserNumber
  BY <1>7 DEF StoreContext, RingUser, StoreUserLeg, StoreUserNumber, RequestStep, context
<1>8. ASSUME NEW g \in Bridges, OpenRelay(g) PROVE TalkStep
  BY <1>8 DEF OpenRelay, Texted, TalkStep, context
<1>9. CASE UNCHANGED <<request, meta, number, texts>>
  BY <1>9 DEF TalkStep
<1> QED BY <1>2, <1>3, <1>4, <1>5, <1>6, <1>7, <1>8, <1>9
  DEF Next, vars, context, Request, Agent, Keypress, Session, User, Network, Reconnect, NewSession,
      Press, PressDone, PressFails, BeginHandoff, UserAnswers, Attach, GiveUpAttaching,
      GraceExpires, NoAnswer, UserHangsUp

-----------------------------------------------------------------------------
(* The number of business calls.                                           *)

Placed == {i \in Legs : leg[i] # "unplaced"}

(***************************************************************************)
(* The redial count of a group's entry pays for the calls placed; without  *)
(* an entry none is placed but the first.                                  *)
(***************************************************************************)
PlacedInv ==
  /\ Cardinality(Placed) <= 1 + MaxRedials
  /\ request = "new" => Placed = {}
  /\ request = "placed" => Cardinality(Placed) <= 1
  /\ request \in {"new", "placed"} => meta = NoContext
  /\ meta # NoContext => meta <= MaxRedials /\ Cardinality(Placed) <= 1 + meta

LEMMA PlacedFinite ==
  /\ IsFiniteSet(Placed) /\ Cardinality(Placed) \in Nat
  /\ IsFiniteSet(Placed') /\ Cardinality(Placed') \in Nat
<1>1. IsFiniteSet(Legs)
  BY BoundsAssumption, FS_Interval DEF Legs
<1>2. Placed \in SUBSET Legs /\ Placed' \in SUBSET Legs
  BY DEF Placed
<1>3. IsFiniteSet(Placed) /\ IsFiniteSet(Placed')
  BY <1>1, <1>2, FS_Subset
<1> QED BY <1>3, FS_CardinalityType

LEMMA PlacedCount ==
  /\ SamePlaced(leg') => Placed' = Placed
  /\ OneMore => Cardinality(Placed') = Cardinality(Placed) + 1
<1>1. SamePlaced(leg') => Placed' = Placed
  BY DEF SamePlaced, Placed
<1>2. ASSUME NEW i \in Legs, leg[i] = "unplaced", leg'[i] # "unplaced",
             \A j \in Legs \ {i} : leg'[j] = "unplaced" <=> leg[j] = "unplaced"
      PROVE  Cardinality(Placed') = Cardinality(Placed) + 1
  <2>1. Placed' = Placed \union {i} /\ i \notin Placed
    BY <1>2 DEF Placed
  <2> QED BY <2>1, PlacedFinite, FS_AddElement
<1> QED BY <1>1, <1>2 DEF OneMore

LEMMA PlacedKept == MediaTypeOK /\ BridgeInv /\ PlacedInv /\ [Next]_vars => PlacedInv'
<1> SUFFICES ASSUME MediaTypeOK, BridgeInv, PlacedInv, [Next]_vars PROVE PlacedInv'
  OBVIOUS
<1> USE BoundsAssumption
<1> DEFINE n == Cardinality(Placed)
           after == Cardinality(Placed')
<1>0. /\ PlaceStep
      /\ RequestStep \/ ForgetStep \/ RedialStep \/ TalkStep
      /\ meta \in 0..NoContext
  BY GroupStep, ContextSteps DEF MediaTypeOK
<1>1. n \in Nat /\ after \in Nat
  BY PlacedFinite
<1>2. /\ n <= 1 + MaxRedials
      /\ request = "new" => n = 0
      /\ request = "placed" => n <= 1
      /\ request \in {"new", "placed"} => meta = NoContext
      /\ meta # NoContext => meta <= MaxRedials /\ n <= 1 + meta
  BY FS_EmptySet DEF PlacedInv
<1>3. CASE SamePlaced(leg')
  <2>1. Placed' = Placed /\ after = n
    BY <1>3, PlacedCount
  <2>2. request' = "new" => Placed' = {}
    BY <1>0, <2>1 DEF PlacedInv, RequestStep, ForgetStep, RedialStep, TalkStep
  <2> HIDE DEF n, after
  <2>3. /\ after <= 1 + MaxRedials
        /\ request' = "placed" => after <= 1
        /\ request' \in {"new", "placed"} => meta' = NoContext
        /\ meta' # NoContext => meta' <= MaxRedials /\ after <= 1 + meta'
    BY <1>0, <1>1, <1>2, <2>1 DEF RequestStep, ForgetStep, RedialStep, TalkStep
  <2> QED BY <2>2, <2>3 DEF PlacedInv, after
<1>4. CASE OneMore
  <2>1. after = n + 1
    BY <1>4, PlacedCount
  <2>2. ~SamePlaced(leg')
    BY <1>4 DEF OneMore, SamePlaced
  <2>3. request' # "new"
    BY <1>0, <1>2, <2>2 DEF PlaceStep
  <2> HIDE DEF n, after
  <2>4. CASE request = "new" /\ request' \in {"placed", "done"} /\ UNCHANGED meta
    BY <1>1, <1>2, <2>1, <2>3, <2>4 DEF PlacedInv, after
  <2>5. CASE meta < MaxRedials /\ meta' \in {meta + 1, NoContext} /\ UNCHANGED request
    <3>1. meta # NoContext /\ request \notin {"new", "placed"}
      BY <1>0, <1>2, <2>5
    <3>2. after <= 1 + (meta + 1) /\ after <= 1 + MaxRedials
      BY <1>0, <1>1, <1>2, <2>1, <2>5, <3>1
    <3> QED BY <1>0, <2>5, <3>1, <3>2 DEF PlacedInv, after
  <2> QED BY <1>0, <2>2, <2>4, <2>5 DEF PlaceStep
<1> QED BY <1>0, <1>3, <1>4 DEF PlaceStep

LEMMA PlacedStart == Init => PlacedInv
<1> SUFFICES ASSUME Init PROVE PlacedInv
  OBVIOUS
<1>1. Placed = {}
  BY DEF Init, Placed
<1>2. Cardinality(Placed) = 0
  BY <1>1, FS_EmptySet
<1>3. request = "new" /\ meta = NoContext
  BY DEF Init
<1>4. 0 <= 1 + MaxRedials /\ 0 <= 1
  BY BoundsAssumption
<1> QED BY <1>1, <1>2, <1>3, <1>4 DEF PlacedInv

(***************************************************************************)
(* One request calls the business at most 1 + _MAX_REDIALS times           *)
(* (media.py:195-212), in whatever order its calls end.                    *)
(***************************************************************************)
THEOREM CallsBounded == Spec => []RedialBudget
<1>1. PlacedInv => RedialBudget
  BY DEF PlacedInv, Placed, RedialBudget
<1> QED BY <1>1, PlacedStart, PlacedKept, BridgesStart, BridgesKept, MediaTypeCorrect, PTL DEF Spec

-----------------------------------------------------------------------------
(* Texts.                                                                  *)

(***************************************************************************)
(* While the user can be texted nothing but "connected" has been sent; the *)
(* number is stored once, before which nothing was.                        *)
(***************************************************************************)
TextInv ==
  /\ request # "done" => ~number /\ texts = <<>>
  /\ number => \A n \in 1..Len(texts) : texts[n] = "connected"
  /\ OneFallback

TextStep ==
  /\ \/ texts' = texts
     \/ number /\ \E t \in Reason \union {"connected"} :
           texts' = Append(texts, t) /\ (t = "connected" \/ ~number')
  /\ number' => number \/ (request = "known" /\ request' = "done" /\ texts' = texts)
  /\ request = "done" => request' = "done"

LEMMA TextSteps == ASSUME MediaTypeOK, BridgeInv, [Next]_vars PROVE TextStep
<1>1. RequestStep \/ ForgetStep \/ RedialStep \/ TalkStep
  BY ContextSteps
<1> QED BY <1>1 DEF RequestStep, ForgetStep, RedialStep, TalkStep, TextStep

LEMMA TextsKept == MediaTypeOK /\ BridgeInv /\ TextInv /\ [Next]_vars => TextInv'
<1> SUFFICES ASSUME MediaTypeOK, BridgeInv, TextInv, [Next]_vars PROVE TextInv'
  OBVIOUS
<1>0. TextStep /\ texts \in Seq(Reason \union {"connected"})
  BY TextSteps DEF MediaTypeOK
<1>1. CASE texts' = texts
  BY <1>0, <1>1 DEF TextStep, TextInv, OneFallback
<1>2. CASE texts' # texts
  <2>1. PICK t \in Reason \union {"connected"} :
          texts' = Append(texts, t) /\ (t = "connected" \/ ~number')
    BY <1>0, <1>2 DEF TextStep
  <2>2. number /\ request = "done" /\ request' = "done"
    BY <1>0, <1>2 DEF TextStep, TextInv
  <2>3. /\ Len(texts) \in Nat /\ Len(texts') = Len(texts) + 1 /\ texts'[Len(texts) + 1] = t
        /\ \A n \in 1..Len(texts) : texts'[n] = texts[n]
    BY <1>0, <2>1
  <2>4. \A n \in 1..Len(texts) : texts'[n] = "connected"
    BY <2>2, <2>3 DEF TextInv
  <2>5. OneFallback'
    BY <2>3, <2>4 DEF OneFallback
  <2>6. number' => \A n \in 1..Len(texts') : texts'[n] = "connected"
    BY <2>1, <2>3, <2>4
  <2> QED BY <2>2, <2>5, <2>6 DEF TextInv
<1> QED BY <1>1, <1>2

(***************************************************************************)
(* The user is told one reason at most, and nothing after it               *)
(* (media.py:68-101).                                                      *)
(***************************************************************************)
THEOREM OneReason == Spec => []OneFallback
<1>1. Init => TextInv
  BY DEF Init, TextInv, OneFallback
<1>2. TextInv => OneFallback
  BY DEF TextInv
<1> QED BY <1>1, <1>2, TextsKept, BridgesStart, BridgesKept, MediaTypeCorrect, PTL DEF Spec

-----------------------------------------------------------------------------
(* After the end.                                                          *)

Told == \E n \in 1..Len(texts) : texts[n] # "connected"

\* A group whose user was told a reason has no entry to redial with.
ToldInv == Told => meta = NoContext

LEMMA ToldKept ==
  MediaTypeOK /\ BridgeInv /\ TextInv /\ ToldInv /\ [Next]_vars => ToldInv'
<1> SUFFICES ASSUME MediaTypeOK, BridgeInv, TextInv, ToldInv, [Next]_vars, Told'
             PROVE  meta' = NoContext
  BY DEF ToldInv
<1>0. /\ RequestStep \/ ForgetStep \/ RedialStep \/ TalkStep
      /\ texts \in Seq(Reason \union {"connected"})
  BY ContextSteps DEF MediaTypeOK
<1>1. CASE Told
  <2>1. meta = NoContext /\ request = "done"
    BY <1>1 DEF ToldInv, TextInv, Told
  <2> QED BY <1>0, <2>1, BoundsAssumption DEF RequestStep, ForgetStep, RedialStep, TalkStep
<1>2. CASE ~Told
  <2>1. ~(texts' = texts)
    BY <1>2 DEF Told
  <2>2. ~(texts' = Append(texts, "connected"))
    <3> SUFFICES ASSUME texts' = Append(texts, "connected") PROVE ~Told'
      OBVIOUS
    <3>1. /\ Len(texts) \in Nat /\ Len(texts') = Len(texts) + 1
          /\ texts'[Len(texts) + 1] = "connected"
          /\ \A n \in 1..Len(texts) : texts'[n] = texts[n]
      BY <1>0
    <3>2. \A n \in 1..Len(texts) : texts'[n] = "connected"
      BY <1>2, <3>1 DEF Told
    <3> QED BY <3>1, <3>2 DEF Told
  <2> QED BY <1>0, <2>1, <2>2 DEF RequestStep, ForgetStep, RedialStep, TalkStep
<1> QED BY <1>1, <1>2

(***************************************************************************)
(* A user who was told why the call ended is not called for again: the     *)
(* number is the last thing the request stores (calls.py:73-74), so the    *)
(* teardown that texts also takes the redial entry for good.               *)
(***************************************************************************)
THEOREM OverForGood == Spec => NoCallAfterReason
<1>1. Init => TextInv /\ ToldInv
  BY DEF Init, TextInv, OneFallback, ToldInv, Told
<1>2. MediaTypeOK /\ BridgeInv /\ TextInv /\ ToldInv /\ [Next]_vars =>
        [Told => \A i \in Legs : leg[i] = "unplaced" => leg'[i] = "unplaced"]_vars
  <2> SUFFICES ASSUME MediaTypeOK, BridgeInv, TextInv, ToldInv, Next, Told
               PROVE  SamePlaced(leg')
    BY DEF SamePlaced
  <2>1. meta = NoContext /\ request = "done"
    BY DEF ToldInv, TextInv, Told
  <2> QED BY <2>1, GroupStep, BoundsAssumption DEF PlaceStep
<1>3. NoCallAfterReason <=>
        [][Told => \A i \in Legs : leg[i] = "unplaced" => leg'[i] = "unplaced"]_vars
  BY DEF NoCallAfterReason, Told
<1> QED BY <1>1, <1>2, <1>3, ToldKept, TextsKept, BridgesStart, BridgesKept, MediaTypeCorrect, PTL
  DEF Spec

-----------------------------------------------------------------------------
(* Bridges nobody looks after.                                             *)

\* A step that leaves alone what the reaper and the sockets go by.
LEMMA Watched ==
  ASSUME current' = current, sock' = sock,
         \A g \in Bridges : bridge'[g].reconnecting = bridge[g].reconnecting,
         MediaTypeOK
  PROVE  Abandoned' => Abandoned
  BY DEF Abandoned, MediaTypeOK

(***************************************************************************)
(* Every way a socket ends in, a redial and a teardown included, leaves a  *)
(* bridge that is unregistered, has another socket or is waited for by the *)
(* reaper (media.py:300-322); only a keypress whose request raises after   *)
(* its socket has ended (media.py:145) leaves one that is none of these.   *)
(***************************************************************************)
THEOREM OnlyKeypressAbandons == Spec => AbandonedByKeypress
<1>1. MediaTypeOK /\ [Next]_vars =>
        [~Abandoned /\ Abandoned' => bridge[current].pressing /\ ~bridge'[current].pressing]_vars
  <2> SUFFICES ASSUME MediaTypeOK, Next, ~Abandoned, Abandoned'
               PROVE  bridge[current].pressing /\ ~bridge'[current].pressing
    OBVIOUS
  <2>0. /\ current' # None
        /\ bridge \in [Bridges -> BridgeRecord] /\ current \in {None} \union Bridges
        /\ DOMAIN sock = Sockets
    BY DEF Abandoned, MediaTypeOK
  <2>1. CASE Request
    BY <2>1, Watched DEF Request, PlaceCall, StoreContext, RingUser, StoreUserLeg, StoreUserNumber
  <2>2. ASSUME NEW k \in Sockets, NEW i \in Legs, Reconnect(k, i) \/ NewSession(k, i)
        PROVE  FALSE
    <3>1. sock'[k].bridge = current' /\ sock'[k].status = "open"
      BY <2>0, <2>2 DEF Reconnect, NewSession, Bind
    <3> QED BY <3>1 DEF Abandoned
  <2>3. ASSUME NEW k \in Sockets, NEW stop \in BOOLEAN, SocketEnds(k, stop)
        PROVE  FALSE
    <3>1. LeaveForReconnect(k) \/ Redial(k)
      BY <2>0, <2>3 DEF SocketEnds, GiveUpDropped, FinishQuietly, TeardownLoudly, TeardownQuietly
    <3>2. /\ current' = current
          /\ bridge'[current].reconnecting = bridge[current].reconnecting
          /\ bridge[current].reconnecting \/ current # sock[k].bridge
      <4>1. CASE LeaveForReconnect(k)
        BY <4>1 DEF LeaveForReconnect
      <4>2. CASE Redial(k)
        BY <2>0, <4>2 DEF Redial, Unregister
      <4> QED BY <3>1, <4>1, <4>2
    <3>3. \A j \in Sockets : sock[j].bridge = current => sock'[j] = sock[j] \/ bridge[current].reconnecting
      BY <2>0, <2>3, <3>2 DEF SocketEnds, Close
    <3>4. \A j \in Sockets : sock'[j].bridge = sock[j].bridge
      BY <2>0, <2>3 DEF SocketEnds, Close, MediaTypeOK
    <3> QED BY <3>2, <3>3, <3>4 DEF Abandoned
  <2>4. ASSUME NEW g \in Bridges, Press(g) \/ PressDone(g)
        PROVE  FALSE
    <3>1. \A h \in Bridges : bridge[h].reconnecting => bridge'[h].reconnecting
      BY <2>0, <2>4 DEF Press, PressDone, BridgeRecord
    <3>2. current' = current /\ sock' = sock
      BY <2>4 DEF Press, PressDone
    <3> QED BY <2>0, <3>1, <3>2 DEF Abandoned
  <2>5. ASSUME NEW g \in Bridges, PressFails(g)
        PROVE  bridge[current].pressing /\ ~bridge'[current].pressing
    <3>1. CASE g = current
      BY <2>0, <2>5, <3>1 DEF PressFails, BridgeRecord
    <3>2. CASE g # current
      <4>1. bridge'[current] = bridge[current]
        BY <2>0, <2>5, <3>2 DEF PressFails
      <4> QED BY <2>5, <4>1 DEF PressFails, Abandoned
    <3> QED BY <3>1, <3>2
  <2>6. ASSUME NEW g \in Bridges,
               \/ SessionGivesUp(g) \/ HandoffUnavailable(g)
               \/ BeginHandoff(g) \/ OpenRelay(g)
        PROVE  FALSE
    <3>1. BeginHandoff(g) \/ OpenRelay(g)
      BY <2>0, <2>6 DEF SessionGivesUp, HandoffUnavailable, FailSession, TeardownLoudly
    <3>2. /\ current' = current /\ sock' = sock
          /\ \A h \in Bridges : bridge'[h].reconnecting = bridge[h].reconnecting
      BY <2>0, <3>1 DEF BeginHandoff, OpenRelay, BridgeRecord
    <3> QED BY <3>2, Watched
  <2>7. CASE User \/ Network \/ GraceExpires
    <3>1. /\ current' = current /\ sock' = sock
          /\ \A h \in Bridges : bridge'[h].reconnecting = bridge[h].reconnecting
      <4>1. CASE UserAnswers \/ GiveUpAttaching \/ Network
        BY <4>1 DEF UserAnswers, GiveUpAttaching, Network, UserHangsUp, NoAnswer
      <4>2. CASE Attach \/ GraceExpires
        BY <2>0, <4>2 DEF Attach, GraceExpires, BridgeRecord
      <4>3. CASE Detach
        BY <2>0, <4>3 DEF Detach, FailSession, TeardownLoudly, BridgeRecord
      <4> QED BY <2>7, <4>1, <4>2, <4>3 DEF User
    <3> QED BY <3>1, Watched
  <2>8. CASE Reap
    BY <2>0, <2>8 DEF Reap, TeardownLoudly
  <2> QED BY <2>1, <2>2, <2>3, <2>4, <2>5, <2>6, <2>7, <2>8
          DEF Next, Agent, Keypress, Session
<1> QED BY <1>1, MediaTypeCorrect, PTL DEF Spec, AbandonedByKeypress

-----------------------------------------------------------------------------
(* The promise.                                                            *)

(***************************************************************************)
(* What is stored and texted changes as CallPromise says, and the business *)
(* is called again only while the group is known.                          *)
(***************************************************************************)
THEOREM PromiseRefined == Spec => PromiseSpec
<1> USE BoundsAssumption
<1> DEFINE n == Cardinality(Placed)
           after == Cardinality(Placed')
<1>1. Init => Promise!Init
  <2> SUFFICES ASSUME Init PROVE Promise!Init
    OBVIOUS
  <2>1. Placed = {} /\ n = 0
    <3>1. Placed = {}
      BY DEF Init, Placed
    <3> QED BY <3>1, FS_EmptySet
  <2> QED BY <2>1 DEF Init, Promise!Init, Placed
<1>2. MediaTypeOK /\ BridgeInv /\ PlacedInv /\ [Next]_vars => [Promise!Next]_Promise!vars
  <2> SUFFICES ASSUME MediaTypeOK, BridgeInv, PlacedInv, [Next]_vars
               PROVE  [Promise!Next]_Promise!vars
    OBVIOUS
  <2>1. /\ PlaceStep /\ n \in Nat
        /\ RequestStep \/ ForgetStep \/ RedialStep \/ TalkStep
        /\ meta \in 0..NoContext
    BY GroupStep, ContextSteps, PlacedFinite DEF MediaTypeOK
  <2>2. SamePlaced(leg') => after = n
    BY PlacedCount
  <2>3. OneMore => after = n + 1 /\ ~SamePlaced(leg')
    BY PlacedCount DEF OneMore, SamePlaced
  <2>4. meta < MaxRedials => (meta # NoContext) /\ n <= MaxRedials
    BY <2>1 DEF PlacedInv
  <2>5. CASE RequestStep
    <3>1. CASE request = "new"
      BY <2>1, <2>3, <2>5, <3>1 DEF RequestStep, Promise!Next, Promise!Call, Placed
    <3>2. CASE request # "new"
      <4>1. request' # request
        BY <2>5, <3>2 DEF RequestStep
      <4>2. after = n
        <5>1. SamePlaced(leg')
          BY <2>1, <3>2, <4>1 DEF PlaceStep
        <5> QED BY <2>2, <5>1
      <4>3. CASE request = "placed"
        BY <2>5, <4>2, <4>3 DEF RequestStep, Promise!Next, Promise!Introduce, Placed
      <4>4. CASE request' = "done"
        <5>1. /\ request \in {"stored", "known"} /\ number' \in BOOLEAN
              /\ UNCHANGED <<meta, texts>>
          BY <2>5, <3>2, <4>4 DEF RequestStep, MediaTypeOK
        <5> QED BY <4>2, <4>4, <5>1 DEF Promise!Next, Promise!Finish, Placed
      <4>5. CASE request' \in {"rung", "known"}
        BY <2>5, <4>2, <4>5 DEF RequestStep, Promise!vars, Placed
      <4> QED BY <2>5, <3>2, <4>3, <4>4, <4>5 DEF RequestStep
    <3> QED BY <3>1, <3>2
  <2>6. CASE ForgetStep
    <3>1. after = n \/ ((meta # NoContext) /\ n <= MaxRedials /\ after = n + 1)
      BY <2>1, <2>2, <2>3, <2>4, <2>6 DEF ForgetStep, PlaceStep
    <3> QED BY <2>6, <3>1 DEF ForgetStep, Promise!Next, Promise!Forget, Promise!MayCallAgain, Placed
  <2>7. CASE RedialStep
    <3>1. meta' # NoContext
      BY <2>1, <2>7 DEF RedialStep
    <3> QED BY <2>3, <2>4, <2>7, <3>1
      DEF RedialStep, Promise!Next, Promise!CallAgain, Promise!MayCallAgain, Placed
  <2>8. CASE TalkStep
    <3>1. after = n
      BY <2>1, <2>2, <2>8 DEF TalkStep, PlaceStep
    <3> QED BY <2>8, <3>1 DEF TalkStep, Promise!Next, Promise!Connect, Promise!vars, Placed
  <2> QED BY <2>1, <2>5, <2>6, <2>7, <2>8
<1> QED BY <1>1, <1>2, PlacedStart, PlacedKept, BridgesStart, BridgesKept, MediaTypeCorrect, PTL
  DEF Spec, PromiseSpec, Promise!Spec
=============================================================================
