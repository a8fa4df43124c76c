---------------------------- MODULE EventDelivery ----------------------------
(***************************************************************************)
(* What the telemetry pipeline promises of the events it accepts, whatever *)
(* carries them: nothing is stored that was not accepted, what is stored   *)
(* stays stored, and while the store is served every accepted event is     *)
(* settled: stored, or openly given up.                                    *)
(***************************************************************************)
CONSTANT Event

VARIABLES
  accepted, \* the events taken from the callers
  stored,   \* those that have a row
  givenUp,  \* those that were given up: counted, parked or lost at an exit
  serving   \* somebody takes events to the store

vars == <<accepted, stored, givenUp, serving>>

Init ==
  /\ accepted = {}
  /\ stored = {}
  /\ givenUp = {}
  /\ serving = TRUE

Accept ==
  /\ \E e \in Event \ accepted : accepted' = accepted \union {e}
  /\ UNCHANGED <<stored, givenUp, serving>>

\* Also an event that has been given up may be stored, and the other way round.
Store ==
  /\ serving
  /\ \E es \in SUBSET accepted : stored' = stored \union es
  /\ UNCHANGED <<accepted, givenUp, serving>>

GiveUp ==
  /\ \E es \in SUBSET accepted : givenUp' = givenUp \union es
  /\ UNCHANGED <<accepted, stored, serving>>

StartOrStop ==
  /\ serving' = ~serving
  /\ UNCHANGED <<accepted, stored, givenUp>>

Next == Accept \/ Store \/ GiveUp \/ StartOrStop

Settled(e) == e \in stored \/ e \in givenUp

Settle(e) ==
  /\ serving
  /\ e \in accepted
  /\ ~Settled(e)
  /\ Store \/ GiveUp
  /\ Settled(e)'

Spec == Init /\ [][Next]_vars /\ \A e \in Event : WF_vars(Settle(e))
=============================================================================
