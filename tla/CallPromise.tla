----------------------------- MODULE CallPromise -----------------------------
(***************************************************************************)
(* What one POST /calls promises to the business and to the user, whoever  *)
(* ends the call and in whatever order: the business is called a bounded   *)
(* number of times, and again only for a call that is known; what is       *)
(* forgotten of a call is never known again; the user is texted only       *)
(* between the time the number is stored and the time the call is          *)
(* forgotten, and told why the call ended when it is.                      *)
(***************************************************************************)
EXTENDS Naturals, Sequences

CONSTANTS Redials, Reason

VARIABLES
  request,   \* how far the request has come
  placed,    \* calls to the business so far
  known,     \* what a redial needs is stored
  reachable, \* the user's number is
  texts      \* what the user was texted, in order

vars == <<request, placed, known, reachable, texts>>

Init ==
  /\ request = "new"
  /\ placed = 0
  /\ known = FALSE
  /\ reachable = FALSE
  /\ texts = <<>>

\* The request that is answered with an error has called the business, too.
Call ==
  /\ request = "new"
  /\ request' \in {"placed", "done"}
  /\ placed' = placed + 1
  /\ UNCHANGED <<known, reachable, texts>>

Introduce ==
  /\ request = "placed"
  /\ request' = "introduced"
  /\ known' = TRUE
  /\ UNCHANGED <<placed, reachable, texts>>

\* The call may be over by now: a number can be stored for good.
Finish ==
  /\ request = "introduced"
  /\ request' = "done"
  /\ reachable' \in BOOLEAN
  /\ UNCHANGED <<placed, known, texts>>

MayCallAgain == known /\ placed <= Redials

CallAgain ==
  /\ MayCallAgain
  /\ placed' = placed + 1
  /\ UNCHANGED <<request, known, reachable, texts>>

\* The last attempt to call again may have gone through all the same.
Forget ==
  /\ known' = FALSE
  /\ reachable' = FALSE
  /\ \/ UNCHANGED texts
     \/ reachable /\ \E r \in Reason : texts' = Append(texts, r)
  /\ \/ UNCHANGED placed
     \/ MayCallAgain /\ placed' = placed + 1
  /\ UNCHANGED request

Connect ==
  /\ reachable
  /\ texts' = Append(texts, "connected")
  /\ UNCHANGED <<request, placed, known, reachable>>

Next == Call \/ Introduce \/ Finish \/ CallAgain \/ Forget \/ Connect

Spec == Init /\ [][Next]_vars
=============================================================================
