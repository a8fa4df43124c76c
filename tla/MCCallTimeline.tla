--------------------------- MODULE MCCallTimeline ---------------------------
(***************************************************************************)
(* A small instance of the call-phase machine and its observer.            *)
(***************************************************************************)
EXTENDS CallTimeline

\* One label of each kind the handlers tell apart, and one none of them knows.
MCHeard == {"MENU_SPEAKING", "LIVE_SPEECH_CANDIDATE", "HOLD_MUSIC", "SILENCE",
            "VOICEMAIL", "UNKNOWN"}
MCElapsed == {1, 3}
=============================================================================
