--------------------------- MODULE MCAgentSession ---------------------------
(***************************************************************************)
(* A small instance of one live call.                                      *)
(***************************************************************************)
EXTENDS AgentSession

MCHeard == {"MENU_SPEAKING", "LIVE_SPEECH_CANDIDATE", "HOLD_MUSIC", "SILENCE",
            "VOICEMAIL"}
MCElapsed == {1}
=============================================================================
