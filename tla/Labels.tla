------------------------------- MODULE Labels -------------------------------
(***************************************************************************)
(* Tier 1's per-frame output taxonomy (agent/labels.py): the ten labels    *)
(* and the four sets of them the call-phase machine tests a label against. *)
(***************************************************************************)

MenuLabels == {"MENU_SPEAKING", "MENU_AWAITING_INPUT"}

SpeechyLabels == MenuLabels \union {"LIVE_SPEECH_CANDIDATE"}

NonConnectLabels == {"VOICEMAIL", "ERROR_TONE"}

HoldLabels == {"HOLD_MUSIC", "HOLD_INTERJECTION", "SILENCE"}

Label == SpeechyLabels \union NonConnectLabels \union HoldLabels
           \union {"RINGBACK", "UNKNOWN"}

\* _streak_label before any confident frame: None.
NoLabel == "NO_LABEL"
=============================================================================
