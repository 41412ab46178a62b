--------------------------- MODULE MCModemDialogue ---------------------------
(***************************************************************************)
(* Small instances of ModemDialogue for TLC: a message that is queued      *)
(* while the worker talks to the modem, or no command at all.              *)
(***************************************************************************)
EXTENDS ModemDialogue, TLC

CONSTANTS sms1, ref

OneMessage == (sms1 :> "SendSMS")
NoRequests == <<>>
=============================================================================
