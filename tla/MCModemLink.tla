----------------------------- MODULE MCModemLink -----------------------------
(***************************************************************************)
(* Small instances of ModemLink for TLC: two messages, alone or with a     *)
(* query.                                                                  *)
(***************************************************************************)
EXTENDS ModemLink, TLC

CONSTANTS sms1, sms2, query

TwoSms      == (sms1 :> "SendSMS") @@ (sms2 :> "SendSMS")
TwoSmsAndQuery == TwoSms @@ (query :> "GetSignalStrength")

\* The two messages are alike.
MessagesAlike == Permutations({sms1, sms2})
=============================================================================
