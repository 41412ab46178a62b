---------------------------- MODULE MCModemWorker ----------------------------
(***************************************************************************)
(* Small instances of ModemWorker for TLC: two messages and a query, so    *)
(* that an answer can reach the wrong command of the same kind and of the  *)
(* other kind.                                                             *)
(***************************************************************************)
EXTENDS ModemWorker, TLC

CONSTANTS sms1, sms2, query, ref

SmsAndQuery  == (sms1 :> "SendSMS") @@ (query :> "GetSignalStrength")
TwoSmsAndQuery == SmsAndQuery @@ (sms2 :> "SendSMS")
=============================================================================
