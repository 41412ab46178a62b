----------------------------- MODULE MCSmsReceiver -----------------------------
(***************************************************************************)
(* A small instance of SmsReceiver for TLC: a message of two parts, two    *)
(* messages that share a number and a reference but not a total, a message *)
(* without a header, and one whose header announces no part at all.        *)
(***************************************************************************)
EXTENDS SmsReceiver, TLC

CONSTANTS split, old, new, plain, empty, keySplit, keyShared, keyPlain, keyEmpty

Keying == (split :> keySplit) @@ (old :> keyShared) @@ (new :> keyShared)
              @@ (plain :> keyPlain) @@ (empty :> keyEmpty)
Totals == (split :> 2) @@ (old :> 2) @@ (new :> 3) @@ (plain :> Single) @@ (empty :> 0)
Parts  == (split :> 1..2) @@ (old :> 0..1) @@ (new :> {2, 3}) @@ (plain :> {0}) @@ (empty :> {1})
Deliveries == (split :> 2) @@ (old :> 1) @@ (new :> 2) @@ (plain :> 1) @@ (empty :> 1)
=============================================================================
