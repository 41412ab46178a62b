------------------------------ MODULE MCSmsStore ------------------------------
(***************************************************************************)
(* Small instances of SmsStore for TLC: a message to each of two numbers,  *)
(* one of them in two parts.                                               *)
(***************************************************************************)
EXTENDS SmsStore, TLC

CONSTANTS alice, bob, Alice, Bob

Numbers == [m \in Messages |-> IF m = bob THEN Bob ELSE Alice]
OnePart == [m \in Messages |-> 1]
TwoForBob == [m \in Messages |-> IF m = bob THEN 2 ELSE 1]
=============================================================================
