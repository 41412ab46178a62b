------------------------------ MODULE MCSmsPages ------------------------------
(***************************************************************************)
(* An instance of SmsPages for TLC: up to four messages of three numbers,  *)
(* at two times in any order, read one or two at a time.                   *)
(***************************************************************************)
EXTENDS SmsPages

ThreePhones == 1..3
TwoTimes == 1..2
OneOrTwo == {1, 2}
=============================================================================
