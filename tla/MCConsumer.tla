----------------------------- MODULE MCConsumer -----------------------------
(* One consumer for TLC.                                                   *)
EXTENDS Consumer

CONSTANTS g1, g2

MCGroups == {g1}
MCTwoGroups == {g1, g2}
MCCodes == {1001}
MCNoCode == -1
MCNone == {}
MCExpected == {"expected"}
MCUnexpected == {"unexpected"}
=============================================================================
