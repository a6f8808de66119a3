---------------------------- MODULE MCCaseBatch ----------------------------
(* Small instances of CaseBatch.                                           *)
EXTENDS CaseBatch

CONSTANTS c1, c2

OneStep == <<c1>>
TwoSteps == <<c1, c2>>
ThreeSteps == <<c1, c2, c1>>

NoSelection == {}
TwoSelections == {<<c1>>, <<c2, c1>>}
OtherCase == {<<c2>>}
=============================================================================
