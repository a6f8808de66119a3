----------------------- MODULE MCEnvironmentCatalog -----------------------
(* Small instances of EnvironmentCatalog.                                  *)
EXTENDS EnvironmentCatalog

CONSTANTS e1, wf1, wf2

FullClaim == [status |-> "passed", evidence |-> TRUE, topology |-> TRUE]
FailedClaim == [status |-> "failed", evidence |-> FALSE, topology |-> FALSE]

NoClaims == {}
TwoClaims == {FullClaim, FailedClaim}

NoSavedRuns == {}
SavedRuns ==
  {[env |-> e1, status |-> s, accepted |-> a] :
     s \in {"passed", "failed"}, a \in {wf1, NoWorkflow}}
=============================================================================
