--------------------------- MODULE MCJobLifecycle ---------------------------
(* Instances of JobLifecycle for TLC.                                        *)
EXTENDS JobLifecycle

CONSTANTS j1, j2

NoJobs  == {}
OneJob  == {j1}
TwoJobs == {j1, j2}
=============================================================================
