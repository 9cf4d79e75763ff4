---------------------------- MODULE MCSupervisor ----------------------------
(* Small instances of Supervisor for TLC.                                  *)
EXTENDS Supervisor

C(r, s, d) == [running |-> r, single |-> s, depth |-> d]

AutoRun    == C(TRUE, FALSE, 0)
SingleRun  == C(TRUE, TRUE, 0)
AverageRun == C(TRUE, FALSE, 2)
Halted     == C(FALSE, FALSE, 0)

SafetyChoices  == {AutoRun, SingleRun}
AveragingChoices == {AutoRun, AverageRun}
JustAuto       == {AutoRun}
NoConfig       == {}
JustSingle     == {SingleRun}
=============================================================================
