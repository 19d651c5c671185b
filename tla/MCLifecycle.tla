---------------------------- MODULE MCLifecycle ----------------------------
(* Lifecycle on small configurations.                                      *)
EXTENDS Lifecycle

Cfg(total, phase, budget, other) ==
    [startup |-> 1, total |-> total, phase |-> phase, budget |-> budget, other |-> other]

(* Around every limit Validate draws: a window that just fits its phase    *)
(* and one that does not, a phase of exactly half the total and one of     *)
(* more, an odd total, and a section that is wrong by itself.              *)
MCConfigs == {Cfg(6, 3, 1, TRUE), Cfg(7, 3, 2, TRUE), Cfg(5, 3, 1, TRUE), Cfg(6, 3, 1, FALSE)}
=============================================================================
