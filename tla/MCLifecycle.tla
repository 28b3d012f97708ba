---------------------------- MODULE MCLifecycle ----------------------------
(* Model values and symmetry for TLC's runs of Lifecycle.                  *)
EXTENDS Lifecycle, TLC

CONSTANTS b1, b2, k1, k2, a1

TwoBrowsers == {b1, b2}
TwoHandlers == {k1, k2}
OneAccount == {a1}

Symmetric == Permutations(Handlers) \cup Permutations(Browsers)
=============================================================================
