----------------------------- MODULE MCTermTab -----------------------------
EXTENDS TermTab, TLC

CONSTANTS s1, s2, h1, t1, t2

MCSessions == {s1, s2}
MCHosts == {h1}
MCInputs == {}
MCTabs == {t1, t2}

Symmetric == Permutations(MCTabs) \cup Permutations(MCSessions)
=============================================================================
