---------------------------- MODULE MCAuthPrompt ----------------------------
EXTENDS AuthPrompt

CONSTANTS p1, p2, p3

MCPrompts == {p1, p2}
=============================================================================
