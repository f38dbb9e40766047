---------------------------- MODULE MCAlistClient ----------------------------
EXTENDS AlistClient, TLC

CONSTANTS p1, p2, none
MCProcs == {p1, p2}
MCRates == {1, 2}
=============================================================================
