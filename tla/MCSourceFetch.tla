---------------------------- MODULE MCSourceFetch ----------------------------
EXTENDS SourceFetch

CONSTANTS c1, c2, p1, h1

MCKind == [c \in Calls |-> IF c = c1 THEN "auto" ELSE "dynamic"]
MCProfile == [c \in Calls |-> p1]
MCHostOf == [c \in Calls |-> h1]
MCAttempts == [c \in Calls |-> 2]
MCDelays == {0, 2}

=============================================================================
