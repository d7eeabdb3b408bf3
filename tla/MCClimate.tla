----------------------------- MODULE MCClimate -----------------------------
EXTENDS Climate

\* Of the page, and of whoever calls it: a switch off and the other display unit.
MCWebParams == {[power |-> 0], [temp_unit |-> 1]}
=============================================================================
