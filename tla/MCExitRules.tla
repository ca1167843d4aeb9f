----------------------------- MODULE MCExitRules ------------------------------
EXTENDS ExitLab
MCStops    == [immediate |-> 2, days |-> 3]
MCTrails   == [immediate |-> 0, days |-> 2]
MCHorizons == [immediate |-> 3, days |-> 5]
MCRatchets == {{}, {<<2, 1>>}}
MCExtensions == {[min |-> 0, by |-> 0], [min |-> 1, by |-> 2]}
=============================================================================
