--------------------------- MODULE MCServiceLoops ---------------------------
EXTENDS ServiceLoops

MCLoops == {"telegram", "scheduler", "billing"}
MCCounting == MCLoops \ {"billing"}
MCResources == <<"telegram", "backend", "connection">>
MCWire == {Tap, Gif}
MCUnsupported == {Photo, Location}

=============================================================================
