---------------------------- MODULE MCEventLoops ----------------------------
EXTENDS EventLoops

SomeEvents == {<<"a", In>>, <<"b", In>>, <<"b", Out>>}
=============================================================================
