---------------------------- MODULE MCMapServer ------------------------------
EXTENDS MapServer

CONSTANTS plain, odd, nan, bad

SomeBodies == {<<odd, plain>>, <<nan, bad>>, <<>>}
=============================================================================
