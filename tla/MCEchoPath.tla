------------------------------ MODULE MCEchoPath ------------------------------
EXTENDS EchoPath

Sample == {<<>>, <<9, 3, 1>>}
=============================================================================
