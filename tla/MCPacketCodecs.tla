----------------------------- MODULE MCPacketCodecs -----------------------------
EXTENDS PacketCodecs

\* Payloads of 0, 4 and 5 bytes: empty, as long as the default option, odd.
Sample == {<<>>, <<3, 0, 15, 1>>, <<1, 2, 3, 4, 5>>}

Choice(m, s, t) == [mss |-> m, scale |-> s, timestamps |-> t]

SomeOptions == {Choice(FALSE, FALSE, FALSE), Choice(TRUE, FALSE, FALSE),
               Choice(TRUE, TRUE, TRUE)}
================================================================================
