\* Several choices of options, and segments of a standard TCP between them, in
\* bytes of 16 values instead of 256.
SPECIFICATION CodecsSpec
CONSTANTS
    B = 16
    HeaderLen = 20
    Fields = {35}
    Flags = {12}
    Payloads <- Sample
    Noise = {7}
    Options <- SomeOptions
    Foreign = {7, 255}
    Ports = {2, 35}
    Datagrams <- Sample
INVARIANTS HeaderSurvives VerifyDecides PayloadSurvives DatagramSurvives
