-------------------------- MODULE MCSerialTransport --------------------------
\* What hosts send: an update, two with a packet without a type and with more to
\* come after the STOP, and one that is no update.
EXTENDS SerialTransport

Update  == <<"START", "INIT", "DATA", "DATA", "STOP_DATA">>
Strange == <<"START", "INIT", "INVALID", "DATA", "STOP_DATA", "OTHER">>
Trailed == <<"START", "INIT", "STOP_DATA", "INVALID">>
Early   == <<"START", "STOP_DATA", "OTHER", "START">>
AllScripts == {Update, Strange, Trailed, Early}
=============================================================================
