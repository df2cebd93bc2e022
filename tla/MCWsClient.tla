---------------------------- MODULE MCWsClient ----------------------------
EXTENDS WsClient

\* The properties say nothing once `disturbed` holds, and it holds forever.
Undisturbed == ~disturbed
=============================================================================
