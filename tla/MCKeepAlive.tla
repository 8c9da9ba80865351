---------------------------- MODULE MCKeepAlive -----------------------------
(* The firmware's keep-alive of 4 s, eight polls, its acknowledgement timeout *)
(* of 5 s, ten polls, and a server that answers at once or as late as the     *)
(* fifteenth poll, the last before _onPoll gives up.                          *)
EXTENDS KeepAlive
=============================================================================
