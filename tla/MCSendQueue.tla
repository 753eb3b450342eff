---------------------------- MODULE MCSendQueue ----------------------------
(* SendQueue with a burst of four messages, one of them the bot's own. *)
EXTENDS SendQueue

CONSTANTS m1, m2, m3, b1
MCMsgs    == {m1, m2, m3, b1}
MCBotMsgs == {b1}
=============================================================================
