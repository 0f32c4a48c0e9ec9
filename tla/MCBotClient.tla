----------------------------- MODULE MCBotClient -----------------------------
(***************************************************************************)
(* BotClient with a few lines of input and a few messages.                 *)
(***************************************************************************)
EXTENDS BotClient

=============================================================================
