-------------------------- MODULE MCTelegramFeed ---------------------------
EXTENDS TelegramFeed
(* Messages are numbers: the constants of the .cfg files suffice.          *)
=============================================================================
