---------------------------- MODULE MCTelegramBot ----------------------------
(***************************************************************************)
(* An instance of TelegramBot for TLC: an admin asks for a report, somebody *)
(* else sends /start and then /ping.                                       *)
(***************************************************************************)
EXTENDS TelegramBot, TLC

MCFrom == <<"admin", "stranger", "stranger">>
MCText == <<"/sendreport", "/start", "/ping">>
=============================================================================
