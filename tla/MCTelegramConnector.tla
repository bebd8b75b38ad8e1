-------------------------- MODULE MCTelegramConnector --------------------------
(* Instances of TelegramConnector for TLC. *)
EXTENDS TelegramConnector

\* Every path of processUpdate: a voice note may be unreadable, refused,
\* answered or given up on; a link changes who may write.
VoiceAndLink == {"voice", "link"}
===============================================================================
