---------------------------- MODULE MCChatThread ----------------------------
(* Two cards of one message, with names apart. *)
EXTENDS ChatThread, TLC
CONSTANTS a, b, fund, bond, typo
MCNameOf == a :> fund @@ b :> bond
MCInside == fund :> {fund} @@ bond :> {bond} @@ typo :> {typo}
=============================================================================
