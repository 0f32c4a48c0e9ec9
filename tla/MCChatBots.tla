----------------------------- MODULE MCChatBots -----------------------------
(***************************************************************************)
(* ChatBots with a leader, a member that comes and goes, and a bot that    *)
(* pings the member.                                                       *)
(***************************************************************************)
EXTENDS ChatBots

MCToLower == [n \in Names |-> n]
MCMode == [leader |-> "groupleader", member |-> "groupmember", pinger |-> "pingpong"]
MCPartner == [leader |-> "member", member |-> "leader", pinger |-> "member"]

=============================================================================
