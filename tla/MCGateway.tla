------------------------------- MODULE MCGateway -------------------------------
(***************************************************************************)
(* Gateway with the constants of a small instance: no channel at all, and  *)
(* pairs of channels that put each kind of start, Send and stop beside     *)
(* another one.                                                            *)
(***************************************************************************)
EXTENDS Gateway

Config(channels, edge) == [channels |-> channels, edge |-> edge]

MCConfigs ==
    {Config({}, TRUE), Config({"maixcam"}, FALSE), Config({"whatsapp"}, TRUE),
     Config({"whatsapp", "discord"}, FALSE), Config({"telegram", "qq"}, TRUE),
     Config({"dingtalk", "feishu"}, FALSE)}

=============================================================================
