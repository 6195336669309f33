-------------------------------- MODULE MCChats --------------------------------
(***************************************************************************)
(* ChatChannels with the constants of a small instance: two users who      *)
(* write in private and in a group, one of them with a user name, and      *)
(* events that lack an author or a text.  Both users are on the            *)
(* allow-lists, but on DingTalk and Feishu, where an event without author  *)
(* is not dropped, everyone is let in.                                     *)
(***************************************************************************)
EXTENDS ChatChannels

CONSTANTS u1, u2, g

Event(from, in, text, media) == [from |-> from, in |-> in, text |-> text, media |-> media]

MCShapes ==
    {Event(u1, u1, TRUE, FALSE), Event(u1, g, TRUE, FALSE), Event(u2, g, TRUE, FALSE),
     Event(u2, u2, FALSE, TRUE), Event(NoUser, g, FALSE, FALSE),
     Event(NoUser, u1, TRUE, FALSE), Event(NoUser, u2, TRUE, FALSE),
     Event(u1, Device, TRUE, FALSE), Event(u1, Device, FALSE, FALSE)}

MCAllowList == [k \in Kinds |-> IF k \in {"dingtalk", "feishu"} THEN {} ELSE {u1, u2, Device}]

MCBound ==
    [telegram |-> 2, qq |-> 2, dingtalk |-> 2, discord |-> 2, feishu |-> 2, whatsapp |-> 2,
     maixcam |-> 2]

=============================================================================
