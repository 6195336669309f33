------------------------------- MODULE Adapters -------------------------------
(***************************************************************************)
(* What the seven channels make of a message before it is published:       *)
(* which messages they drop, the chat identifier they give it, which is    *)
(* where the answer will be sent, and the sender the allow-list sees; and  *)
(* where a Send to a chat identifier comes out.                            *)
(*                                                                         *)
(* A conversation is a group, or the private one of a user, which bears    *)
(* the user's name.  Of a message's content only matters whether it has    *)
(* text and whether it has attachments; downloads and transcriptions put   *)
(* a line of text in their place even when they fail.  For MaixCam, text   *)
(* stands for the type person_detected, the only one it passes on.         *)
(***************************************************************************)
EXTENDS Naturals

CONSTANTS
    Users,
    Groups,
    NoUser,      \* no author in the event
    Device,      \* the only conversation of MaixCam, chat "default"
    Nowhere,     \* no conversation
    AllowList,   \* allow_from of each channel; empty lets everyone in
    Named        \* users who have a user name

Kinds == {"telegram", "discord", "whatsapp", "qq", "dingtalk", "feishu", "maixcam"}

ASSUME AdaptersAssumption ==
    /\ Users \cap Groups = {} /\ Device \notin Users \cup Groups
    /\ NoUser \notin Users \cup Groups \cup {Device}
    /\ Nowhere \notin Users \cup Groups \cup {Device, NoUser}
    /\ AllowList \in [Kinds -> SUBSET (Users \cup {Device})] /\ Named \subseteq Users

Conversations == Users \cup Groups \cup {Device}

(* An event of a platform. *)
Events == [from : Users \cup {NoUser}, in : Conversations, text : BOOLEAN, media : BOOLEAN]

(* Telegram and WhatsApp need an author.  Discord drops what is empty (and *)
(* what the bot itself wrote), QQ and DingTalk whatever has no text, with  *)
(* its attachments.  Feishu puts "[empty message]" where nothing is.       *)
Dropped(kind, e) ==
    CASE kind \in {"telegram", "whatsapp"} -> e.from = NoUser
      [] kind = "discord"                  -> e.from = NoUser \/ (~e.text /\ ~e.media)
      [] kind = "qq"                       -> e.from = NoUser \/ ~e.text
      [] kind \in {"dingtalk", "maixcam"}  -> ~e.text
      [] kind = "feishu"                   -> FALSE

(* The answer goes to the author, wherever the message was written. *)
AddressOfAuthor(kind, e) ==
    CASE kind \in {"qq", "dingtalk"} -> e.from
      [] kind = "maixcam"            -> Device
      [] OTHER                       -> e.in

(* ChatID.  QQ and DingTalk use the group's identifier in a group and the  *)
(* author's outside, which on DingTalk may be empty; the others the        *)
(* conversation's.                                                         *)
Address(kind, e) ==
    CASE kind \in {"qq", "dingtalk"} -> IF e.in \in Groups THEN e.in ELSE e.from
      [] kind = "maixcam"            -> Device
      [] OTHER                       -> e.in

(* SenderID.  Telegram appends the user name, "id|name", to those who have *)
(* one, and a listed identifier no longer equals it.  MaixCam's sender is  *)
(* itself, Feishu's "unknown" where there is none.                         *)
Sender(kind, e) ==
    CASE kind = "telegram" /\ e.from \in Named -> <<e.from, "name">>
      [] kind = "maixcam"                      -> <<Device>>
      [] OTHER                                 -> <<e.from>>

IsAllowed(kind, e) ==
    AllowList[kind] = {} \/ \E u \in AllowList[kind] : Sender(kind, e) = <<u>>

(* Where the platform shows a text that is sent to an address.  QQ always  *)
(* sends to a user; DingTalk replies through the webhook the chat's last   *)
(* message came with.                                                      *)
Reached(kind, address, webhook) ==
    CASE kind = "qq"       -> IF address \in Users THEN address ELSE Nowhere
      [] kind = "dingtalk" -> webhook
      [] OTHER             -> address

=============================================================================
