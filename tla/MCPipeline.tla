----------------------------- MODULE MCPipeline -----------------------------
(***************************************************************************)
(* MessagePipeline on small instances: one or two chats and one on no      *)
(* channel, queues of one message, which is what makes every publisher     *)
(* wait.                                                                   *)
(***************************************************************************)
EXTENDS MessagePipeline

=============================================================================
