----------------------------- MODULE RequestReply -----------------------------
(***************************************************************************)
(* What the gateway promises a user, whatever goes on inside: requests are *)
(* answered in the order they were taken in, each of them at most once,    *)
(* and in the chat it came from.                                           *)
(***************************************************************************)
EXTENDS Naturals, Sequences

CONSTANT Chats

VARIABLES
    requests,   \* the chats of the requests taken in, in order
    answers     \* one entry per answer given, in order: the request and the chat

Init == requests = <<>> /\ answers = <<>>

Request ==
    /\ \E c \in Chats : requests' = Append(requests, c)
    /\ UNCHANGED answers

Answer ==
    /\ Len(answers) < Len(requests)
    /\ LET k == Len(answers) + 1
       IN  answers' = Append(answers, [about |-> k, to |-> requests[k]])
    /\ UNCHANGED requests

Next == Request \/ Answer

Spec == Init /\ [][Next]_<<requests, answers>>

=============================================================================
