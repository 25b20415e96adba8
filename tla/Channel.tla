------------------------------ MODULE Channel ------------------------------
(***************************************************************************)
(* What a session promises in each direction: messages arrive whole, in    *)
(* the order they were sent, none twice and none skipped.  The channel may *)
(* stop delivering at any point.                                           *)
(***************************************************************************)
EXTENDS Naturals, Sequences

VARIABLES
    sent,     \* the messages handed to the channel, in order
    arrived   \* the messages that came out of it, in order

Init == sent = <<>> /\ arrived = <<>>

Send ==
    /\ Len(sent') > Len(sent)
    /\ sent' = Append(sent, sent'[Len(sent')])
    /\ UNCHANGED arrived

Arrive ==
    /\ Len(arrived) < Len(sent)
    /\ arrived' = Append(arrived, sent[Len(arrived) + 1])
    /\ UNCHANGED sent

Next == Send \/ Arrive

Spec == Init /\ [][Next]_<<sent, arrived>>
=============================================================================
