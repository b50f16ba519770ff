----------------------------- MODULE FrameChannel -----------------------------
(***************************************************************************)
(* What the framing of one direction of a DERP connection promises: frames  *)
(* arrive whole, in the order in which they were sent, each once.           *)
(***************************************************************************)
EXTENDS Naturals, Sequences

VARIABLES
  sent, \* the frames that one end has begun to send
  got   \* the frames that the other end has decoded

Init == sent = <<>> /\ got = <<>>

Send ==
  /\ Len(sent') = Len(sent) + 1
  /\ SubSeq(sent', 1, Len(sent)) = sent
  /\ UNCHANGED got

Receive ==
  /\ Len(got) < Len(sent)
  /\ got' = Append(got, sent[Len(got) + 1])
  /\ UNCHANGED sent

Spec == Init /\ [][Send \/ Receive]_<<sent, got>>
=============================================================================
