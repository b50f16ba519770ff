------------------------------- MODULE BytePipe -------------------------------
(***************************************************************************)
(* What a relayed TCP connection promises the application at the receiving  *)
(* end of one direction: the bytes the other application wrote, in order,   *)
(* each once, and the end of the stream only after all of them.  Only when  *)
(* the sending application has broken off may the stream stop short.        *)
(***************************************************************************)
EXTENDS Naturals, Sequences

VARIABLES
  sent,   \* bytes written so far: 1..sent
  closed, \* the writer has shut down its side
  broken, \* the writer has broken off
  got,    \* bytes read so far
  end     \* how the stream ended for the reader, or "open"

vars == <<sent, closed, broken, got, end>>

Init ==
  /\ sent = 0
  /\ closed = FALSE
  /\ broken = FALSE
  /\ got = <<>>
  /\ end = "open"

Write ==
  /\ ~closed
  /\ sent' = sent + 1
  /\ UNCHANGED <<closed, broken, got, end>>

Close ==
  /\ closed' = TRUE
  /\ UNCHANGED <<sent, broken, got, end>>

Break ==
  /\ broken' = TRUE
  /\ UNCHANGED <<sent, closed, got, end>>

Read ==
  /\ end = "open"
  /\ Len(got) < sent
  /\ got' = Append(got, Len(got) + 1)
  /\ UNCHANGED <<sent, closed, broken, end>>

End ==
  /\ end = "open"
  /\ (closed /\ Len(got) = sent) \/ broken
  /\ end' = "eof"
  /\ UNCHANGED <<sent, closed, broken, got>>

(* The reader's connection is reset, or the reader itself breaks off.       *)
Reset ==
  /\ broken
  /\ end' = "reset"
  /\ UNCHANGED <<sent, closed, broken, got>>

Abandon ==
  /\ end' = "aborted"
  /\ UNCHANGED <<sent, closed, broken, got>>

Next == Write \/ Close \/ Break \/ Read \/ End \/ Reset \/ Abandon

Spec == Init /\ [][Next]_vars
=============================================================================
