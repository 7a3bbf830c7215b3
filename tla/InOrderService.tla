--------------------------- MODULE InOrderService ---------------------------
(***************************************************************************)
(* What those who queue commands for a relay may rely on, without threads, *)
(* buffers or wake-ups: commands are numbered as they are queued, results  *)
(* are handled in that order, and none twice.  A command may be left out:  *)
(* the relay did not answer, the answer was dropped, or its handling       *)
(* failed.                                                                 *)
(***************************************************************************)
EXTENDS Naturals, Sequences

VARIABLES
  asked,          \* how many commands have been queued
  handled         \* the numbers of those whose answers were handled

Init == asked = 0 /\ handled = <<>>

Ask == asked' = asked + 1 /\ UNCHANGED handled

Handle ==
  /\ \E n \in 1 .. asked :
       /\ \A i \in 1 .. Len(handled) : handled[i] < n
       /\ handled' = Append(handled, n)
  /\ UNCHANGED asked

Next == Ask \/ Handle

Spec == Init /\ [][Next]_<<asked, handled>>

=============================================================================
