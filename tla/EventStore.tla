------------------------------ MODULE EventStore ------------------------------
(***************************************************************************)
(* What the event log collector promises: the table events holds the       *)
(* records of the System log without a gap, and every record comes to be   *)
(* there.  This is the tail that BootSession builds on (its variable       *)
(* tailed is the number of records stored).                                *)
(***************************************************************************)
EXTENDS Integers, Sequences

VARIABLES
  written,  \* every record of the log, in the order Windows wrote them
  stored    \* the positions in written of the records in table events

Init == written = <<>> /\ stored = {}

Write == /\ Len(written') = Len(written) + 1
         /\ \A i \in DOMAIN written : written'[i] = written[i]
         /\ UNCHANGED stored

Store == /\ \E n \in 0..Len(written) : /\ stored \subseteq 1..n
                                       /\ stored' = 1..n
         /\ UNCHANGED written

Next == Write \/ Store

Spec == Init /\ [][Next]_<<written, stored>>
==============================================================================
