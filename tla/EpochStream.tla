---------------------------- MODULE EpochStream ----------------------------
(***************************************************************************)
(* What a file solution promises its reader, without threads or queues: a  *)
(* run that has been started delivers the accepted observation epochs of   *)
(* the file one at a time, in file order, none skipped and none twice,     *)
(* never more than the configured number, and delivers nothing before it   *)
(* starts or after it is over.                                             *)
(***************************************************************************)
EXTENDS Naturals, Sequences

CONSTANTS NumObs,      \* epochs in the observation file
          Accepted     \* those of them the decimator keeps

VARIABLES out,         \* epochs delivered so far, by their place in the file
          phase,       \* "config", "running" or "over"
          limit        \* most epochs to deliver, 0 for no limit

vars == <<out, phase, limit>>

Init == /\ out = <<>>
        /\ phase = "config"
        /\ limit \in Nat

Delivered == {out[i] : i \in DOMAIN out}

\* k is the next accepted epoch after everything delivered so far.
IsNext(k) == /\ \A d \in Delivered : d < k
             /\ \A m \in Accepted : m < k => m \in Delivered

Start == /\ phase = "config"
         /\ phase' = "running"
         /\ UNCHANGED <<out, limit>>

Deliver(k) == /\ phase = "running"
              /\ IsNext(k)
              /\ limit = 0 \/ Len(out) < limit
              /\ out' = Append(out, k)
              /\ UNCHANGED <<phase, limit>>

End == /\ phase = "running"
       /\ phase' = "over"
       /\ UNCHANGED <<out, limit>>

Next == Start \/ End \/ \E k \in Accepted : Deliver(k)

Spec == Init /\ [][Next]_vars
=============================================================================
