----------------------------- MODULE OrderedScan -----------------------------
(***************************************************************************)
(* What Walk promises its caller (the comment on Walk, internal/scan):     *)
(* emit is called once per entry, in canonical order; the first error of   *)
(* emit ends the calls and is what Walk returns; a walk that was cut short *)
(* says so, and one that returns nil has produced everything.              *)
(*                                                                         *)
(* No goroutine, no ring and no worker is visible here.                    *)
(***************************************************************************)
EXTENDS Integers, Sequences

CONSTANT Plans   \* the sequences of entries a walk may have to produce

VARIABLES plan, cancelled, failed, out, result

absVars == <<plan, cancelled, failed, out, result>>

Init ==
    /\ plan \in Plans
    /\ cancelled = FALSE
    /\ failed = FALSE
    /\ out = <<>>
    /\ result = "none"

Cancel ==
    /\ result = "none"
    /\ cancelled' = TRUE
    /\ UNCHANGED <<plan, failed, out, result>>

\* One call of emit; when it fails the walk is cancelled by Walk itself.
EmitNext ==
    /\ result = "none"
    /\ ~failed
    /\ Len(out) < Len(plan)
    /\ out' = Append(out, plan[Len(out) + 1])
    /\ \/ UNCHANGED <<failed, cancelled>>
       \/ failed' = TRUE /\ cancelled' = TRUE
    /\ UNCHANGED <<plan, result>>

ReturnEmitError ==
    /\ result = "none"
    /\ failed
    /\ result' = "emit"
    /\ UNCHANGED <<plan, cancelled, failed, out>>

\* Only a walk that missed something reports that it was cut short.
ReturnCancelled ==
    /\ result = "none"
    /\ ~failed
    /\ cancelled
    /\ Len(out) < Len(plan)
    /\ result' = "cancelled"
    /\ UNCHANGED <<plan, cancelled, failed, out>>

ReturnComplete ==
    /\ result = "none"
    /\ ~failed
    /\ out = plan
    /\ result' = "nil"
    /\ UNCHANGED <<plan, cancelled, failed, out>>

Next == Cancel \/ EmitNext \/ ReturnEmitError \/ ReturnCancelled \/ ReturnComplete

Spec == Init /\ [][Next]_absVars
=============================================================================
