----------------------------- MODULE Fingerprint -----------------------------
(***************************************************************************)
(* What osfp baseline promises whoever runs it (README.md, "Commands" and  *)
(* the comments of main.go and baseline.go): under the name of the         *)
(* fingerprint there is what was there before or the whole scan, and the   *)
(* exit code tells which.                                                  *)
(*                                                                         *)
(* No writer, no temporary file and no walk is visible here.               *)
(***************************************************************************)

CONSTANTS
    None,      \* no file
    Earlier,   \* the file of an earlier run
    Scans      \* what a scan may have to record

VARIABLES scan, force, there, begun, faulty, cancelled, exit

fingerprintVars == <<scan, force, there, begun, faulty, cancelled, exit>>

Init ==
    /\ scan \in Scans
    /\ force \in BOOLEAN
    /\ there \in {None, Earlier}
    /\ begun = FALSE /\ faulty = FALSE /\ cancelled = FALSE
    /\ exit = "running"

\* The command has looked at its target and may write to it.
Begin ==
    /\ exit = "running" /\ ~begun
    /\ force \/ there = None
    /\ begun' = TRUE
    /\ UNCHANGED <<scan, force, there, faulty, cancelled, exit>>

\* Nothing was begun: the privileges, the system's name or the target forbid it.
Refuse ==
    /\ exit = "running" /\ ~begun
    /\ exit' \in {"error", "privilege"}
    /\ UNCHANGED <<scan, force, there, begun, faulty, cancelled>>

\* "A signal is a clean exit": no file appears.
Interrupted ==
    /\ exit = "running" /\ begun /\ cancelled
    /\ exit' = "interrupted"
    /\ faulty' \in BOOLEAN
    /\ UNCHANGED <<scan, force, there, begun, cancelled>>

Signal ==
    /\ exit = "running"
    /\ cancelled' = TRUE
    /\ UNCHANGED <<scan, force, there, begun, faulty, exit>>

Succeed ==
    /\ exit = "running" /\ begun
    /\ exit' = "ok"
    /\ there' = scan
    /\ UNCHANGED <<scan, force, begun, faulty, cancelled>>

\* An error has a reason, which is outside of the command.  The file may have its name already:
\* only the directory could not be synced.
Fail ==
    /\ exit = "running" /\ begun
    /\ exit' = "error"
    /\ faulty' = TRUE
    /\ there' \in {there, scan}
    /\ UNCHANGED <<scan, force, begun, cancelled>>

Next == Begin \/ Refuse \/ Signal \/ Interrupted \/ Succeed \/ Fail

Spec == Init /\ [][Next]_fingerprintVars
=============================================================================
