------------------------------- MODULE Joiner -------------------------------
(***************************************************************************)
(* internal/diff, merge.go: the merge join of a fingerprint with a scan.   *)
(*                                                                         *)
(* The scan pushes its entries in with Feed, the joiner pulls those of the *)
(* fingerprint with Next, and both come in canonical order.  Everything    *)
(* runs in the goroutine that called Walk; the loops of Feed and Finish    *)
(* are split at each change they report, because the report can fail       *)
(* there and so can the read of the next fingerprint entry.                *)
(***************************************************************************)
EXTENDS Classify, Sequences, FiniteSets

CONSTANTS
    Fingerprints,  \* the sequences of entries the store may hold
    Scans,         \* the sequences of entries the walk may feed
    Ignored,       \* the pairs <<op, path>> an ignore rule covers
    Shown          \* the categories of --show

\* Both streams are in canonical order: the walk produces it, the store enforces it.
Canonical(s) == \A i, j \in 1 .. Len(s) : i < j => s[i].path < s[j].path

ASSUME JoinerAssumption ==
    /\ \A s \in Fingerprints \cup Scans : s \in Seq(Entry) /\ Canonical(s)
    /\ Ignored \subseteq Op \X Path
    /\ Shown \subseteq Op

VARIABLES
    base,      \* the fingerprint
    live,      \* the entries the scan will feed
    corrupt,   \* the index of the entry Next cannot read, or 0
    status,    \* what the joiner is doing
    at,        \* the index of j.old in base; past the end when j.old is nil
    fed,       \* how many entries Feed was given
    changes,   \* what was handed to the callback
    counts,    \* j.stats.Counts
    ignored, hidden, compared   \* the other counters of j.stats

inputs == <<base, live, corrupt>>
counters == <<counts, ignored, hidden, compared>>
joinVars == <<inputs, status, at, fed, changes, counters>>

\* The calls are over: with a result, with an error, or because the scan was cut.
Over == {"done", "failed", "cut"}

Exhausted == at > Len(base)
Old       == base[at]
Fresh     == live[fed]   \* the entry Feed is working on

Init ==
    /\ base \in Fingerprints
    /\ live \in Scans
    /\ corrupt \in 0 .. Len(base)
    /\ status = "new"
    /\ at = 0
    /\ fed = 0
    /\ changes = <<>>
    /\ counts = [op \in Op |-> 0] /\ ignored = 0 /\ hidden = 0 /\ compared = 0

\* advance, and where the joiner goes after it.  Mutant: an error is an end.
AdvanceErrorIsEnd(next) ==
    IF at + 1 = corrupt THEN at' = Len(base) + 1 /\ status' = next
    ELSE at' = at + 1 /\ status' = next
Advance(next) ==
    IF at + 1 = corrupt THEN UNCHANGED at /\ status' = "failed"
    ELSE at' = at + 1 /\ status' = next

\* NewJoiner reads the first entry.
New ==
    /\ status = "new"
    /\ Advance("ready")
    /\ UNCHANGED <<inputs, fed, changes, counters>>

\* report: the ignore rules, then --show, then the callback.
\* Mutant: --show is applied before the ignore rules.
FilterShowFirst(op, path) ==
    IF op \notin Shown THEN "hidden" ELSE IF <<op, path>> \in Ignored THEN "ignored" ELSE "shown"
Filter(op, path) ==
    IF <<op, path>> \in Ignored THEN "ignored" ELSE IF op \notin Shown THEN "hidden" ELSE "shown"

Report(op, path) ==
    /\ ignored' = IF Filter(op, path) = "ignored" THEN ignored + 1 ELSE ignored
    /\ hidden'  = IF Filter(op, path) = "hidden" THEN hidden + 1 ELSE hidden
    /\ IF Filter(op, path) = "shown"
       THEN /\ counts' = [counts EXCEPT ![op] = @ + 1]
            /\ changes' = Append(changes, [op |-> op, path |-> path])
       ELSE UNCHANGED <<counts, changes>>

\* The callback fails on a change that is handed to it.
ReportFails(op, path) ==
    /\ Filter(op, path) = "shown"
    /\ Report(op, path)
    /\ status' = "failed"

\* Feed is called with the next entry of the scan.  Its check of the order never
\* fails on such a scan.
Feed ==
    /\ status = "ready"
    /\ fed < Len(live)
    /\ fed' = fed + 1
    /\ status' = IF fed > 0 /\ live[fed].path >= live[fed + 1].path THEN "failed" ELSE "feeding"
    /\ UNCHANGED <<inputs, at, changes, counters>>

\* reportRemoved, from the loop of Feed or from that of Finish.
Removed ==
    /\ ~Exhausted
    /\ \/ status = "feeding" /\ Old.path < Fresh.path
       \/ status = "finishing"
    /\ \/ Report(OpForMissing(Old, FALSE), Old.path) /\ Advance(status)
       \/ ReportFails(OpForMissing(Old, FALSE), Old.path) /\ UNCHANGED at
    /\ UNCHANGED <<inputs, fed, compared>>

\* Mutant: the comparison is reported even where it found nothing.
IsChangeAlways(op) == TRUE
IsChange(op) == op # "="

\* Feed finds the path in the fingerprint.
Both ==
    /\ status = "feeding"
    /\ ~Exhausted
    /\ Old.path = Fresh.path
    /\ compared' = compared + 1
    /\ LET op == Classify(Old, Fresh)
       IN  \/ ~IsChange(op) /\ Advance("ready") /\ UNCHANGED <<changes, counts, ignored, hidden>>
           \/ IsChange(op) /\ Report(op, Fresh.path) /\ Advance("ready")
           \/ IsChange(op) /\ ReportFails(op, Fresh.path) /\ UNCHANGED at
    /\ UNCHANGED <<inputs, fed>>

\* Feed does not: the path was added.
\* Mutant: the loop above it stops one entry short of the fingerprint's end.
PassedAtLast == at < Len(base) => Old.path > Fresh.path
Passed == ~Exhausted => Old.path > Fresh.path

Added ==
    /\ status = "feeding"
    /\ Passed
    /\ LET op == OpForMissing(Fresh, TRUE)
       IN  \/ Report(op, Fresh.path) /\ status' = "ready"
           \/ ReportFails(op, Fresh.path)
    /\ UNCHANGED <<inputs, at, fed, compared>>

\* Finish, called once the whole scan has been fed.
Finish ==
    /\ status = "ready"
    /\ fed = Len(live)
    /\ status' = "finishing"
    /\ UNCHANGED <<inputs, at, fed, changes, counters>>

\* The loop of Finish ends.
Finished ==
    /\ status = "finishing"
    /\ Exhausted
    /\ status' = "done"
    /\ UNCHANGED <<inputs, at, fed, changes, counters>>

\* The scan stops before its end: Feed is not called again, and neither is Finish.
Cut ==
    /\ status = "ready"
    /\ status' = "cut"
    /\ UNCHANGED <<inputs, at, fed, changes, counters>>

Stay ==
    /\ status \in Over
    /\ UNCHANGED joinVars

Next == New \/ Feed \/ Removed \/ Both \/ Added \/ Finish \/ Finished \/ Cut \/ Stay

Spec == Init /\ [][Next]_joinVars

-----------------------------------------------------------------------------
(* What the join should report, path by path, with no order of execution.  *)

Paths(s)     == {s[i].path : i \in 1 .. Len(s)}
EntryAt(s, p) == s[CHOOSE i \in 1 .. Len(s) : s[i].path = p]

\* The difference at one path between the fingerprint and the whole scan.
DiffOp(p) ==
    IF p \in Paths(base) /\ p \in Paths(live) THEN Classify(EntryAt(base, p), EntryAt(live, p))
    ELSE IF p \in Paths(live) THEN OpForMissing(EntryAt(live, p), TRUE)
    ELSE OpForMissing(EntryAt(base, p), FALSE)

Different == {p \in Paths(base) \cup Paths(live) : DiffOp(p) # "="}
Visible   == {p \in Different : Filter(DiffOp(p), p) = "shown"}

TypeOK ==
    /\ base \in Seq(Entry) /\ live \in Seq(Entry) /\ corrupt \in 0 .. Len(base)
    /\ status \in {"new", "ready", "feeding", "finishing"} \cup Over
    /\ at \in 0 .. Len(base) + 1 /\ fed \in 0 .. Len(live)
    /\ changes \in Seq([op: Op \ {"="}, path: Path])
    /\ counts \in [Op -> Nat] /\ ignored \in Nat /\ hidden \in Nat /\ compared \in Nat

\* At any moment, even when the scan is cut or the callback fails, the report is
\* the beginning of the right one: each change is the difference at its path,
\* the paths ascend, and no visible difference before a reported one is missing
\* (Feed, reportRemoved).
ReportIsPrefix ==
    /\ \A i \in 1 .. Len(changes) :
          /\ changes[i].path \in Visible
          /\ changes[i].op = DiffOp(changes[i].path)
          /\ \A p \in Visible : p < changes[i].path => \E j \in 1 .. i - 1 : changes[j].path = p
    /\ \A i, j \in 1 .. Len(changes) : i < j => changes[i].path < changes[j].path

\* A join that ends has reported every visible difference: no entry of either
\* stream was passed over, and a fingerprint that could not be read to its end
\* is an error and not the end of the fingerprint (advance, Finish).
DoneMeansComplete ==
    status = "done" => /\ corrupt = 0
                       /\ \A p \in Visible : \E i \in 1 .. Len(changes) : changes[i].path = p

\* The counters of the summary are kept one by one, and add up to the differences there
\* are: each category counts its visible differences, what the ignore rules suppressed is
\* counted as ignored even where --show hides it too (report), and Compared counts the
\* paths of both sides.
CountersAddUp ==
    status = "done" =>
        /\ \A op \in Op : counts[op] = Cardinality({p \in Visible : DiffOp(p) = op})
        /\ ignored = Cardinality({p \in Different : <<DiffOp(p), p>> \in Ignored})
        /\ hidden = Cardinality({p \in Different : Filter(DiffOp(p), p) = "hidden"})
        /\ compared = Cardinality(Paths(base) \cap Paths(live))

\* "The classifier turns a non-empty Err into a ?E line" (hashEntry), and ?E is
\* "permission denied, I/O error, vanished mid-scan" (OpUnreadable): a path the
\* scan could not read is reported as ?E.
UnreadableSaysSo ==
    \A i \in 1 .. Len(changes) :
        \A k \in 1 .. Len(live) :
            live[k].path = changes[i].path /\ live[k].err => changes[i].op = "?E"
=============================================================================
