------------------------------- MODULE Report -------------------------------
(***************************************************************************)
(* internal/report: what the two reporters make of the changes they are    *)
(* given and of the counters at the end.  A change is its category and its *)
(* path.  The text reporter keeps the changes until Close; the JSON one    *)
(* writes each as it comes.                                                *)
(*                                                                         *)
(* The wording, the columns, the colours and the header are left out.      *)
(***************************************************************************)
EXTENDS Integers, SequencesExt, FiniteSetsExt

AllOps == <<"+D", "-D", "~D", "+F", "-F", "~F", "%F", "!T", "~L", "?E">>

Ops == Range(AllOps)

-----------------------------------------------------------------------------
(* text.go.                                                                *)

\* What the reporter keeps until Close: the changes of each category, and the noise.
Empty == [sections |-> [op \in Ops |-> <<>>], volatile |-> <<>>]

\* Change.
Change(t, c, volatile) ==
    IF c.path \in volatile THEN [t EXCEPT !.volatile = Append(@, c)]
    ELSE [t EXCEPT !.sections[c.op] = Append(@, c)]

\* What it keeps of these changes, which come one by one.
Kept(changes, volatile) ==
    LET after[n \in 0 .. Len(changes)] ==
            IF n = 0 THEN Empty ELSE Change(after[n - 1], changes[n], volatile)
    IN  after[Len(changes)]

\* section: nothing at all when there is no change in it.
Section(title, lines) ==
    IF lines = <<>> THEN <<>>
    ELSE <<[title |-> title, count |-> Len(lines), lines |-> lines]>>

\* Close, up to the summary.
Sections(changes, volatile) ==
    LET t == Kept(changes, volatile)
    IN  FlattenSeq([k \in 1 .. Len(AllOps) |-> Section(AllOps[k], t.sections[AllOps[k]])])
            \o Section("expected noise", t.volatile)

\* summary: a counter for each category, and the notes there is something to say of.
Groups == <<{"+D", "-D", "~D"}, {"+F", "-F", "~F", "%F"}, {"!T", "~L", "?E"}>>

Summary(s) ==
    [groups |-> [g \in 1 .. Len(Groups) |-> [op \in Groups[g] |-> s.counts[op]]],
     notes  |-> {n \in {<<"expected", s.expected>>, <<"ignored", s.ignored>>, <<"hidden", s.hidden>>} :
                    n[2] > 0}]

-----------------------------------------------------------------------------
(* json.go.                                                                *)

\* Stats.Total.
Total(counts) == SumFunctionOnSet(counts, Ops)

\* Header, Change and Close write an object each.
Lines(changes, s) ==
    <<[record |-> "header"]>>
        \o [i \in 1 .. Len(changes) |-> [record |-> "change", op |-> changes[i].op, path |-> changes[i].path]]
        \o <<[record |-> "summary", counts |-> [op \in Ops |-> s.counts[op]], total |-> Total(s.counts),
              expected |-> s.expected, ignored |-> s.ignored, hidden |-> s.hidden]>>
=============================================================================
