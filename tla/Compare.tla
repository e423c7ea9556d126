------------------------------ MODULE Compare ------------------------------
(***************************************************************************)
(* cmd/osfp, compare.go: one run of osfp compare -o, from the check of the *)
(* fingerprint to the exit code, with the signal that may interrupt it.    *)
(*                                                                         *)
(* The walk is what OrderedScan says of it, an ordered stream that may be  *)
(* cut when the context ends; the merge join is Joiner.  This module adds  *)
(* what the command decides: which entries the second walk produces, given *)
(* the perimeter of the first and the directories it knew, what a summary  *)
(* counts, what becomes of the report, and which code the command returns. *)
(***************************************************************************)
EXTENDS Integers, FiniteSets, SequencesExt

CONSTANTS
    Path,       \* the paths, ordered by CompareKey: numbers here
    Root,       \* the scan root
    Above,      \* the directories above each path
    Systems,    \* the states the scanned tree may be in, see SystemAssumption
    Excluded,   \* the paths the fingerprint's exclusions cover
    Extras,     \* the sets of paths that --exclude and -o may add to them
    MaxDepth,   \* the fingerprint's depth limit
    Volatile,   \* the paths below the volatile directories
    Ignored, Shown   \* as in Joiner

\* What may be at a path.  The listing of a locked directory fails, and what it had not
\* returned by then is unlisted; a lost file cannot be read; a link is all that is neither
\* a file nor a directory; a share is the mount point of a filesystem the policy stops at.
Directory == {"dir", "locked", "share"}
Hash      == {"h1", "h2"}
File      == Hash \cup {"lost"}
What      == {"absent", "unlisted", "link"} \cup Directory \cup File

\* A walk that comes to the directory finds it.
There(f, p) == f[p] \notin {"absent", "unlisted"}

\* Whatever covers a directory covers what is below it.
Closed(s) == \A p \in Path : Above[p] \cap s # {} => p \in s

ASSUME TreeAssumption ==
    /\ Path \subseteq Int /\ IsFiniteSet(Path) /\ Root \in Path
    /\ Above \in [Path -> SUBSET Path]
    /\ Above[Root] = {}
    /\ \A p \in Path : \A d \in Above[p] :
          /\ d < p /\ Above[d] \subseteq Above[p]
          /\ \A c \in Above[p] : c < d => c \in Above[d]

ASSUME SystemAssumption ==
    \A f \in Systems :
        /\ f \in [Path -> What]
        /\ f[Root] = "dir"
        /\ \A p \in Path :
              /\ There(f, p) => \A d \in Above[p] : f[d] \in Directory
              /\ f[p] = "unlisted" => \E d \in Above[p] : f[d] = "locked"

ASSUME PerimeterAssumption ==
    /\ MaxDepth \in Nat \ {0}
    /\ \A s \in Extras \cup {Excluded} : s \subseteq Path \ {Root} /\ Closed(s)

-----------------------------------------------------------------------------
(* What a walk produces.                                                   *)

Depth(p) == Cardinality(Above[p])

\* The directories of f whose listing a walk of the whole tree asks for: mayDescend, with
\* the directories its hook refuses.  Where it fails, what it returned is visited all the same.
MayDescend(f, p, refused) ==
    \/ p = Root
    \/ f[p] \in {"dir", "locked"} /\ Depth(p) < MaxDepth /\ p \notin refused

Scanned(f, excluded, refused) ==
    {p \in Path : /\ There(f, p) /\ p \notin excluded
                  /\ \A d \in Above[p] : MayDescend(f, d, refused)}

\* The entry of a path, with the fields Classify looks at.
Unhashed == "unhashed"
EntryAt(f, p, refused) ==
    [path |-> p,
     type |-> IF f[p] \in Directory THEN "dir" ELSE IF f[p] = "link" THEN "symlink" ELSE "file",
     err  |-> f[p] = "lost" \/ (f[p] = "locked" /\ MayDescend(f, p, refused)),
     hash |-> IF f[p] \in Hash THEN f[p] ELSE Unhashed,
     link |-> 1, size |-> 1, mtime |-> 1, attrs |-> 1]

\* A path comes after as many others as are below it.
InOrder(s) == [i \in 1 .. Cardinality(s) |-> CHOOSE p \in s : Cardinality({q \in s : q < p}) = i - 1]

Stream(f, excluded, refused) ==
    LET paths == InOrder(Scanned(f, excluded, refused))
    IN  [i \in 1 .. Len(paths) |-> EntryAt(f, paths[i], refused)]

\* The walk of osfp baseline.
Fingerprint(f) == Stream(f, Excluded, {})

\* loadDirs.
KnownDirs(s) == {s[i].path : i \in {j \in 1 .. Len(s) : s[j].type = "dir"}}

\* The Descend hook.  Mutant: it refuses nothing.
RefusedNone(m, s) == {}
Refused(m, s) == IF m = "deep" THEN {} ELSE Path \ KnownDirs(s)

\* The exclusions of the second walk.  Mutant: those of the fingerprint are lost.
LiveExcludedOnly(x) == x
LiveExcluded(x) == Excluded \cup x

\* The paths the walk of summarizeDir comes to below d.  It starts there: d is at depth 0,
\* and the hook is not consulted.
WalkedBelow(f, d, x) ==
    {p \in Path : /\ There(f, p) /\ d \in Above[p] /\ p \notin LiveExcluded(x)
                  /\ \A c \in Above[p] : d \in Above[c] =>
                        f[c] \in {"dir", "locked"} /\ Depth(c) - Depth(d) < MaxDepth}

\* The case of its switch that counts a file.  Mutant: it is the default.
CountsAsFileElse(what) == what \notin Directory
CountsAsFile(what) == what \in File

DirSummary(f, d, x) ==
    [dir   |-> d,
     dirs  |-> {p \in WalkedBelow(f, d, x) : f[p] \in Directory},
     files |-> {p \in WalkedBelow(f, d, x) : CountsAsFile(f[p])}]

-----------------------------------------------------------------------------
VARIABLES
    then, now,    \* the tree when the fingerprint was taken, and now
    mode,         \* --new-dir-mode
    extra,        \* what --exclude and -o add to the exclusions
    failOnDiff,
    phase,        \* where runCompare is
    cancelled,    \* ctx.Done() is closed
    out,          \* the report file: "none", "tmp" or "final"
    exit,         \* the exit code
    summaries,    \* the summaries attached to the +D lines
    expected      \* the noise among the changes

VARIABLES base, live, corrupt, status, at, fed, changes, counts, ignored, hidden, compared

Type  == {"dir", "file", "symlink"}
Link  == {1}
Size  == {1}
MTime == {1}
Attrs == {1}

Fingerprints == {Fingerprint(f) : f \in Systems}
Scans == UNION {{Stream(f, LiveExcluded(x), Refused(m, s)) : f \in Systems, x \in Extras} :
                    m \in {"summary", "deep"}, s \in Fingerprints}

Join    == INSTANCE Joiner
Reports == INSTANCE Report

\* The rules and --show are read from what classify.go can report.
ASSUME RulesAssumption == Ignored \subseteq Join!Op \X Path /\ Shown \subseteq Join!Op

question == <<then, now, mode, extra, failOnDiff>>
progress == <<phase, cancelled, out, exit>>
command  == <<progress, summaries, expected>>
join     == <<base, live, corrupt, status, at, fed, changes, counts, ignored, hidden, compared>>
vars     == <<question, command, join>>

Init ==
    /\ then \in Systems /\ now \in Systems
    /\ mode \in {"summary", "deep", "skip"}
    /\ extra \in Extras
    /\ failOnDiff \in BOOLEAN
    /\ phase = "start" /\ cancelled = FALSE /\ out = "none" /\ exit = "running"
    /\ summaries = {} /\ expected = 0
    /\ base = Fingerprint(then)
    /\ live = Stream(now, LiveExcluded(extra), Refused(mode, base))
    /\ Join!Init

\* runCompare returns: the deferred abort removes what is not committed.
\* Mutant: there is no deferred call.
AbortedNot == out
Aborted == IF out = "tmp" THEN "none" ELSE out

\* Mutant of Return: the code is lost on the way to dispatch.
ReturnNoCode(code, file) ==
    /\ out' = file
    /\ phase' = "over"
    /\ UNCHANGED <<question, cancelled, exit, summaries, expected>>
Return(code, file) ==
    /\ exit' = code
    /\ out' = file
    /\ phase' = "over"
    /\ UNCHANGED <<question, cancelled, summaries, expected>>

\* The checks before the report file exists: the fingerprint, its digest, the two
\* systems and the privileges of the two scans.
Refuse ==
    /\ phase = "start"
    /\ \E code \in {"error", "privilege"} : Return(code, Aborted)
    /\ UNCHANGED join

\* openReportFile.
OpenReport ==
    /\ phase = "start"
    /\ phase' = "open"
    /\ out' = "tmp"
    /\ UNCHANGED <<question, cancelled, exit, summaries, expected, join>>

\* loadDirs, the exclusions, the rules, the root's stat or the header fails.
PrepareFails ==
    /\ phase = "open"
    /\ Return("error", Aborted)
    /\ UNCHANGED join

\* NewJoiner reads the first entry of the fingerprint.
StartJoin ==
    /\ phase = "open"
    /\ Join!New
    /\ IF status' = "failed" THEN Return("error", Aborted)
       ELSE phase' = "walking" /\ UNCHANGED <<question, cancelled, out, exit, summaries, expected>>

\* emit: the walk hands its next entry to the joiner.
Feed ==
    /\ phase = "walking"
    /\ Join!Feed
    /\ UNCHANGED <<question, command>>

\* The callback of the joiner, where it is called, counts the noise.
\* Mutant: the counter is set and not incremented.
NotedOnce ==
    expected' = IF changes' # changes /\ Last(changes').path \in Volatile THEN 1 ELSE expected
Noted ==
    expected' = IF changes' # changes /\ Last(changes').path \in Volatile THEN expected + 1
                ELSE expected

\* The steps of the joiner that report no added path; Finish makes some as well.
JoinStep ==
    /\ phase \in {"walking", "finishing"}
    /\ (Join!Removed \/ Join!Both)
    /\ Noted
    /\ UNCHANGED <<question, progress, summaries>>

\* An added path.  Its summary is a walk under the same context: it returns none
\* when that has ended.
Summarized(op, p) ==
    op = "+D" /\ mode = "summary" /\ Join!Filter(op, p) = "shown" /\ ~cancelled

Added ==
    /\ phase = "walking"
    /\ Join!Added
    /\ Noted
    /\ LET p  == live[fed].path
           op == Join!OpForMissing(live[fed], TRUE)
       IN  summaries' = IF Summarized(op, p)
                        THEN summaries \cup {DirSummary(now, p, extra)}
                        ELSE summaries
    /\ UNCHANGED <<question, progress>>

\* Walk returns an error: the context has ended before its last entry, or its root
\* is gone.  The context decides what the command makes of it.
WalkCode == IF cancelled THEN "interrupted" ELSE "error"

WalkCut ==
    /\ phase = "walking"
    /\ \/ cancelled /\ fed < Len(live)
       \/ fed = 0
    /\ Join!Cut
    /\ Return(WalkCode, Aborted)

\* Walk or Finish returns the error of a callback or of the fingerprint.
JoinFailed ==
    /\ phase \in {"walking", "finishing"}
    /\ status = "failed"
    /\ Return(IF phase = "walking" THEN WalkCode ELSE "error", Aborted)
    /\ UNCHANGED join

\* Walk returns nil: it has handed over every entry.
WalkEnds ==
    /\ phase = "walking"
    /\ status = "ready"
    /\ fed = Len(live)
    /\ status' = "finishing"
    /\ phase' = "finishing"
    /\ UNCHANGED <<question, cancelled, out, exit, summaries, expected,
                   base, live, corrupt, at, fed, changes, counts, ignored, hidden, compared>>

FinishEnds ==
    /\ phase = "finishing"
    /\ Join!Finished
    /\ phase' = "closing"
    /\ UNCHANGED <<question, cancelled, out, exit, summaries, expected>>

\* reporter.Close writes the summary.
CloseReport ==
    /\ phase = "closing"
    /\ \/ phase' = "committing" /\ UNCHANGED <<question, cancelled, out, exit, summaries, expected>>
       \/ Return("error", Aborted)
    /\ UNCHANGED join

\* The differences outside the volatile directories.
\* Mutant: the expected ones are not subtracted.
FindingsAll == Reports!Total(counts)
Findings == Reports!Total(counts) - expected

\* dest.commit, whose error may come before or after the rename, and --fail-on-diff.
Commit ==
    /\ phase = "committing"
    /\ \/ Return(IF Findings > 0 /\ failOnDiff THEN "diff" ELSE "ok", "final")
       \/ \E file \in {"none", "final"} : Return("error", file)
    /\ UNCHANGED join

\* SIGINT or SIGTERM.
Interrupt ==
    /\ phase # "over"
    /\ cancelled' = TRUE
    /\ UNCHANGED <<question, phase, out, exit, summaries, expected, join>>

Over ==
    /\ phase = "over"
    /\ UNCHANGED vars

Next ==
    \/ Refuse \/ OpenReport \/ PrepareFails \/ StartJoin
    \/ Feed \/ JoinStep \/ Added
    \/ WalkCut \/ JoinFailed \/ WalkEnds \/ FinishEnds
    \/ CloseReport \/ Commit
    \/ Interrupt \/ Over

Spec == Init /\ [][Next]_vars

-----------------------------------------------------------------------------
TypeOK ==
    /\ Join!TypeOK
    /\ phase \in {"start", "open", "walking", "finishing", "closing", "committing", "over"}
    /\ cancelled \in BOOLEAN
    /\ out \in {"none", "tmp", "final"}
    /\ exit \in {"running", "ok", "diff", "error", "privilege", "interrupted"}
    /\ exit = "running" <=> phase # "over"
    /\ summaries \subseteq [dir: Path, dirs: SUBSET Path, files: SUBSET Path]
    /\ expected \in Nat

Reported == {changes[i].path : i \in 1 .. Len(changes)}

\* "With -o the file appears under its name only once complete": a report under its
\* final name holds every visible difference between the fingerprint and a walk that
\* came to its end; a run that ends leaves no partial one, and leaves none at all
\* after an interrupt (runCompare, reportDest).
ReportIsWhole ==
    /\ out = "final" => Reported = Join!Visible /\ fed = Len(live) /\ corrupt = 0
    /\ phase = "over" => out # "tmp"
    /\ exit = "interrupted" => out = "none"

\* "In a single pass over exactly the perimeter the fingerprint recorded": a tree that
\* has not changed gives no line but those of what cannot be read, and what --exclude
\* or -o took away (TestCompareOnAnUnchangedTree).
UnchangedIsQuiet ==
    now = then => \A i \in 1 .. Len(changes) :
        \/ changes[i].op = "?E"
        \/ changes[i].op \in {"-D", "-F"} /\ changes[i].path \in extra

\* "A directory the fingerprint does not know is reported once, and its contents are
\* neither listed nor hashed" (the Descend hook): no line below a +D, unless deep.
NewContentsUnlisted ==
    mode # "deep" =>
        \A i, j \in 1 .. Len(changes) :
            changes[i].op = "+D" => changes[i].path \notin Above[changes[j].path]

\* --fail-on-diff: the exit code tells whether the two streams differ, visibly and
\* outside the volatile directories, however the report was put together.
ExitTellsDrift ==
    /\ exit = "diff" => failOnDiff /\ Join!Visible \ Volatile # {}
    /\ exit = "ok" /\ failOnDiff => Join!Visible \subseteq Volatile

\* summarizeDir counts below its directory each directory and each file the perimeter
\* holds, at any depth, whether it can be read or not, and nothing that is excluded, not
\* there or of another type.  What it counts outside the perimeter is below a mount point
\* or below the depth limit: where its walk starts, neither rule is asked (walk.go).
SummaryCountsAll ==
    \A s \in summaries :
        LET inside  == {p \in Scanned(now, LiveExcluded(extra), {}) : s.dir \in Above[p]}
            outside == (s.dirs \cup s.files) \ inside
        IN  /\ s.dirs \ outside = {p \in inside : now[p] \in Directory}
            /\ s.files \ outside = {p \in inside : now[p] \in File}
            /\ \A p \in outside :
                  /\ s.dir \in Above[p] /\ p \notin LiveExcluded(extra)
                  /\ now[p] \in IF p \in s.dirs THEN Directory ELSE File
                  /\ now[s.dir] = "share" \/ Depth(p) > MaxDepth

\* What the command tells the reporter at the end.
Stats == [counts |-> counts, expected |-> expected, ignored |-> ignored, hidden |-> hidden]

\* "That is what lets the summary state how many differences were suppressed instead of
\* quietly leaving them out" (report): in a report that was completed each reported
\* change is a line of one section, under a heading that counts its lines; the line for
\* the noise and the sections make up the summary's counters; and with those that were
\* hidden or ignored these are all the differences there are between the two streams.
ReportAddsUp ==
    out = "final" =>
        LET text    == Reports!Sections(changes, Volatile)
            summary == Reports!Summary(Stats)
            json    == Reports!Lines(changes, Stats)
            final   == Last(json)
            printed == FlattenSeq([k \in 1 .. Len(text) |-> text[k].lines])
            counted == SumFunction([k \in 1 .. Len(text) |-> text[k].count])
        IN  /\ ToSet(printed) = ToSet(changes) /\ Len(printed) = Len(changes)
            /\ counted = final.total
            /\ final.total = SumFunction([g \in 1 .. Len(summary.groups) |->
                                   SumFunction(summary.groups[g])])
            /\ Len(json) = final.total + 2
            /\ \A k \in 1 .. Len(text) : text[k].title = "expected noise" =>
                    <<"expected", text[k].count>> \in summary.notes
            /\ final.total + final.ignored + final.hidden = Cardinality(Join!Different)
            /\ exit = "diff" => final.total > final.expected

-----------------------------------------------------------------------------
(* What documents and comments say, and the code does not do.              *)

\* "-F absent from the system" (Op): what is reported as deleted is not there.
RemovedMeansGone ==
    \A i \in 1 .. Len(changes) :
        changes[i].op \in {"-D", "-F"} => \/ now[changes[i].path] = "absent"
                                         \/ changes[i].path \in extra

\* "Over exactly the perimeter the fingerprint recorded -- the same root, exclusions,
\* mount policy and depth limit": a summary counts nothing outside of it.
SummaryWithinPerimeter ==
    \A s \in summaries : s.dirs \cup s.files \subseteq Scanned(now, LiveExcluded(extra), {})

\* "A directory that is absent from the fingerprint is reported once, with counters":
\* in a report that was completed, each +D has its summary.
AddedDirHasCounters ==
    out = "final" /\ mode = "summary" =>
        \A i \in 1 .. Len(changes) :
            changes[i].op = "+D" => \E s \in summaries : s.dir = changes[i].path
=============================================================================
