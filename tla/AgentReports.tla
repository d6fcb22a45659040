---------------------------- MODULE AgentReports ----------------------------
(***************************************************************************)
(* The reports that agents make of what other programs print: cargo test   *)
(* (testing), clippy, cargo fmt and grep (review), a description of tasks  *)
(* (planning), search results and pages (research).  A text is a sequence  *)
(* of lines, a line what the code tells apart of it.                       *)
(***************************************************************************)
EXTENDS Integers, SequencesExt

(* What a loop keeps of what it goes through: the elements in a set.        *)
Selected(T, seq) ==
  FoldLeft(LAMBDA kept, x : IF x \in T THEN Append(kept, x) ELSE kept, <<>>, seq)

-----------------------------------------------------------------------------
(* parse_cargo_test_output(): a line per test counts one up, a summary line *)
(* replaces all counts, also those of other binaries.                       *)

Case(status) == [line |-> "case", status |-> status]
Summary(p, f, i) == [line |-> "summary", ok |-> p, FAILED |-> f, ignored |-> i]
OtherLine == [line |-> "other"]

NoTests == [total |-> 0, ok |-> 0, FAILED |-> 0, ignored |-> 0, failures |-> 0]

(* Deviation: summaries are added to what the lines counted. *)
CountLine_adds(acc, l) ==
  CASE l.line = "case" ->
         [acc EXCEPT ![l.status] = @ + 1,
                     !.failures = IF l.status = "FAILED" THEN @ + 1 ELSE @]
    [] l.line = "summary" ->
         [acc EXCEPT !.total = @ + l.ok + l.FAILED + l.ignored, !.ok = @ + l.ok,
                     !.FAILED = @ + l.FAILED, !.ignored = @ + l.ignored]
    [] OTHER -> acc

CountLine(acc, l) ==
  CASE l.line = "case" ->
         [acc EXCEPT ![l.status] = @ + 1,
                     !.failures = IF l.status = "FAILED" THEN @ + 1 ELSE @]
    [] l.line = "summary" ->
         [acc EXCEPT !.total = l.ok + l.FAILED + l.ignored, !.ok = l.ok, !.FAILED = l.FAILED,
                     !.ignored = l.ignored]
    [] OTHER -> acc

ParseCargoTestOutput(lines) ==
  LET s == FoldLeft(CountLine, NoTests, lines)
  IN  IF s.total = 0 THEN [s EXCEPT !.total = s.ok + s.FAILED + s.ignored] ELSE s

(* build_test_report(): the verdict, whatever the command's own was. *)
Verdict(summary) == IF summary.FAILED = 0 THEN "PASS" ELSE "FAIL"

-----------------------------------------------------------------------------
(* The review: a finding is its severity.                                   *)

Line(start, meta) == [start |-> start, meta |-> meta]
Severity == [warning |-> "Warning", error |-> "Error", code |-> "Error"]

(* parse_clippy_line(): "warning: ", "error: " or "error[..]: ", unless the *)
(* line counts what was emitted or says that the build ends.                *)
IsDiagnostic(l) == l.start \in DOMAIN Severity /\ ~l.meta

ParseClippyOutput(output) ==
  LET text == IF output.stderr = <<>> THEN output.stdout ELSE output.stderr
      diagnostics == Selected({l \in ToSet(text) : IsDiagnostic(l)}, text)
  IN  [i \in DOMAIN diagnostics |-> Severity[diagnostics[i].start]]

(* One finding per difference; a failure that shows none is one finding if  *)
(* it prints anything.                                                      *)
ParseFmtOutput(output) ==
  LET diffs == Selected({"diff"}, output.stdout) IN
  IF diffs = <<>> /\ ~output.success /\ \E i \in DOMAIN output.stdout : output.stdout[i] # "blank"
  THEN <<"Warning">>
  ELSE [i \in DOMAIN diffs |-> "Warning"]

(* A line is the number of its parts between colons.                        *)
ParseTodoOutput(output) ==
  LET marks == Selected({parts \in ToSet(output.stdout) : parts >= 2}, output.stdout)
  IN  [i \in DOMAIN marks |-> "Info"]

BuildReviewReport(findings) ==
  LET Number(severity) == Cardinality({i \in DOMAIN findings : findings[i] = severity}) IN
  [Error |-> Number("Error"), Warning |-> Number("Warning"), Info |-> Number("Info"),
   clean |-> findings = <<>>]

-----------------------------------------------------------------------------
(* The plan: a fragment of the description (between line ends and           *)
(* semicolons) is the keyword groups in it and its length without bullets   *)
(* and numbers.                                                             *)

Priorities == <<"UrgentImportant", "NotUrgentImportant", "UrgentNotImportant", "Neither">>

(* What has no keyword counts as important.                                 *)
ClassifyPriority(words) ==
  Priorities[IF "urgent" \notin words THEN 2 ELSE IF "important" \in words THEN 1 ELSE 3]

EstimateDuration(words, default) ==
  IF "quick" \in words THEN 15
  ELSE IF "complex" \in words THEN 120
  ELSE IF "meeting" \in words THEN 60 ELSE default

Item(f, default) ==
  [title |-> f.name, priority |-> ClassifyPriority(f.words),
   minutes |-> EstimateDuration(f.words, default)]

(* Fragments of less than three bytes are left out; without an item the     *)
(* whole description is one.                                                *)
ParseTasks(description, default) ==
  LET tasks == Selected({f \in ToSet(description) : f.bytes >= 3}, description) IN
  IF tasks = <<>> /\ description # <<>>
  THEN <<[title |-> "whole", minutes |-> default,
          priority |-> ClassifyPriority(UNION {description[i].words : i \in DOMAIN description})]>>
  ELSE [i \in DOMAIN tasks |-> Item(tasks[i], default)]

(* The quadrants one after the other, and the sum of the items shown.       *)
BuildPlan(items) ==
  LET Quadrant(p) == Selected({item \in ToSet(items) : item.priority = p}, items)
      shown == FlattenSeq([i \in DOMAIN Priorities |-> Quadrant(Priorities[i])])
  IN  [shown |-> shown, items |-> Len(items),
       minutes |-> FoldLeft(LAMBDA sum, item : sum + item.minutes, 0, shown)]

-----------------------------------------------------------------------------
(* synthesize_findings(): whether there is anything, and how many sources   *)
(* there are; a page that was fetched is one besides its result.            *)
SynthesizeFindings(known, results, pages) ==
  [nothing |-> ~known /\ results = 0 /\ pages = 0,
   sources |-> results + pages]

=============================================================================
