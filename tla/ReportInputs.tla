---------------------------- MODULE ReportInputs ----------------------------
(***************************************************************************)
(* The programs and services whose output the agents report on: cargo      *)
(* test, the three checks of a review, the fragments of a description to   *)
(* plan, and the sources of a research.  Beside each output stands what    *)
(* the program found.                                                      *)
(***************************************************************************)
EXTENDS AgentReports

CONSTANTS
  MaxTests,      \* bound: test binaries of a run
  MaxFragments   \* bound: fragments of a description

Found == [Error |-> 0, Warning |-> 0, Info |-> 0]
DefaultMinutes == 30

VARIABLES
  output,       \* lines of cargo test
  failing,      \* tests that failed
  ran,          \* binaries that ran
  broken,       \* one broke off, or was not compiled
  checks,       \* checks of the review that are over
  findings,     \* what they were read as
  found,        \* what they found
  own,          \* what cargo said of itself that reads like a finding
  started,      \* all could be started
  description,  \* fragments to plan
  known,        \* the memory had something
  results,      \* search results
  pages         \* pages fetched

testVars == <<output, failing, ran, broken>>
reviewVars == <<checks, findings, found, own, started>>
researchVars == <<known, results, pages>>
reportVars == <<testVars, reviewVars, description, researchVars>>

ReportInit ==
  /\ output = <<>> /\ failing = 0 /\ ran = 0 /\ broken = FALSE
  /\ checks = 0 /\ findings = <<>> /\ found = Found /\ own = Found /\ started = TRUE
  /\ description = <<>>
  /\ known = FALSE /\ results = 0 /\ pages = 0

-----------------------------------------------------------------------------
HowMany(seq, v) == Cardinality({i \in DOMAIN seq : seq[i] = v})

(* Cargo compiles all test binaries and runs them until one fails.  None of *)
(* their other lines reads like a result, what a failed test printed        *)
(* included.  A test that is ignored for a reason has a line of its own.    *)
TestLine == [ok |-> Case("ok"), FAILED |-> Case("FAILED"), ignored |-> Case("ignored"),
             reason |-> OtherLine]

Runs(tests, ending) ==
  /\ output' = output \o [i \in DOMAIN tests |-> TestLine[tests[i]]] \o ending
  /\ failing' = HowMany(tests, "FAILED")
  /\ ran' = ran + 1

Binary(tests) ==
  /\ Runs(tests, <<OtherLine, Summary(HowMany(tests, "ok"), HowMany(tests, "FAILED"),
                                      HowMany(tests, "ignored") + HowMany(tests, "reason"))>>)
  /\ UNCHANGED broken

(* It is aborted after some of its tests, or does not compile: no summary.  *)
BreaksOff(tests) == Runs(tests, <<OtherLine>>) /\ broken' = TRUE

RunTests ==
  /\ ran < MaxTests /\ failing = 0 /\ ~broken
  /\ \E n \in 0..2 : \E tests \in [1..n -> DOMAIN TestLine] : Binary(tests) \/ BreaksOff(tests)
  /\ UNCHANGED <<reviewVars, description, researchVars>>

-----------------------------------------------------------------------------
(* The three commands of a review, one after the other.  They find so many  *)
(* errors, warnings and marks, and cargo says so much of itself.            *)
Says(errors, warnings, infos) == [Error |-> errors, Warning |-> warnings, Info |-> infos]
Plus(a, b) == [severity \in DOMAIN a |-> a[severity] + b[severity]]

Check(number, new, finds, says) ==
  /\ checks = number - 1
  /\ checks' = number
  /\ findings' = findings \o new
  /\ found' = Plus(found, finds)
  /\ own' = Plus(own, says)
  /\ UNCHANGED <<testVars, description, researchVars>>

(* A command that cannot start prints only to stderr.                       *)
NotStarted ==
  [stdout |-> <<>>, stderr |-> <<Line("other", FALSE)>>, success |-> FALSE]

(* The lines of clippy, in any order: errors of the code and lints, which   *)
(* are errors too ("-D warnings"); warnings and errors of cargo's own       *)
(* ("build failed, waiting for other jobs to finish", "generated 2          *)
(* warnings", a manifest it cannot read); those the parser knows; others.   *)
(* No message of a lint has the words by which the parser knows them.       *)
ClippyLine ==
  [lint |-> Line("error", FALSE), code |-> Line("code", FALSE),
   cargoWarning |-> Line("warning", FALSE), cargoError |-> Line("error", FALSE),
   emitted |-> Line("warning", TRUE), ends |-> Line("error", TRUE), other |-> Line("other", FALSE)]

ClippyPrints(said) ==
  Check(1, ParseClippyOutput([stdout |-> <<>>,
                              stderr |-> [i \in DOMAIN said |-> ClippyLine[said[i]]]]),
        Says(HowMany(said, "lint") + HowMany(said, "code"), 0, 0),
        Says(HowMany(said, "cargoError"), HowMany(said, "cargoWarning"), 0))

RunClippy ==
  /\ UNCHANGED started
  /\ \E n \in 0..3 : \E said \in [1..n -> DOMAIN ClippyLine] : ClippyPrints(said)

(* Differences; or none, and a failure that says why only on stderr, or     *)
(* prints something, which is one finding.                                  *)
RunFmt ==
  /\ UNCHANGED started
  /\ \/ \E n \in 0..2, success \in BOOLEAN :
          /\ n > 0 => ~success
          /\ Check(2, ParseFmtOutput(
                        [stdout |-> FlattenSeq([i \in 1..n |-> <<"diff", "other", "blank">>]),
                         success |-> success]), Says(0, n, 0), Found)
     \/ Check(2, ParseFmtOutput([stdout |-> <<"other">>, success |-> FALSE]), Says(0, 1, 0), Found)

RunGrep ==
  /\ UNCHANGED started
  /\ \E n \in 0..2 :
       Check(3, ParseTodoOutput([stdout |-> [i \in 1..n |-> 3]]), Says(0, 0, n), Found)

CannotStart ==
  /\ started' = FALSE
  /\ \/ Check(1, ParseClippyOutput(NotStarted), Found, Found)
     \/ Check(2, ParseFmtOutput(NotStarted), Found, Found)
     \/ Check(3, ParseTodoOutput(NotStarted), Found, Found)

RunCheck == RunClippy \/ RunFmt \/ RunGrep \/ CannotStart

-----------------------------------------------------------------------------
(* A fragment; one of less than three bytes has no keyword. *)
Describe ==
  /\ Len(description) < MaxFragments
  /\ \E words \in SUBSET {"urgent", "important"}, size \in {{}, {"quick"}, {"complex"}},
        bytes \in {0, 2, 3} :
       /\ bytes < 3 => words \cup size = {}
       /\ description' = Append(description,
            [name |-> Len(description), words |-> words \cup size, bytes |-> bytes])
  /\ UNCHANGED <<testVars, reviewVars, researchVars>>

Recall == known' = TRUE /\ UNCHANGED <<results, pages>>
FindResult == pages = 0 /\ results < 4 /\ results' = results + 1 /\ UNCHANGED <<known, pages>>
FetchPage ==
  /\ pages < 3 /\ pages < results
  /\ pages' = pages + 1 /\ UNCHANGED <<known, results>>

Investigate ==
  /\ Recall \/ FindResult \/ FetchPage
  /\ UNCHANGED <<testVars, reviewVars, description>>

-----------------------------------------------------------------------------
(* The test report says FAIL exactly when a test was reported as failed,    *)
(* and counts those right, although every binary's summary replaces the     *)
(* counts of those before: cargo stops at the first binary that fails.  A   *)
(* PASS is not the success of the command: a run that broke off, or did not *)
(* compile, without such a test has it too (testing.rs:329).                *)
TestReportIsRight ==
  LET summary == ParseCargoTestOutput(output) IN
    /\ Verdict(summary) = IF failing > 0 THEN "FAIL" ELSE "PASS"
    /\ summary.FAILED = failing /\ summary.failures = failing

(* The review counts what the checks found, once each, with its severity,   *)
(* and besides it what cargo says of itself that the parser does not know   *)
(* (review.rs:209-216); it calls the code clean exactly when there is none  *)
(* of either.  A check that could not start, or failed without a word, says *)
(* nothing.                                                                 *)
ReviewReportIsRight ==
  LET report == BuildReviewReport(findings) IN
    /\ \A severity \in DOMAIN found : report[severity] = found[severity] + own[severity]
    /\ report.clean <=> found = Found /\ own = Found

(* A plan shows every task of the description once, those that are urgent   *)
(* and important first, and its time is the sum of theirs.                  *)
PlanIsWhole ==
  LET items == ParseTasks(description, DefaultMinutes)
      plan == BuildPlan(items)
      tasks == {f \in ToSet(description) : f.bytes >= 3}
      minutes == [f \in tasks |-> IF "quick" \in f.words THEN 15
                                  ELSE IF "complex" \in f.words THEN 120 ELSE DefaultMinutes]
  IN  /\ Len(plan.shown) = plan.items /\ ToSet(plan.shown) = ToSet(items)
      /\ tasks # {} => /\ {item.title : item \in ToSet(plan.shown)} = {f.name : f \in tasks}
                       /\ plan.items = Cardinality(tasks)
                       /\ plan.minutes = MapThenSumSet(LAMBDA f : minutes[f], tasks)
      /\ tasks = {} /\ description # <<>> => plan.items = 1
      /\ \A i, j \in DOMAIN plan.shown :
           plan.shown[j].priority = Priorities[1] /\ i < j => plan.shown[i].priority = Priorities[1]

(* A research says that it found nothing exactly when neither the memory    *)
(* nor the search had anything, whatever pages were fetched; the sources it *)
(* gives are the results, and once more those whose page was fetched, three *)
(* at most.                                                                 *)
SynthesisIsRight ==
  LET summary == SynthesizeFindings(known, results, pages) IN
    /\ summary.nothing <=> ~known /\ results = 0
    /\ summary.sources \in results..(2 * results) /\ summary.sources <= results + 3

=============================================================================
