------------------------------ MODULE Coverage ------------------------------
(***************************************************************************)
(* The coverage audit of an adopter's code and the build gate on it.  The   *)
(* adopter declares which calls move money; for every such call the audit   *)
(* decides from the shape of the source whether a guard runs before it, and *)
(* the gate turns the report into an exit code.                             *)
(*                                                                         *)
(* A source file is an outline: a sequence of lines [kind, depth] of which   *)
(* each belongs to the nearest line above that is less deep.  Which calls   *)
(* are guards and declared sinks is part of the kind:                       *)
(*   "function", "block"  a function, a plain block, a try                   *)
(*   "branch"             a branch or loop, whose lines may not run          *)
(*   "tested"             a branch whose condition calls a guard             *)
(*   "guard", "sink"      a direct call of a guard or of a declared sink     *)
(*   "alias"              a declared sink used as a value                    *)
(* Like the metrics of Protocols the audit only observes the guard.         *)
(***************************************************************************)
EXTENDS Protocols, SequencesExt

CONSTANTS
  Outlines,     \* the files an author may start from
  NewLines,        \* the lines he may add
  MaxOutline,   \* bound: lines of a file
  Elsewhere,    \* guarded sinks the other files may have
  Thresholds,   \* what failUnder may be
  NoReport      \* no report on the file as it stands

OutlineLine == [kind : {"function", "block", "branch", "tested", "guard", "sink", "alias"}, depth : Nat]

ASSUME CoverageAssumption ==
  /\ Outlines \subseteq Seq(OutlineLine) /\ NewLines \subseteq OutlineLine
  /\ Elsewhere \subseteq Nat /\ Thresholds \subseteq 0..100

VARIABLES
  outline,    \* the file
  allowed,    \* the allow-list's entries for it: [line, reason], line 0 for the file
  settings,   \* the rest of the configuration: [failUnder, onUnanalyzable, elsewhere]
  statement,  \* the last report on the file as it stands, or NoReport
  ended       \* how the last command on it ended: [command, code]

coverageVars == <<outline, allowed, settings, statement, ended>>

-----------------------------------------------------------------------------
(* The syntax tree.  Line 0 is the source file.                             *)

Above(p, i) == {j \in 1..(i - 1) : \A k \in (j + 1)..i : p[j].depth < p[k].depth}
Enclosing(p, i) == Above(p, i) \cup {0}

LinesOf(p, kinds) == {i \in DOMAIN p : p[i].kind \in kinds}
GuardCalls(p) == LinesOf(p, {"guard", "tested"})
Sinks(p) == LinesOf(p, {"sink"})
Aliases(p) == LinesOf(p, {"alias"})

EnclosingFunction(p, i) == Max({j \in Above(p, i) : p[j].kind = "function"} \cup {0})

\* topLevelIndexOf and directStatementIndex: the statement of list b that holds line i,
\* whatever it is nested in.
StatementOf(p, b, i) == CHOOSE j \in Above(p, i) \cup {i} : Max(Enclosing(p, j)) = b

-----------------------------------------------------------------------------
(* classifyDirect.                                                         *)

InScope(p, g, s) == EnclosingFunction(p, g) = EnclosingFunction(p, s)

\* Slip: a guard anywhere in one of the lists counts, also after the sink.
IsCoveredAnyhow(p, s) ==
  \E g \in GuardCalls(p) : InScope(p, g, s) /\ Enclosing(p, g) \cap Enclosing(p, s) # {}

\* A guard stands in an earlier statement of a list that the sink is in.
IsCovered(p, s) ==
  \E b \in Enclosing(p, s), g \in GuardCalls(p) :
    /\ InScope(p, g, s) /\ b \in Enclosing(p, g)
    /\ StatementOf(p, b, g) < StatementOf(p, b, s)

Classification(p, s) == IF IsCovered(p, s) THEN "COVERED" ELSE "UNGUARDED"
Indeterminate(p, s) == ~IsCovered(p, s) /\ \E g \in GuardCalls(p) : InScope(p, g, s)

Allowlisted(list, i) == \E a \in list : a.line \in {0, i}

\* runAudit and buildReport.  The guarded sinks of the other files count with this one's.
BuildReport(p, list, guardedElsewhere) ==
  LET covered == {s \in Sinks(p) : Classification(p, s) = "COVERED"}
      gaps == {s \in Sinks(p) \ covered : ~Allowlisted(list, s)}
  IN [covered |-> covered, gaps |-> gaps, accepted |-> Sinks(p) \ (covered \cup gaps),
      unanalyzable |-> Aliases(p), guarded |-> Cardinality(covered) + guardedElsewhere]

-----------------------------------------------------------------------------
(* evaluateEnforcement.                                                     *)

EnforceableSinks(r) == r.guarded + Cardinality(r.gaps)

\* Math.round, halves upwards.
EnforcedPercent(r) == (200 * r.guarded + EnforceableSinks(r)) \div (2 * EnforceableSinks(r))

\* Slip: the case of no enforceable sink is forgotten, as if nothing were guarded.
GatePassesUnlessEmpty(r, c) ==
  /\ EnforceableSinks(r) # 0 /\ EnforcedPercent(r) >= c.failUnder
  /\ c.onUnanalyzable = "warn" \/ r.unanalyzable = {}

GatePasses(r, c) ==
  /\ EnforceableSinks(r) = 0 \/ EnforcedPercent(r) >= c.failUnder
  /\ c.onUnanalyzable = "warn" \/ r.unanalyzable = {}

-----------------------------------------------------------------------------
(* The author and the command line.                                        *)

Ended(command, code) == [command |-> command, code |-> code]
NotRun == Ended("none", 0)

\* A change of the file or of its configuration outdates what was reported.
Outdate == statement' = NoReport /\ ended' = NotRun

\* Lines go into the line above, or beside it.
DeepestAfter(line) ==
  IF line.kind \in {"function", "block", "branch", "tested"} THEN line.depth + 1 ELSE line.depth

EditSource ==
  /\ Len(outline) < MaxOutline
  /\ \E i \in 1..Len(outline) + 1, l \in NewLines :
       /\ l.depth <= (IF i = 1 THEN 0 ELSE DeepestAfter(outline[i - 1]))
       /\ i <= Len(outline) => outline[i].depth <= l.depth
       /\ outline' = InsertAt(outline, i, l)
  /\ UNCHANGED <<allowed, settings>> /\ Outdate

\* Accepting a gap of the report: an entry for its line or for the whole file.
AcceptGap ==
  /\ statement # NoReport /\ allowed = {}
  /\ \E s \in statement.gaps : \E line \in {0, s}, reason \in BOOLEAN :
       allowed' = {[line |-> line, reason |-> reason]}
  /\ UNCHANGED <<outline, settings>> /\ Outdate

\* A reasonless entry is a configuration error, which ends either command.
ConfigLoads == \A a \in allowed : a.reason

CurrentReport == BuildReport(outline, allowed, settings.elsewhere)

Command(name, status) ==
  /\ IF ConfigLoads
     THEN statement' = CurrentReport /\ ended' = Ended(name, status)
     ELSE statement' = NoReport /\ ended' = Ended(name, 2)
  /\ UNCHANGED <<outline, allowed, settings>>

AuditCommand == Command("audit", 0)
EnforceCommand == Command("enforce", IF GatePasses(CurrentReport, settings) THEN 0 ELSE 1)

CoverageInit ==
  /\ outline \in Outlines /\ allowed = {}
  /\ settings \in [failUnder : Thresholds, onUnanalyzable : {"warn", "block"}, elsewhere : Elsewhere]
  /\ statement = NoReport /\ ended = NotRun

CoverageNext == EditSource \/ AcceptGap \/ AuditCommand \/ EnforceCommand

CoverageSpec == CoverageInit /\ [][CoverageNext]_coverageVars

-----------------------------------------------------------------------------
(* What runs.  A run takes some of the branches; a line runs when every      *)
(* branch around it is taken, and a "tested" line calls its guard whether or *)
(* not it is taken itself.                                                  *)

Branches(p, i) == {j \in Above(p, i) : p[j].kind \in {"branch", "tested"}}

RunsUnguarded(p, s) ==
  \E taken \in SUBSET LinesOf(p, {"branch", "tested"}) :
    /\ Branches(p, s) \subseteq taken
    /\ \A g \in GuardCalls(p) : InScope(p, g, s) /\ g < s => ~(Branches(p, g) \subseteq taken)

\* No branch with a guard in it ends before a sink of its function.
GuardsStandOut(p) ==
  \A s \in Sinks(p), g \in GuardCalls(p) :
    InScope(p, g, s) /\ g < s => Branches(p, g) \subseteq Branches(p, s)

-----------------------------------------------------------------------------
(* Properties.                                                             *)

\* "A guard buried in a branch the sink is not in does NOT count": a sink is reported as
\* covered only if no run reaches it unguarded.
CoveredMeansGuarded ==
  statement # NoReport => \A s \in statement.covered : ~RunsUnguarded(outline, s)

\* Where no guard is buried in a branch, every sink that some run reaches unguarded is a gap
\* of the report or an exception with a reason; a sink reported without a guard in its
\* function has none before it in any run; and every declared sink is in one section.
ReportCatchesGaps ==
  statement # NoReport =>
  /\ GuardsStandOut(outline) =>
       {s \in Sinks(outline) : RunsUnguarded(outline, s)} \subseteq statement.gaps \cup statement.accepted
  /\ \A s \in statement.gaps \cup statement.accepted :
       ~Indeterminate(outline, s) => \A g \in GuardCalls(outline) : ~InScope(outline, g, s)
  /\ \A s \in Sinks(outline) :
       Cardinality({x \in {"covered", "gaps", "accepted"} : s \in statement[x]}) = 1

\* The gate lets an exception pass only with its reason, nothing it cannot analyze when told
\* to block it, and no file with gaps when nothing at all is guarded and something is required;
\* and it fails a build only over a gap or over what it was told to block.  How many gaps the
\* rounded percentage hides is FullThresholdMeansNoGap's question.
GateCatchesGaps ==
  /\ ReportCatchesGaps
  /\ ended = Ended("enforce", 0) =>
       /\ statement.accepted # {} => \E a \in allowed : a.reason
       /\ settings.onUnanalyzable = "block" => Aliases(outline) = {}
       /\ statement.gaps # {} /\ settings.failUnder > 0 => statement.guarded > 0
  /\ ended = Ended("enforce", 1) =>
       statement.gaps # {} \/ (settings.onUnanalyzable = "block" /\ Aliases(outline) # {})

\* "At the default threshold (100%) the build fails if any such sink is unguarded"
\* (enforce.ts:5): at that threshold no enforce that passes has a gap in its report.
FullThresholdMeansNoGap ==
  ended = Ended("enforce", 0) /\ settings.failUnder = 100 => statement.gaps = {}

\* Those who only watch the guard report what happened: the metrics the verdicts, the
\* coverage gate the sinks that no guard precedes.
ObserversTell == TallyTells /\ GateCatchesGaps
=============================================================================
