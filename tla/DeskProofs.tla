----------------------------- MODULE DeskProofs -----------------------------
(***************************************************************************)
(* Theorems about what is wrapped around one session: several agents       *)
(* (Agents), the returns desk (Returns) and the windowed session (Window). *)
(***************************************************************************)
EXTENDS Agents, Returns, Window, SessionProofs

-----------------------------------------------------------------------------
(* Agents: together they are one session, and no stale plan moves a        *)
(* commitment.                                                             *)

\* The outcomes of propose() that change the session, as one formula.
Takes(a, expected, at) ==
  \/ RefundInPart(a, expected)
  \/ RefundInFull(a, expected, at)
  \/ RefundThrows(a, expected, at)
  \/ Advance(a, expected, at)

\* An action that changes the session names a commitment and, if any version, the
\* current one.
LEMMA TakesCurrent ==
  ASSUME Typed, NEW a \in Requests, NEW expected, NEW at \in Times, Takes(a, expected, at)
  PROVE  /\ a.commitment \in Commitments
         /\ expected = None \/ expected = CommitmentVersion(world[a.commitment])
<1>1. Known(a)
  BY DEF Takes, RefundInPart, RefundInFull, RefundThrows, Advance, Refundable, Tracked,
         Accepting, GuardAccepts, Known
<1>2. Fresh(a, expected)
  BY DEF Takes, RefundInPart, RefundInFull, RefundThrows, Advance
<1>3. QED
  BY <1>1, <1>2 DEF Fresh, Conflicts, VersionConflict, Known

\* The current version of a commitment with an unbroken history is one that a caller
\* may have read.
LEMMA CurrentIsReadable ==
  ASSUME NEW c \in Commitment, UnbrokenHistory(c)
  PROVE  CommitmentVersion(c) \in ReadableVersions(c) /\ CommitmentVersion(c) \in CommitmentVersions
<1> DEFINE n == Len(c.history)
           s == IF n = 0 THEN IF c.history = <<>> THEN c.state ELSE c.history[1].from
                ELSE c.history[n].to
<1>1. c.history \in Seq(Entry) /\ c.state \in States /\ n \in Nat
  BY DEF Commitment
<1>2. s = c.state
  <2>1. c.history = <<>> => n = 0
    OBVIOUS
  <2>2. n = 0 => c.history = <<>>
    BY <1>1
  <2>3. QED
    BY <2>1, <2>2 DEF UnbrokenHistory
<1>3. SubSeq(c.history, 1, n) = c.history
  BY <1>1
<1>4. CommitmentVersion(c)
        = CommitmentVersion([state |-> s, history |-> SubSeq(c.history, 1, n)])
  BY <1>2, <1>3 DEF CommitmentVersion
<1>5. n \in 0..n
  BY <1>1
<1>6. CommitmentVersion(c) \in ReadableVersions(c)
  BY <1>4, <1>5 DEF ReadableVersions
<1>7. QED
  BY <1>1, <1>6 DEF CommitmentVersion, CommitmentVersions

\* What an agent does is something the session does, or leaves the session alone.
LEMMA AgentsStep ==
  ASSUME Typed, HistoryUnbroken, [AgentsNext]_agentsVars
  PROVE  [Next]_vars
<1>1. CASE UNCHANGED agentsVars
  BY <1>1 DEF agentsVars
<1>2. ASSUME NEW p \in Actors, NEW c \in Commitments, Read(p, c)
      PROVE  [Next]_vars
  BY <1>2 DEF Read
<1>3. ASSUME NEW a \in Requests, NEW at \in Times, BelowBound(a),
             NEW expected, ProposeLogged(a, expected, at)
      PROVE  [Next]_vars
  <2>1. CASE Replay(a) \/ Conflict(a, expected) \/ Reject(a, expected, at)
    BY <2>1 DEF Replay, Conflict, Reject
  <2>2. CASE Takes(a, expected, at)
    <3>1. a.commitment \in Commitments
      BY <2>2, TakesCurrent
    <3>2. expected \in PlannedVersions(a)
      <4>1. world[a.commitment] \in Commitment /\ UnbrokenHistory(world[a.commitment])
        BY <3>1 DEF Typed, HistoryUnbroken
      <4>2. expected = None \/ expected \in ReadableVersions(world[a.commitment])
        BY <2>2, <4>1, TakesCurrent, CurrentIsReadable
      <4>3. QED
        BY <3>1, <4>2 DEF PlannedVersions, Known
    <3>3. Propose(a, expected, at)
      BY <2>2 DEF Takes, Propose
    <3>4. QED
      BY <1>3, <3>2, <3>3 DEF Next, ProposeAnytime
  <2>3. QED
    BY <1>3, <2>1, <2>2 DEF ProposeLogged, Takes
<1>4. CASE AgentsNext
  <2>1. CASE \E p \in Actors, c \in Commitments : Read(p, c)
    BY <2>1, <1>2
  <2>2. CASE \E a \in Requests, at \in Times :
               BelowBound(a) /\ (ActOnPlan(a, at) \/ ActFreely(a, at))
    <3> PICK a \in Requests, at \in Times : BelowBound(a) /\ (ActOnPlan(a, at) \/ ActFreely(a, at))
      BY <2>2
    <3>1. ProposeLogged(a, plan[a.actor].version, at) \/ ProposeLogged(a, None, at)
      BY DEF ActOnPlan, ActFreely
    <3>2. QED
      BY <3>1, <1>3
  <2>3. QED
    BY <1>4, <2>1, <2>2 DEF AgentsNext
<1>5. QED
  BY <1>1, <1>4

\* Several agents, each acting on versions it read at any earlier time, make no move
\* that the one caller of Session could not make: whatever holds of every session
\* holds of the accumulated world they share.
THEOREM AgentsAreASession == AgentsSpec => Spec
<1>1. AgentsInit => Init /\ Typed /\ HistoryUnbroken
  BY InitType, InitUnbroken DEF AgentsInit
<1>2. Typed /\ HistoryUnbroken /\ [AgentsNext]_agentsVars => [Next]_vars
  BY AgentsStep
<1>3. Typed /\ HistoryUnbroken /\ [Next]_vars => Typed' /\ HistoryUnbroken'
  BY NextType, NextUnbroken, NextProposes
<1>4. QED
  BY <1>1, <1>2, <1>3, PTL DEF AgentsSpec, Spec

\* However many agents take part and whoever makes them, the refunds of a commitment
\* stay within what it committed.
THEOREM AgentsConserve == AgentsSpec => []PaidWithinCommitted
BY AgentsAreASession, Conservation, PTL

-----------------------------------------------------------------------------
(* No stale plan.  A version is compared, not the moves: the invariant ties *)
(* the length in every version to the number of moves it stands for.        *)

StartLength(c) == Len(InitialWorld[c].history)

MovesInv ==
  /\ moves \in [Commitments -> Nat]
  /\ \A c \in Commitments : Len(world[c].history) = StartLength(c) + moves[c]

PlanInv ==
  /\ plan = [p \in Actors |-> plan[p]]
  /\ \A p \in Actors :
       plan[p] # None =>
         /\ plan[p].commitment \in Commitments
         /\ plan[p].seen \in Nat
         /\ plan[p].version \in CommitmentVersions
         /\ plan[p].version.length = StartLength(plan[p].commitment) + plan[p].seen

AgentsInv == Typed /\ HistoryUnbroken /\ MovesInv /\ PlanInv

LEMMA StartType == ASSUME NEW c \in Commitments PROVE StartLength(c) \in Nat
<1>1. InitialWorld[c] \in Commitment
  BY SynthesizedType, RequestsAssumption DEF InitialWorld
<1>2. QED
  BY <1>1 DEF StartLength, Commitment

LEMMA InitAgents == AgentsInit => AgentsInv
<1> SUFFICES ASSUME AgentsInit PROVE AgentsInv
  OBVIOUS
<1>1. Init /\ world = InitialWorld
  BY DEF AgentsInit, Init
<1>2. MovesInv
  BY <1>1, StartType DEF AgentsInit, MovesInv, StartLength
<1>3. PlanInv
  BY DEF AgentsInit, PlanInv
<1>4. QED
  BY <1>1, <1>2, <1>3, InitType, InitUnbroken DEF AgentsInv

\* A move the guard accepts makes one history longer, by one.
LEMMA MoveCounts ==
  ASSUME Typed, MovesInv, NEW a \in Requests, NEW expected, NEW at \in Times,
         Accepting(a, expected, at), world' = MoveIn(world, a, at), CountMove(a)
  PROVE  MovesInv'
<1>1. /\ a.commitment \in Commitments /\ at \in Nat
      /\ world[a.commitment] \in Commitment
      /\ world'[a.commitment] = Transitioned(world[a.commitment], a.to, a.actor, at)
      /\ \A c \in Commitments \ {a.commitment} : world'[c] = world[c]
  BY MoveInType, RequestType, RequestsAssumption DEF Typed
<1>2. Len(world'[a.commitment].history) = Len(world[a.commitment].history) + 1
  <2>1. a.to \in States /\ a.actor \in Actors
    BY RequestType DEF Proposable
  <2>2. Len(Transitioned(world[a.commitment], a.to, a.actor, at).history)
          = Len(world[a.commitment].history) + 1
    BY <1>1, <2>1, TransitionedType
  <2>3. QED
    BY <1>1, <2>2
<1>3. /\ moves' \in [Commitments -> Nat]
      /\ moves'[a.commitment] = moves[a.commitment] + 1
      /\ \A c \in Commitments \ {a.commitment} : moves'[c] = moves[c]
  BY <1>1 DEF CountMove, MovesInv
<1>4. \A c \in Commitments : StartLength(c) \in Nat /\ moves[c] \in Nat
  BY StartType DEF MovesInv
<1>5. ASSUME NEW c \in Commitments
      PROVE  Len(world'[c].history) = StartLength(c) + moves'[c]
  <2>1. Len(world[c].history) = StartLength(c) + moves[c]
    BY DEF MovesInv
  <2>2. CASE c = a.commitment
    <3>1. Len(world'[c].history) = Len(world[c].history) + 1 /\ moves'[c] = moves[c] + 1
      BY <1>2, <1>3, <2>2
    <3>2. StartLength(c) \in Nat /\ moves[c] \in Nat
      BY <1>4
    <3>3. QED
      BY <2>1, <3>1, <3>2
  <2>3. CASE c # a.commitment
    BY <1>1, <1>3, <2>1, <2>3
  <2>4. QED
    BY <2>2, <2>3
<1>6. \A c \in Commitments : StartLength(c)' = StartLength(c)
  BY DEF StartLength, InitialWorld
<1>7. QED
  BY <1>3, <1>5, <1>6 DEF MovesInv

LEMMA NextMoves ==
  ASSUME AgentsInv, NEW a \in Requests, NEW expected, NEW at \in Times,
         ProposeLogged(a, expected, at)
  PROVE  MovesInv'
<1>1. CASE UNCHANGED <<world, moves>>
  BY <1>1 DEF AgentsInv, MovesInv, StartLength, InitialWorld
<1>2. CASE Accepting(a, expected, at) /\ world' = MoveIn(world, a, at) /\ CountMove(a)
  BY <1>2, MoveCounts DEF AgentsInv
<1>3. QED
  BY <1>1, <1>2 DEF ProposeLogged, Replay, Conflict, Reject, RefundInPart, RefundInFull,
                    RefundThrows, Advance, vars

\* An agent that reads holds the version of the commitment as it has moved so far.
LEMMA ReadKeepsPlans ==
  ASSUME AgentsInv, NEW p \in Actors, NEW c \in Commitments, Read(p, c)
  PROVE  PlanInv'
<1> DEFINE read == [commitment |-> c, version |-> CommitmentVersion(world[c]), seen |-> moves[c]]
<1>1. /\ CommitmentVersion(world[c]) \in CommitmentVersions
      /\ CommitmentVersion(world[c]).length = StartLength(c) + moves[c]
      /\ moves[c] \in Nat
  <2>1. world[c] \in Commitment /\ UnbrokenHistory(world[c])
    BY DEF AgentsInv, Typed, HistoryUnbroken
  <2>2. QED
    BY <2>1, CurrentIsReadable DEF AgentsInv, MovesInv, CommitmentVersion
<1>2. plan' = [q \in Actors |-> IF q = p THEN read ELSE plan[q]]
  BY DEF Read, AgentsInv, PlanInv
<1>3. ASSUME NEW q \in Actors, plan'[q] # None
      PROVE  /\ plan'[q].commitment \in Commitments
             /\ plan'[q].seen \in Nat
             /\ plan'[q].version \in CommitmentVersions
             /\ plan'[q].version.length = StartLength(plan'[q].commitment) + plan'[q].seen
  BY <1>1, <1>2, <1>3 DEF AgentsInv, PlanInv
<1>4. \A d \in Commitments : StartLength(d)' = StartLength(d)
  BY DEF StartLength, InitialWorld
<1>5. QED
  BY <1>2, <1>3, <1>4 DEF PlanInv

LEMMA NextAgents == AgentsInv /\ [AgentsNext]_agentsVars => AgentsInv'
<1> SUFFICES ASSUME AgentsInv, [AgentsNext]_agentsVars PROVE AgentsInv'
  OBVIOUS
<1>1. Typed' /\ HistoryUnbroken'
  BY AgentsStep, NextType, NextUnbroken, NextProposes DEF AgentsInv
<1>2. MovesInv' /\ PlanInv'
  <2>1. CASE UNCHANGED agentsVars
    BY <2>1 DEF agentsVars, vars, AgentsInv, MovesInv, PlanInv, StartLength, InitialWorld
  <2>2. ASSUME NEW p \in Actors, NEW c \in Commitments, Read(p, c)
        PROVE  MovesInv' /\ PlanInv'
    <3>1. MovesInv'
      BY <2>2 DEF Read, vars, AgentsInv, MovesInv, StartLength, InitialWorld
    <3>2. QED
      BY <2>2, <3>1, ReadKeepsPlans
  <2>3. ASSUME NEW a \in Requests, NEW at \in Times, ActOnPlan(a, at) \/ ActFreely(a, at)
        PROVE  MovesInv' /\ PlanInv'
    <3>1. /\ ProposeLogged(a, plan[a.actor].version, at) \/ ProposeLogged(a, None, at)
          /\ plan' = plan
      BY <2>3 DEF ActOnPlan, ActFreely
    <3>2. MovesInv'
      BY <3>1, NextMoves
    <3>3. PlanInv'
      BY <3>1 DEF AgentsInv, PlanInv, StartLength, InitialWorld
    <3>4. QED
      BY <3>2, <3>3
  <2>4. QED
    BY <2>1, <2>2, <2>3 DEF AgentsNext
<1>3. QED
  BY <1>1, <1>2 DEF AgentsInv

\* An action on a plan moves its commitment only if the commitment has not moved since
\* the agent read it.
THEOREM NoStalePlan == AgentsSpec => NoStaleMove
<1>1. ASSUME AgentsInv, NEW a \in Requests, NEW at \in Times, ActOnPlan(a, at), world' # world
      PROVE  plan[a.actor].seen = moves[a.commitment]
  <2> DEFINE p == plan[a.actor]
  <2>1. a.actor \in Actors /\ p # None /\ p.commitment = a.commitment
    BY <1>1, RequestType DEF ActOnPlan, Proposable
  <2>2. Takes(a, p.version, at)
    BY <1>1 DEF ActOnPlan, ProposeLogged, Takes, Replay, Conflict, Reject, vars
  <2>3. p.version = CommitmentVersion(world[a.commitment])
    BY <1>1, <2>1, <2>2, TakesCurrent, VersionsAssumption DEF AgentsInv, PlanInv
  <2>4. /\ p.version.length = StartLength(a.commitment) + p.seen
        /\ p.version.length = StartLength(a.commitment) + moves[a.commitment]
        /\ p.seen \in Nat /\ moves[a.commitment] \in Nat /\ StartLength(a.commitment) \in Nat
    BY <1>1, <2>1, <2>3, StartType DEF AgentsInv, PlanInv, MovesInv, CommitmentVersion
  <2>5. QED
    BY <2>4
<1>2. AgentsInv /\ [AgentsNext]_agentsVars =>
        [\A a \in Requests, at \in Times :
           ActOnPlan(a, at) /\ world' # world
             => plan[a.actor].seen = moves[a.commitment]]_agentsVars
  BY <1>1
<1>3. QED
  BY <1>2, InitAgents, NextAgents, PTL DEF AgentsSpec, NoStaleMove

-----------------------------------------------------------------------------
(* The log tells the moves.                                                *)

LogRecord(a) == [actor |-> a.actor, commitment |-> a.commitment, to |-> a.to.type]

LogRecords == [actor : Actors, commitment : Commitments, to : StateTypes]

MovedAt(c) == {i \in (StartLength(c) + 1)..Len(world[c].history) :
                 world[c].history[i].to.type # "Refunded"}
MovedAs(c) == [i \in MovedAt(c) |-> <<world[c].history[i].actor, world[c].history[i].to.type>>]
LoggedAt(c) == {i \in DOMAIN log : log[i].commitment = c /\ log[i].to # "Refunded"}
LoggedAs(c) == [i \in LoggedAt(c) |-> <<log[i].actor, log[i].to>>]

\* The refund that moved c, if its last move was one, is the last the log has of c.
RefundLogged(c) ==
  LET history == world[c].history
      last    == history[Len(history)]
  IN (Len(history) > StartLength(c) /\ last.to.type = "Refunded") =>
       \E i \in DOMAIN log :
         /\ log[i] = [actor |-> last.actor, commitment |-> c, to |-> "Refunded"]
         /\ \A j \in (i + 1)..Len(log) : log[j].commitment # c

LogTells(c) ==
  TellTheSame(MovedAt(c), MovedAs(c), LoggedAt(c), LoggedAs(c)) /\ RefundLogged(c)

LogInv ==
  /\ log \in Seq(LogRecords)
  /\ \A c \in Commitments : OneCurrency(c) => LogTells(c)

\* What a proposal leaves in the log of its commitment.
LogsPart(a) ==
  /\ a.to.type = "Refunded" /\ IsValidCommitmentTransition(world[a.commitment].state, a.to)
  /\ world' = world /\ log' = Append(log, LogRecord(a))

LogsMove(a, at) ==
  /\ TransitionOk(world[a.commitment], a.to, at)
  /\ world' = MoveIn(world, a, at) /\ log' = Append(log, LogRecord(a))

LogsNothing(a) ==
  /\ ~OneCurrency(a.commitment)
  /\ \A c \in Commitments \ {a.commitment} : world'[c] = world[c]
  /\ log' = log

\* In a tree of one currency add() does not throw, whatever the other trees are.
LEMMA NoClashInTree ==
  ASSUME Typed, TallyCurrency, NEW a, Proposable(a), Tracked(a), OneCurrency(a.commitment)
  PROVE  ~TallyClashes(a)
<1>1. a.commitment \in Commitments /\ TreeRoot[a.commitment] \in Commitments
      /\ Committed[a.commitment] # NoMoney
      /\ Committed[a.commitment].currency = a.to.amount.currency
  BY TrackedType, RootType, MoneyAssumption
<1>2. SUFFICES ASSUME TallyClashes(a) PROVE FALSE
  OBVIOUS
<1> PICK r : r = TreeRoot[a.commitment]
  OBVIOUS
<1>3. treeLedger[r] # NoMoney /\ treeLedger[r].currency # a.to.amount.currency
  BY <1>2 DEF TallyClashes
<1>4. PICK d \in Commitments : /\ TreeRoot[d] = r /\ Committed[d] # NoMoney
                               /\ Committed[d].currency = treeLedger[r].currency
  BY <1>1, <1>3 DEF TallyCurrency
<1>5. Committed[d].currency = Committed[a.commitment].currency
  BY <1>1, <1>4 DEF OneCurrency
<1>6. QED
  BY <1>1, <1>3, <1>4, <1>5

LEMMA ProposalLogs ==
  ASSUME Typed, TallyCurrency, NEW a \in Requests, NEW expected, NEW at \in Times,
         ProposeLogged(a, expected, at)
  PROVE  \/ UNCHANGED <<world, log>>
         \/ /\ a.commitment \in Commitments
            /\ LogsPart(a) \/ LogsMove(a, at) \/ LogsNothing(a)
<1>1. Proposable(a)
  BY RequestType
<1>2. CASE Replay(a) /\ LogVerdict(a)
  BY <1>2 DEF Replay, LogVerdict, vars
<1>3. CASE RefundInPart(a, expected) /\ LogVerdict(a)
  <2>1. Tracked(a) /\ ~IsReplay(a) /\ world' = world
    BY <1>3 DEF RefundInPart, Refundable, Fresh
  <2>2. QED
    BY <1>3, <2>1 DEF Tracked, Known, LogVerdict, LogsPart, LogRecord
<1>4. CASE LogVerdict(a) /\ (RefundInFull(a, expected, at) \/ Advance(a, expected, at))
  <2>1. Accepting(a, expected, at) /\ ~IsReplay(a) /\ world' = MoveIn(world, a, at)
    BY <1>4 DEF RefundInFull, Advance, Fresh
  <2>2. QED
    BY <1>4, <2>1 DEF Accepting, GuardAccepts, LogVerdict, LogsMove, LogRecord
<1>5. CASE (Conflict(a, expected) \/ Reject(a, expected, at)) /\ log' = log
  BY <1>5 DEF Conflict, Reject, vars
<1>6. CASE RefundThrows(a, expected, at) /\ log' = log
  <2>1. Tracked(a) /\ TallyClashes(a)
    BY <1>6 DEF RefundThrows, Refundable
  <2>2. a.commitment \in Commitments /\ ~OneCurrency(a.commitment)
    BY <1>1, <2>1, NoClashInTree DEF Tracked, Known
  <2>3. \A c \in Commitments \ {a.commitment} : world'[c] = world[c]
    BY <1>6 DEF RefundThrows, MoveIn, Typed
  <2>4. QED
    BY <1>6, <2>2, <2>3 DEF LogsNothing
<1>7. QED
  BY <1>2, <1>3, <1>4, <1>5, <1>6 DEF ProposeLogged

\* A record of another commitment, or none, changes nothing for one that stays.
LEMMA OthersLogged ==
  ASSUME log \in Seq(LogRecords), NEW c \in Commitments, LogTells(c), world'[c] = world[c],
         \/ log' = log
         \/ \E r \in LogRecords : r.commitment # c /\ log' = Append(log, r)
  PROVE  LogTells(c)'
<1>0. PICK n : n = Len(log)
  OBVIOUS
<1>1. n \in Nat /\ DOMAIN log = 1..n
  BY <1>0, LenProperties
<1>2. \/ log' = log
      \/ /\ Len(log') = n + 1 /\ DOMAIN log' = 1..(n + 1)
         /\ \A i \in 1..n : log'[i] = log[i]
         /\ log'[n + 1].commitment # c
  <2>1. CASE log' = log
    BY <2>1
  <2>2. ASSUME NEW r \in LogRecords, r.commitment # c, log' = Append(log, r)
        PROVE  /\ Len(log') = n + 1 /\ DOMAIN log' = 1..(n + 1)
               /\ \A i \in 1..n : log'[i] = log[i]
               /\ log'[n + 1].commitment # c
    <3>1. /\ log' \in Seq(LogRecords) /\ Len(log') = n + 1
          /\ \A i \in 1..n : log'[i] = log[i]
          /\ log'[n + 1] = r
      BY <1>0, <2>2, AppendProperties
    <3>2. QED
      BY <2>2, <3>1, LenProperties
  <2>3. QED
    BY <2>1, <2>2
<1>3. StartLength(c)' = StartLength(c)
  BY DEF StartLength, InitialWorld
<1>4. MovedAt(c)' = MovedAt(c) /\ MovedAs(c)' = MovedAs(c)
  BY <1>3 DEF MovedAt, MovedAs
<1>5. LoggedAt(c)' = LoggedAt(c) /\ \A j \in LoggedAt(c) : LoggedAs(c)'[j] = LoggedAs(c)[j]
  <2>1. CASE log' = log
    BY <2>1 DEF LoggedAt, LoggedAs
  <2>2. CASE log' # log
    <3>1. LoggedAt(c)' = LoggedAt(c)
      BY <1>1, <1>2, <2>2 DEF LoggedAt
    <3>2. LoggedAt(c) \subseteq 1..n
      BY <1>1 DEF LoggedAt
    <3>3. QED
      BY <1>2, <2>2, <3>1, <3>2 DEF LoggedAs
  <2>3. QED
    BY <2>1, <2>2
<1>6. TellTheSame(MovedAt(c)', MovedAs(c)', LoggedAt(c)', LoggedAs(c)')
  BY <1>4, <1>5, TellLikewise DEF LogTells
<1>7. RefundLogged(c)'
  <2> PICK h, k : h = world[c].history /\ k = StartLength(c)
    OBVIOUS
  <2> SUFFICES ASSUME Len(h) > k, h[Len(h)].to.type = "Refunded"
               PROVE  \E i \in DOMAIN log' :
                        /\ log'[i] = [actor |-> h[Len(h)].actor, commitment |-> c, to |-> "Refunded"]
                        /\ \A j \in (i + 1)..Len(log') : log'[j].commitment # c
    BY <1>3 DEF RefundLogged
  <2>1. PICK i \in 1..n :
          /\ log[i] = [actor |-> h[Len(h)].actor, commitment |-> c, to |-> "Refunded"]
          /\ \A j \in (i + 1)..n : log[j].commitment # c
    BY <1>0, <1>1 DEF LogTells, RefundLogged
  <2>2. CASE log' = log
    BY <1>0, <1>1, <2>1, <2>2
  <2>3. CASE log' # log
    <3>1. i \in 1..(n + 1) /\ log'[i] = log[i]
      BY <1>1, <1>2, <2>3
    <3>2. ASSUME NEW j \in (i + 1)..(n + 1) PROVE log'[j].commitment # c
      <4>1. j \in (i + 1)..n \/ j = n + 1
        BY <1>1
      <4>2. j \in (i + 1)..n => j \in 1..n
        BY <1>1
      <4>3. QED
        BY <1>2, <2>1, <2>3, <4>1, <4>2
    <3>3. QED
      BY <1>2, <2>1, <2>3, <3>1, <3>2
  <2>4. QED
    BY <2>2, <2>3
<1>8. QED
  BY <1>6, <1>7 DEF LogTells, TellTheSame, Rank

\* A commitment that can still move was not moved to Refunded last.
LEMMA MovableNotRefunded ==
  ASSUME NEW x \in Commitment, UnbrokenHistory(x), NEW to, IsValidCommitmentTransition(x.state, to),
         NEW k \in Nat, Len(x.history) > k
  PROVE  x.history[Len(x.history)].to.type # "Refunded"
<1>1. x.history \in Seq(Entry) /\ x.state \in States /\ Len(x.history) \in Nat
  BY LenProperties DEF Commitment
<1>2. x.history # <<>>
  BY <1>1
<1>3. x.history[Len(x.history)].to = x.state
  BY <1>2 DEF UnbrokenHistory
<1>4. QED
  BY <1>1, <1>3, RefundedIsTerminal

\* A refund that only the ledgers record is in the log, and leaves the moves as they
\* were told.
LEMMA PartLogged ==
  ASSUME AgentsInv, log \in Seq(LogRecords), NEW a \in Requests,
         a.commitment \in Commitments, LogTells(a.commitment), LogsPart(a)
  PROVE  LogTells(a.commitment)'
<1>0. PICK c, n, r : c = a.commitment /\ n = Len(log) /\ r = LogRecord(a)
  OBVIOUS
<1>1. /\ c \in Commitments /\ n \in Nat /\ DOMAIN log = 1..n
      /\ r \in LogRecords /\ r.to = "Refunded" /\ r.commitment = c
      /\ log' = Append(log, r) /\ world' = world
  BY <1>0, RequestType, LenProperties DEF LogsPart, LogRecord, LogRecords, Proposable, States
<1>2. /\ DOMAIN log' = 1..(n + 1) /\ \A i \in 1..n : log'[i] = log[i]
      /\ log'[n + 1] = r
  <2>1. /\ log' \in Seq(LogRecords) /\ Len(log') = n + 1
        /\ \A i \in 1..n : log'[i] = log[i]
        /\ log'[n + 1] = r
    BY <1>0, <1>1, AppendProperties
  <2>2. QED
    BY <2>1, LenProperties
<1>3. StartLength(c)' = StartLength(c) /\ StartLength(c) \in Nat
  BY <1>1, StartType DEF StartLength, InitialWorld
<1>4. MovedAt(c)' = MovedAt(c) /\ MovedAs(c)' = MovedAs(c)
  BY <1>1, <1>3 DEF MovedAt, MovedAs
<1>5. LoggedAt(c)' = LoggedAt(c) /\ \A j \in LoggedAt(c) : LoggedAs(c)'[j] = LoggedAs(c)[j]
  <2>1. LoggedAt(c)' = LoggedAt(c)
    BY <1>1, <1>2 DEF LoggedAt
  <2>2. LoggedAt(c) \subseteq 1..n
    BY <1>1 DEF LoggedAt
  <2>3. QED
    BY <1>2, <2>1, <2>2 DEF LoggedAs
<1>6. TellTheSame(MovedAt(c)', MovedAs(c)', LoggedAt(c)', LoggedAs(c)')
  <2>1. TellTheSame(MovedAt(c), MovedAs(c), LoggedAt(c), LoggedAs(c))
    BY <1>0 DEF LogTells
  <2>2. QED
    BY <1>4, <1>5, <2>1, TellLikewise
<1>7. RefundLogged(c)'
  <2> PICK x, k : x = world[c] /\ k = StartLength(c)
    OBVIOUS
  <2>1. x \in Commitment /\ UnbrokenHistory(x) /\ IsValidCommitmentTransition(x.state, a.to)
    BY <1>0, <1>1 DEF AgentsInv, Typed, HistoryUnbroken, LogsPart
  <2>2. ~(Len(x.history) > k /\ x.history[Len(x.history)].to.type = "Refunded")
    BY <1>3, <2>1, MovableNotRefunded
  <2>3. QED
    BY <1>1, <1>3, <2>2 DEF RefundLogged
<1>8. QED
  BY <1>0, <1>6, <1>7 DEF LogTells, TellTheSame, Rank

\* A move is one more entry in the history and in the log, or the refund both end with.
LEMMA MoveLogged ==
  ASSUME AgentsInv, log \in Seq(LogRecords), NEW a \in Requests, NEW at \in Times,
         a.commitment \in Commitments, LogTells(a.commitment), LogsMove(a, at)
  PROVE  LogTells(a.commitment)'
<1>0. PICK c, m, r, k : /\ c = a.commitment /\ m = Len(log) /\ r = LogRecord(a)
                       /\ k = StartLength(a.commitment)
  OBVIOUS
<1>a. PICK x, y, n : x = world[c] /\ y = Transitioned(x, a.to, a.actor, at) /\ n = Len(x.history)
  OBVIOUS
<1>b. PICK moved, moved2, as, as2 :
        /\ moved = MovedAt(c) /\ moved2 = MovedAt(c)' /\ as = MovedAs(c) /\ as2 = MovedAs(c)'
  OBVIOUS
<1>c. PICK logged, logged2, said, said2 :
        /\ logged = LoggedAt(c) /\ logged2 = LoggedAt(c)' /\ said = LoggedAs(c) /\ said2 = LoggedAs(c)'
  OBVIOUS
<1>1. /\ c \in Commitments /\ m \in Nat /\ DOMAIN log = 1..m /\ k \in Nat /\ n = k + moves[c]
      /\ moves[c] \in Nat /\ x \in Commitment /\ at \in Nat
      /\ a.to \in States /\ a.actor \in Actors /\ r \in LogRecords /\ r.commitment = c
      /\ r.actor = a.actor /\ r.to = a.to.type
  BY <1>0, <1>a, RequestType, RequestsAssumption, StartType, LenProperties
     DEF LogRecord, LogRecords, Proposable, States, AgentsInv, MovesInv, Typed
<1>2. /\ DOMAIN log' = 1..(m + 1) /\ \A i \in 1..m : log'[i] = log[i]
      /\ log'[m + 1] = r /\ Len(log') = m + 1
  <2>1. log' = Append(log, r)
    BY <1>0 DEF LogsMove
  <2>2. /\ log' \in Seq(LogRecords) /\ Len(log') = m + 1
        /\ \A i \in 1..m : log'[i] = log[i]
        /\ log'[m + 1] = r
    BY <1>0, <1>1, <2>1, AppendProperties
  <2>3. QED
    BY <2>2, LenProperties
<1>3. world'[c] = y
  BY <1>0, <1>1, <1>a DEF LogsMove, MoveIn, AgentsInv, Typed
<1>4. /\ y \in Commitment /\ Len(y.history) = n + 1
      /\ \A i \in 1..n : y.history[i] = x.history[i]
      /\ y.history[n + 1] = [from |-> x.state, to |-> a.to, at |-> at, actor |-> a.actor]
  <2>1. /\ x \in Commitment /\ a.to \in States /\ a.actor \in Actors /\ at \in Nat
        /\ y = Transitioned(x, a.to, a.actor, at) /\ n = Len(x.history)
    BY <1>1, <1>a
  <2>2. y \in Commitment /\ Len(y.history) = n + 1
    BY <2>1, TransitionedType
  <2>3. /\ \A i \in 1..n : y.history[i] = x.history[i]
        /\ y.history[n + 1] = [from |-> x.state, to |-> a.to, at |-> at, actor |-> a.actor]
    BY <2>1, TransitionedEntries
  <2>4. QED
    BY <2>2, <2>3
<1>5. y.history[n + 1].to = a.to /\ y.history[n + 1].actor = a.actor
  BY <1>4
<1>6. StartLength(c)' = k /\ n \in Nat /\ k <= n
  BY <1>0, <1>1 DEF StartLength, InitialWorld
<1>7. /\ moved = {i \in (k + 1)..n : x.history[i].to.type # "Refunded"}
      /\ moved2 = {i \in (k + 1)..(n + 1) : y.history[i].to.type # "Refunded"}
  BY <1>0, <1>a, <1>b, <1>3, <1>4, <1>6 DEF MovedAt
<1>8. /\ logged = {i \in 1..m : log[i].commitment = c /\ log[i].to # "Refunded"}
      /\ logged2 = {i \in 1..(m + 1) : log'[i].commitment = c /\ log'[i].to # "Refunded"}
  BY <1>1, <1>2, <1>c DEF LoggedAt
<1>9. /\ \A i \in moved2 : as2[i] = <<y.history[i].actor, y.history[i].to.type>>
      /\ \A i \in moved : as[i] = <<x.history[i].actor, x.history[i].to.type>>
  BY <1>a, <1>b, <1>3 DEF MovedAs
<1>10. /\ \A j \in logged2 : said2[j] = <<log'[j].actor, log'[j].to>>
       /\ \A j \in logged : said[j] = <<log[j].actor, log[j].to>>
  BY <1>c DEF LoggedAs
<1>11. /\ \A i \in moved : i \in 1..n /\ i \in moved2 /\ as2[i] = as[i]
       /\ \A j \in logged : j \in 1..m /\ j \in logged2 /\ said2[j] = said[j]
  <2>1. \A i \in moved : i \in 1..n /\ i \in moved2
    <3>1. \A i \in (k + 1)..n : i \in 1..n /\ i \in (k + 1)..(n + 1)
      BY <1>1, <1>6
    <3>2. QED
      BY <1>4, <1>7, <3>1
  <2>2. \A j \in logged : j \in 1..m /\ j \in logged2
    <3>1. m \in Nat /\ \A j \in 1..m : j \in 1..(m + 1) /\ log'[j] = log[j]
      BY <1>1, <1>2
    <3>2. QED
      BY <1>8, <3>1
  <2>3. \A i \in moved : as2[i] = as[i]
    BY <1>4, <1>9, <2>1
  <2>4. \A j \in logged : said2[j] = said[j]
    BY <1>2, <1>10, <2>2
  <2>5. QED
    BY <2>1, <2>2, <2>3, <2>4
<1>12. TellTheSame(moved, as, logged, said)
  BY <1>0, <1>b, <1>c DEF LogTells
<1>13. CASE a.to.type = "Refunded"
  <2>1. moved2 = moved
    <3>1. n + 1 \notin moved2
      BY <1>5, <1>7, <1>13
    <3>2. \A i \in (k + 1)..(n + 1) : i \in (k + 1)..n \/ i = n + 1
      BY <1>1, <1>6
    <3>3. \A i \in (k + 1)..n : i \in 1..n /\ i \in (k + 1)..(n + 1)
      BY <1>1, <1>6
    <3>4. QED
      BY <1>4, <1>7, <3>1, <3>2, <3>3
  <2>2. logged2 = logged
    <3>1. m + 1 \notin logged2
      BY <1>1, <1>2, <1>8, <1>13
    <3>2. \A j \in 1..(m + 1) : j \in 1..m \/ j = m + 1
      BY <1>1
    <3>3. \A j \in 1..m : j \in 1..(m + 1)
      BY <1>1
    <3>4. QED
      BY <1>2, <1>8, <3>1, <3>2, <3>3
  <2>3. TellTheSame(moved, as2, logged, said2)
    BY <1>11, <1>12, TellLikewise
  <2>4. RefundLogged(c)'
    <3>1. log'[m + 1] = [actor |-> a.actor, commitment |-> c, to |-> "Refunded"]
      BY <1>0, <1>2, <1>13 DEF LogRecord
    <3>2. m + 1 \in DOMAIN log' /\ (m + 1 + 1)..Len(log') = {}
      BY <1>1, <1>2
    <3>3. QED
      BY <1>3, <1>4, <1>5, <3>1, <3>2 DEF RefundLogged
  <2>5. QED
    <3>1. TellTheSame(MovedAt(c)', MovedAs(c)', LoggedAt(c)', LoggedAs(c)')
      BY <1>b, <1>c, <2>1, <2>2, <2>3
    <3>2. QED
      BY <1>0, <2>4, <3>1 DEF LogTells, TellTheSame, Rank
<1>14. CASE a.to.type # "Refunded"
  <2>1. moved2 = moved \cup {n + 1}
    <3>1. n + 1 \in moved2
      BY <1>1, <1>5, <1>6, <1>7, <1>14
    <3>2. \A i \in (k + 1)..(n + 1) : i \in (k + 1)..n \/ i = n + 1
      BY <1>1, <1>6
    <3>3. \A i \in (k + 1)..n : i \in 1..n /\ i \in (k + 1)..(n + 1)
      BY <1>1, <1>6
    <3>4. QED
      BY <1>4, <1>7, <3>1, <3>2, <3>3
  <2>2. logged2 = logged \cup {m + 1}
    <3>1. m + 1 \in logged2
      BY <1>1, <1>2, <1>8, <1>14
    <3>2. \A j \in 1..(m + 1) : j \in 1..m \/ j = m + 1
      BY <1>1
    <3>3. \A j \in 1..m : j \in 1..(m + 1)
      BY <1>1
    <3>4. QED
      BY <1>2, <1>8, <3>1, <3>2, <3>3
  <2>3. as2[n + 1] = said2[m + 1]
    <3>1. as2[n + 1] = <<a.actor, a.to.type>>
      BY <1>5, <1>9, <2>1
    <3>2. said2[m + 1] = <<a.actor, a.to.type>>
      BY <1>1, <1>2, <1>10, <2>2
    <3>3. QED
      BY <3>1, <3>2
  <2>4. TellTheSame(moved \cup {n + 1}, as2, logged \cup {m + 1}, said2)
    <3>0. PICK p, q : p = n + 1 /\ q = m + 1
      OBVIOUS
    <3>1. IsFiniteSet(moved) /\ IsFiniteSet(logged)
      <4>1. moved \in SUBSET (1..n) /\ logged \in SUBSET (1..m)
        BY <1>11
      <4>2. IsFiniteSet(1..n) /\ IsFiniteSet(1..m)
        <5>1. \A l \in Nat : IsFiniteSet(1..l)
          BY FS_Interval
        <5>2. QED
          BY <1>1, <1>6, <5>1
      <4>3. QED
        BY <4>1, <4>2, FS_Subset
    <3>2. /\ moved \subseteq Int /\ logged \subseteq Int /\ p \in Int /\ q \in Int
          /\ \A i \in moved : i < p
          /\ \A j \in logged : j < q
      <4>1. moved \subseteq 1..n /\ logged \subseteq 1..m /\ n \in Nat /\ m \in Nat
        BY <1>1, <1>6, <1>11
      <4>2. QED
        BY <3>0, <4>1
    <3>3. /\ \A i \in moved : as2[i] = as[i]
          /\ \A j \in logged : said2[j] = said[j]
          /\ as2[p] = said2[q]
      BY <1>11, <2>3, <3>0
    <3>4. TellTheSame(moved \cup {p}, as2, logged \cup {q}, said2)
      BY <1>12, <3>1, <3>2, <3>3, TellOneMore, ZenonT(60)
    <3>5. QED
      BY <3>0, <3>4
  <2>5. RefundLogged(c)'
    BY <1>3, <1>4, <1>5, <1>14 DEF RefundLogged
  <2>6. QED
    <3>1. TellTheSame(MovedAt(c)', MovedAs(c)', LoggedAt(c)', LoggedAs(c)')
      BY <1>b, <1>c, <2>1, <2>2, <2>4
    <3>2. QED
      BY <1>0, <2>5, <3>1 DEF LogTells, TellTheSame, Rank
<1>15. QED
  BY <1>13, <1>14

LEMMA InitLog == AgentsInit => LogInv
<1> SUFFICES ASSUME AgentsInit, NEW c \in Commitments PROVE LogTells(c)
  BY DEF AgentsInit, LogInv
<1>1. world = InitialWorld /\ StartLength(c) \in Nat /\ log = <<>>
  BY StartType DEF AgentsInit, Init
<1>2. Len(world[c].history) = StartLength(c)
  BY <1>1 DEF StartLength
<1>3. MovedAt(c) = {} /\ LoggedAt(c) = {} /\ RefundLogged(c)
  BY <1>1, <1>2 DEF MovedAt, LoggedAt, RefundLogged
<1>4. QED
  BY <1>3, TellNothing DEF LogTells

LEMMA NextLog == AgentsInv /\ TallyCurrency /\ LogInv /\ [AgentsNext]_agentsVars => LogInv'
<1> SUFFICES ASSUME AgentsInv, TallyCurrency, LogInv, [AgentsNext]_agentsVars PROVE LogInv'
  OBVIOUS
<1>1. CASE UNCHANGED <<world, log>>
  BY <1>1, OthersLogged DEF LogInv
<1>2. ASSUME NEW a \in Requests, NEW at \in Times, NEW expected, ProposeLogged(a, expected, at)
      PROVE  LogInv'
  <2>1. CASE a.commitment \in Commitments /\ (LogsPart(a) \/ LogsMove(a, at) \/ LogsNothing(a))
    <3>1. LogRecord(a) \in LogRecords
      BY <2>1, RequestType DEF LogRecord, LogRecords, Proposable, States
    <3>2. log' = log \/ log' = Append(log, LogRecord(a))
      BY <2>1 DEF LogsPart, LogsMove, LogsNothing
    <3>3. log' \in Seq(LogRecords)
      BY <3>1, <3>2, AppendProperties DEF LogInv
    <3>4. ASSUME NEW c \in Commitments, OneCurrency(c) PROVE LogTells(c)'
      <4>1. LogTells(c)
        BY <3>4 DEF LogInv
      <4>2. CASE c = a.commitment
        <5>1. LogsPart(a) \/ LogsMove(a, at)
          BY <2>1, <3>4, <4>2 DEF LogsNothing
        <5>2. QED
          BY <2>1, <4>1, <4>2, <5>1, PartLogged, MoveLogged DEF LogInv
      <4>3. CASE c # a.commitment
        <5>1. world'[c] = world[c]
          BY <2>1, <4>3 DEF LogsPart, LogsMove, LogsNothing, MoveIn, AgentsInv, Typed
        <5>2. LogRecord(a).commitment # c
          BY <4>3 DEF LogRecord
        <5>3. QED
          BY <3>1, <3>2, <4>1, <5>1, <5>2, OthersLogged DEF LogInv
      <4>4. QED
        BY <4>2, <4>3
    <3>5. QED
      BY <3>3, <3>4 DEF LogInv, OneCurrency
  <2>2. QED
    BY <1>1, <1>2, <2>1, ProposalLogs DEF AgentsInv
<1>3. CASE UNCHANGED agentsVars \/ \E p \in Actors, c \in Commitments : Read(p, c)
  BY <1>1, <1>3 DEF agentsVars, vars, Read
<1>4. CASE \E a \in Requests, at \in Times : ActOnPlan(a, at) \/ ActFreely(a, at)
  BY <1>2, <1>4 DEF ActOnPlan, ActFreely
<1>5. QED
  BY <1>3, <1>4 DEF AgentsNext

LEMMA NextTallyCurrency ==
  ASSUME Typed, TallyCurrency, [Proposes]_vars
  PROVE  TallyCurrency'
<1>1. CASE treeLedger' = treeLedger
  BY <1>1 DEF TallyCurrency
<1>2. ASSUME NEW a, Proposable(a), Tracked(a), RecordTree(a) PROVE TallyCurrency'
  BY <1>2, RecordTallyCurrency
<1>3. QED
  BY <1>1, <1>2 DEF Proposes, Propose, Replay, Conflict, RefundInPart, RefundInFull, RefundThrows,
                    Advance, Reject, Refundable, vars

\* The log has each move of a commitment once, in order and by the agent who made it,
\* and each refund that settled one: in every tree of one currency.
THEOREM LogTellsAll == AgentsSpec => []LogTellsMoves
<1>1. LogInv => LogTellsMoves
  BY DEF LogInv, LogTells, LogTellsMoves, StartLength, MovedAt, MovedAs, LoggedAt, LoggedAs, RefundLogged
<1>2. AgentsInit => TallyCurrency
  BY DEF AgentsInit, Init, TallyCurrency
<1>3. AgentsInv /\ TallyCurrency /\ [AgentsNext]_agentsVars => TallyCurrency'
  BY AgentsStep, NextProposes, NextTallyCurrency DEF AgentsInv
<1>4. QED
  BY <1>1, <1>2, <1>3, InitAgents, NextAgents, InitLog, NextLog, PTL DEF AgentsSpec


-----------------------------------------------------------------------------
(* Returns.                                                                *)

LineKey(id, i) == <<"key", <<id, Rmas[id].lines[i].line>>>>
SettledOf(id) == {i \in LineNumbers(id) : LineKey(id, i) \in applied}

LEMMA SettledLinesOf ==
  ASSUME NEW id \in RmaIds
  PROVE  {i \in LineNumbers(id) : <<id, i>> \in SettledLines} = SettledOf(id)
BY DEF SettledLines, SettledOf, LineKey

\* Lines are numbered from 1.
LEMMA LineNumbersType ==
  ASSUME NEW id \in RmaIds
  PROVE  /\ Len(Rmas[id].lines) \in Nat
         /\ LineNumbers(id) = 1..Len(Rmas[id].lines)
BY RmasAssumption DEF LineNumbers

\* What settle() proposes for a line is a request, recorded under the key of the line.
LEMMA LineRefundType ==
  ASSUME NEW id \in RmaIds, NEW i \in LineNumbers(id), NEW p \in Actors
  PROVE  LET a == LineRefund(id, i, p)
             line == Rmas[id].lines[i]
         IN /\ Proposable(a)
            /\ ActionKey(a) = LineKey(id, i)
            /\ a.commitment = line.line /\ a.to.amount = line.amount
            /\ line.amount.amount \in Nat
<1>1. LineRefund(id, i, p) \in Requests
  BY RmasAssumption
<1>2. Rmas[id].lines[i] \in [line : Ids, amount : Money]
  <2>1. Rmas[id].lines \in Seq([line : Ids, amount : Money])
    BY RmasAssumption
  <2>2. i \in 1..Len(Rmas[id].lines)
    BY LineNumbersType
  <2>3. QED
    BY <2>1, <2>2, ElementOfSeq
<1>3. QED
  BY <1>1, <1>2, RequestType, RmasAssumption DEF LineRefund, ActionKey, LineKey, Money

\* Keys of different returns differ, and those of one return as its lines do.
LEMMA LineKeysDiffer ==
  ASSUME NEW id, NEW i, NEW other, NEW j, LineKey(id, i) = LineKey(other, j)
  PROVE  id = other /\ Rmas[id].lines[i].line = Rmas[other].lines[j].line
BY DEF LineKey

EarlyStages == {None, "requested", "authorized", "in_transit", "received"}

\* The stages gate the money while settle() runs, too: the lines before the one whose
\* turn it is are settled, and a return with a stage has lines.
GateInv ==
  /\ Typed
  /\ stage \in [RmaIds -> DOMAIN RmaStages \cup {None}]
  /\ \A id \in RmaIds : stage[id] # None => LineNumbers(id) # {}
  /\ settling # Idle =>
       /\ settling \in [rma : RmaIds, line : Nat, actor : Actors]
       /\ stage[settling.rma] = "inspected"
       /\ settling.line \in LineNumbers(settling.rma)
       /\ \A i \in 1..(settling.line - 1) : i \in SettledOf(settling.rma)
  /\ \A id \in RmaIds :
       /\ stage[id] = "refunded" => SettledOf(id) = LineNumbers(id)
       /\ stage[id] \in EarlyStages => SettledOf(id) = {}

LEMMA InitGate == ReturnsInit => GateInv
<1> SUFFICES ASSUME ReturnsInit PROVE GateInv
  OBVIOUS
<1>1. Typed /\ applied = {} /\ stage = [id \in RmaIds |-> None] /\ settling = Idle
  BY InitType DEF ReturnsInit, Init
<1>2. None # "refunded"
  BY StagesAssumption DEF RmaStages
<1>3. QED
  BY <1>1, <1>2 DEF GateInv, SettledOf

\* A verdict on the line whose turn it is leaves the other returns' lines as they were,
\* and settles the line when it is ok.
LEMMA SettleLineEffect ==
  ASSUME GateInv, NEW at \in Times, SettleLine(at),
         NEW id0, id0 = settling.rma, NEW i0, i0 = settling.line
  PROVE  /\ Typed'
         /\ \A id \in RmaIds : SettledOf(id) \subseteq SettledOf(id)'
         /\ \A id \in RmaIds : id # id0 => SettledOf(id)' = SettledOf(id)
         /\ \/ LineSettled /\ i0 \in SettledOf(id0)'
            \/ SettleEnds
<1> DEFINE a == LineRefund(id0, i0, settling.actor)
<1>1. /\ id0 \in RmaIds /\ i0 \in LineNumbers(id0) /\ settling.actor \in Actors
      /\ Typed
  BY DEF GateInv, SettleLine
<1>2. Proposable(a) /\ ActionKey(a) = LineKey(id0, i0)
  BY <1>1, LineRefundType
<1>3. Propose(a, None, at)
  BY DEF SettleLine, Propose
<1>4. Typed'
  BY <1>1, <1>2, <1>3, NextType DEF Proposes
<1>5. \/ UNCHANGED applied /\ SettleEnds
      \/ applied' = applied \cup {LineKey(id0, i0)} /\ LineSettled
  <2>1. CASE Replay(a) /\ LineSettled
    BY <1>2, <2>1 DEF Replay, IsReplay, vars
  <2>2. CASE LineSettled /\ (RefundInPart(a, None) \/ RefundInFull(a, None, at) \/ Advance(a, None, at))
    BY <1>2, <2>2 DEF RefundInPart, RefundInFull, Advance, RecordKey
  <2>3. CASE SettleEnds /\ (Reject(a, None, at) \/ RefundThrows(a, None, at))
    BY <2>3 DEF Reject, RefundThrows, vars
  <2>4. QED
    BY <2>1, <2>2, <2>3 DEF SettleLine
<1>6. \A id \in RmaIds : SettledOf(id)' = {i \in LineNumbers(id) : LineKey(id, i) \in applied'}
  BY DEF SettledOf, LineNumbers, LineKey, RmaIds
<1>7. CASE applied' = applied /\ SettleEnds
  BY <1>4, <1>6, <1>7 DEF SettledOf
<1>8. CASE applied' = applied \cup {LineKey(id0, i0)} /\ LineSettled
  <2>1. i0 \in SettledOf(id0)'
    BY <1>1, <1>6, <1>8
  <2>2. ASSUME NEW id \in RmaIds PROVE SettledOf(id) \subseteq SettledOf(id)'
    BY <1>6, <1>8 DEF SettledOf
  <2>3. ASSUME NEW id \in RmaIds, id # id0 PROVE SettledOf(id)' = SettledOf(id)
    <3>1. \A i \in LineNumbers(id) : LineKey(id, i) # LineKey(id0, i0)
      BY <2>3, LineKeysDiffer
    <3>2. QED
      BY <1>6, <1>8, <3>1 DEF SettledOf
  <2>4. QED
    BY <1>4, <1>8, <2>1, <2>2, <2>3
<1>9. QED
  BY <1>5, <1>7, <1>8

LEMMA NextGate == GateInv /\ [ReturnsNext]_returnsVars => GateInv'
<1> SUFFICES ASSUME GateInv, [ReturnsNext]_returnsVars PROVE GateInv'
  OBVIOUS
<1>1. ASSUME UNCHANGED vars PROVE Typed' /\ \A id \in RmaIds : SettledOf(id)' = SettledOf(id)
  BY <1>1 DEF vars, GateInv, Typed, SettledOf, LineNumbers, RmaIds
<1>2. CASE UNCHANGED returnsVars
  BY <1>1, <1>2 DEF returnsVars, GateInv
<1>3. ASSUME NEW id \in RmaIds, Open(id) PROVE GateInv'
  BY <1>1, <1>3, StagesAssumption DEF Open, GateInv, EarlyStages, RmaStages
<1>4. ASSUME NEW id \in RmaIds, NEW to \in DOMAIN RmaStages, AdvanceStage(id, to) PROVE GateInv'
  <2>1. /\ stage[id] \in DOMAIN RmaStages /\ to # "refunded" /\ to \in RmaStages[stage[id]]
    BY <1>4 DEF AdvanceStage, GateInv
  <2>2. to \in EarlyStages => stage[id] \in EarlyStages
    BY <2>1, StagesAssumption DEF RmaStages, EarlyStages
  <2>3. QED
    BY <1>1, <1>4, <2>1, <2>2, StagesAssumption DEF AdvanceStage, GateInv
<1>5. ASSUME NEW id \in RmaIds, NEW actor \in Actors, StartSettle(id, actor) PROVE GateInv'
  <2>1. stage[id] = "inspected" /\ 1 \in LineNumbers(id)
    <3>1. stage[id] # None /\ stage[id] = "inspected"
      BY <1>5, StagesAssumption DEF StartSettle, RmaStages
    <3>2. QED
      BY <3>1, LineNumbersType DEF GateInv
  <2>2. QED
    BY <1>1, <1>5, <2>1 DEF StartSettle, GateInv, LineNumbers
<1>6. ASSUME NEW at \in Times, SettleLine(at) PROVE GateInv'
  <2> PICK id0, i0 : id0 = settling.rma /\ i0 = settling.line
    OBVIOUS
  <2> DEFINE n == Len(Rmas[id0].lines)
  <2>1. /\ settling \in [rma : RmaIds, line : Nat, actor : Actors]
        /\ id0 \in RmaIds /\ i0 \in Nat /\ stage[id0] = "inspected"
        /\ i0 \in LineNumbers(id0)
        /\ \A i \in 1..(i0 - 1) : i \in SettledOf(id0)
        /\ n \in Nat /\ LineNumbers(id0) = 1..n
    BY <1>6, LineNumbersType DEF SettleLine, GateInv
  <2>2. /\ Typed'
        /\ \A id \in RmaIds : SettledOf(id) \subseteq SettledOf(id)'
        /\ \A id \in RmaIds : id # id0 => SettledOf(id)' = SettledOf(id)
        /\ (LineSettled /\ i0 \in SettledOf(id0)') \/ SettleEnds
    BY <1>6, SettleLineEffect
  <2>3. \A id \in RmaIds : SettledOf(id)' \subseteq LineNumbers(id)
    BY DEF SettledOf, LineNumbers, RmaIds
  <2>4. "inspected" \notin EarlyStages /\ "refunded" \notin EarlyStages
    BY StagesAssumption DEF EarlyStages, RmaStages
  <2>5. ASSUME stage' = stage, NEW id \in RmaIds
        PROVE  /\ stage'[id] = "refunded" => SettledOf(id)' = LineNumbers(id)
               /\ stage'[id] \in EarlyStages => SettledOf(id)' = {}
    BY <2>1, <2>2, <2>4, <2>5 DEF GateInv
  <2>6. CASE SettleEnds
    BY <2>2, <2>5, <2>6 DEF SettleEnds, GateInv
  <2>7. CASE LineSettled /\ i0 \in SettledOf(id0)' /\ i0 < n
    <3>1. stage' = stage /\ settling' = [settling EXCEPT !.line = i0 + 1]
      BY <2>7 DEF LineSettled
    <3>2. \A i \in 1..i0 : i \in SettledOf(id0)'
      BY <2>1, <2>2, <2>7
    <3>3. /\ settling' \in [rma : RmaIds, line : Nat, actor : Actors]
          /\ settling'.rma = id0 /\ settling'.line = i0 + 1
      BY <2>1, <3>1
    <3>4. i0 + 1 \in 1..n /\ (i0 + 1) - 1 = i0
      BY <2>1, <2>7
    <3> HIDE DEF n
    <3>5. QED
      BY <2>1, <2>2, <2>5, <3>1, <3>2, <3>3, <3>4 DEF GateInv
  <2>8. CASE LineSettled /\ i0 \in SettledOf(id0)' /\ ~(i0 < n)
    <3>1. settling' = Idle /\ stage' = [stage EXCEPT ![id0] = "refunded"]
      BY <2>8 DEF LineSettled
    <3>2. SettledOf(id0)' = LineNumbers(id0)
      <4>1. \A i \in 1..n : i = i0 \/ i \in 1..(i0 - 1)
        <5> HIDE DEF n
        <5>1. QED
          BY <2>1, <2>8
      <4>2. \A i \in 1..n : i \in SettledOf(id0)'
        BY <2>1, <2>2, <2>8, <4>1
      <4>3. QED
        BY <2>1, <2>3, <4>2
    <3>3. ASSUME NEW id \in RmaIds
          PROVE  /\ stage'[id] = "refunded" => SettledOf(id)' = LineNumbers(id)
                 /\ stage'[id] \in EarlyStages => SettledOf(id)' = {}
      BY <2>1, <2>2, <2>4, <3>1, <3>2 DEF GateInv
    <3>4. QED
      BY <2>1, <2>2, <3>1, <3>3 DEF GateInv, RmaStages
  <2>9. QED
    BY <2>2, <2>6, <2>7, <2>8
<1>7. QED
  BY <1>2, <1>3, <1>4, <1>5, <1>6 DEF ReturnsNext

\* A return is closed as refunded only with every line settled, and until its goods are
\* inspected none is, however settle() calls of several returns fail and are repeated.
THEOREM ReturnsGateMoney == ReturnsSpec => []StagesGateMoney
<1>1. GateInv => StagesGateMoney
  BY SettledLinesOf DEF GateInv, StagesGateMoney, EarlyStages
<1>2. QED
  BY <1>1, InitGate, NextGate, PTL DEF ReturnsSpec

\* The settled lines on a commitment in a currency, and what they were settled for.
LinesOn(c, m) ==
  {l \in SettledLines : /\ Rmas[l[1]].lines[l[2]].line = c
                        /\ Rmas[l[1]].lines[l[2]].amount.currency = m}
AmountsOn(c, m) == [l \in LinesOn(c, m) |-> Rmas[l[1]].lines[l[2]].amount.amount]

\* Each settled line is paid for once: SettledLines grows by one line at a time, and
\* only with the payback of that line.
PaidInv == GateInv /\ IsFiniteSet(SettledLines) /\ PaidIsWhatWasSettled

\* A verdict on a line changes nothing of the keys and the paybacks, or records the
\* key of that line for the first time and pays it back.
LEMMA SettleLinePays ==
  ASSUME GateInv, NEW at \in Times, SettleLine(at),
         NEW id0, id0 = settling.rma, NEW i0, i0 = settling.line
  PROVE  \/ UNCHANGED <<applied, paid>>
         \/ /\ LineKey(id0, i0) \notin applied
            /\ applied' = applied \cup {LineKey(id0, i0)}
            /\ PayBack(LineRefund(id0, i0, settling.actor))
<1> DEFINE a == LineRefund(id0, i0, settling.actor)
<1>1. /\ id0 \in RmaIds /\ i0 \in LineNumbers(id0) /\ settling.actor \in Actors
      /\ Typed
  BY DEF GateInv, SettleLine
<1>2. Proposable(a) /\ ActionKey(a) = LineKey(id0, i0) /\ a.to.type = "Refunded"
  BY <1>1, LineRefundType DEF LineRefund
<1>3. CASE Replay(a) \/ Reject(a, None, at) \/ RefundThrows(a, None, at)
  BY <1>3 DEF Replay, Reject, RefundThrows, vars
<1>4. CASE RefundInPart(a, None) \/ RefundInFull(a, None, at) \/ Advance(a, None, at)
  BY <1>2, <1>4 DEF RefundInPart, RefundInFull, Advance, RecordKey, Fresh, IsReplay
<1>5. QED
  BY <1>3, <1>4 DEF SettleLine

LEMMA LinesOnType ==
  ASSUME NEW l \in SettledLines
  PROVE  /\ l = <<l[1], l[2]>> /\ l[1] \in RmaIds /\ l[2] \in LineNumbers(l[1])
         /\ LineKey(l[1], l[2]) \in applied
         /\ Rmas[l[1]].lines[l[2]].amount.amount \in Nat
<1>1. /\ l = <<l[1], l[2]>> /\ l[1] \in RmaIds /\ l[2] \in LineNumbers(l[1])
      /\ LineKey(l[1], l[2]) \in applied
  BY DEF SettledLines, LineKey
<1>2. PICK p \in Actors : TRUE
  BY RequestsAssumption
<1>3. QED
  BY <1>1, <1>2, LineRefundType

\* Every line of every return.
AllLines == UNION {{<<id, i>> : i \in LineNumbers(id)} : id \in RmaIds}

LEMMA AllLinesAre ==
  \A l : l \in AllLines <=> \E id \in RmaIds : \E i \in LineNumbers(id) : l = <<id, i>>
<1> DEFINE L(id) == {<<id, i>> : i \in LineNumbers(id)}
<1>1. \A id \in RmaIds : \A l : l \in L(id) <=> \E i \in LineNumbers(id) : l = <<id, i>>
  OBVIOUS
<1>2. AllLines = UNION {L(id) : id \in RmaIds}
  BY DEF AllLines
<1> HIDE DEF L
<1>3. \A l : l \in UNION {L(id) : id \in RmaIds} <=> \E id \in RmaIds : l \in L(id)
  OBVIOUS
<1>4. QED
  BY <1>1, <1>2, <1>3

LEMMA SettledLinesAre ==
  \A l : l \in SettledLines <=> \E id \in RmaIds : \E i \in LineNumbers(id) :
                                 l = <<id, i>> /\ LineKey(id, i) \in applied
<1>1. SettledLines = {l \in AllLines : LineKey(l[1], l[2]) \in applied}
  BY DEF SettledLines, AllLines, LineKey
<1>2. QED
  BY <1>1, AllLinesAre

\* One more line is settled, and paid back.
LEMMA OneMoreLine ==
  ASSUME DistinctLines, PaidInv, NEW id0 \in RmaIds, NEW i0 \in LineNumbers(id0),
         LineKey(id0, i0) \notin applied, applied' = applied \cup {LineKey(id0, i0)},
         NEW p \in Actors, PayBack(LineRefund(id0, i0, p))
  PROVE  IsFiniteSet(SettledLines)' /\ PaidIsWhatWasSettled'
<1> DEFINE x == <<id0, i0>>
           c0 == Rmas[id0].lines[i0].line
           m0 == Rmas[id0].lines[i0].amount.currency
           n0 == Rmas[id0].lines[i0].amount.amount
<1>1. SettledLines' = SettledLines \cup {x} /\ x \notin SettledLines
  <2>1. \A id \in RmaIds : \A i \in LineNumbers(id) :
          LineKey(id, i) = LineKey(id0, i0) => <<id, i>> = x
    BY LineKeysDiffer DEF DistinctLines
  <2>2. \A l : l \in SettledLines <=> \E id \in RmaIds : \E i \in LineNumbers(id) :
                                       l = <<id, i>> /\ LineKey(id, i) \in applied
    BY SettledLinesAre
  <2>3. \A l : l \in SettledLines' <=> \E id \in RmaIds : \E i \in LineNumbers(id) :
                                        l = <<id, i>> /\ LineKey(id, i) \in applied'
    <3>1. SettledLines' = {l \in AllLines : LineKey(l[1], l[2]) \in applied'}
      BY DEF SettledLines, AllLines, LineKey, RmaIds, LineNumbers
    <3>2. QED
      BY <3>1, AllLinesAre
  <2>4. x \notin SettledLines
    BY <2>2
  <2>5. \A l : l \in SettledLines' <=> l \in SettledLines \/ l = x
    BY <2>1, <2>2, <2>3
  <2>6. QED
    BY <2>4, <2>5
<1>2. IsFiniteSet(SettledLines)'
  <2>1. IsFiniteSet(SettledLines \cup {x})
    BY FS_AddElement DEF PaidInv
  <2>2. IsFiniteSet(SettledLines')
    BY <1>1, <2>1
  <2>3. QED
    BY <2>2
<1>3. /\ n0 \in Nat
      /\ paid' = [paid EXCEPT ![c0][m0] = @ + n0]
      /\ Typed
  BY LineRefundType DEF PayBack, LineRefund, PaidInv, GateInv
<1>4. ASSUME NEW c \in Commitments, NEW m \in Currencies
      PROVE  paid'[c][m] = SumFunctionOnSet(AmountsOn(c, m)', LinesOn(c, m)')
  <2>1. /\ IsFiniteSet(LinesOn(c, m)) /\ x \notin LinesOn(c, m)
        /\ \A l \in LinesOn(c, m) : Rmas[l[1]].lines[l[2]].amount.amount \in Nat
    <3>1. LinesOn(c, m) \subseteq SettledLines
      BY DEF LinesOn
    <3>2. QED
      BY <1>1, <3>1, LinesOnType, FS_Subset DEF PaidInv
  <2>2. paid[c][m] = SumFunctionOnSet(AmountsOn(c, m), LinesOn(c, m)) /\ paid[c][m] \in Nat
    BY <1>3 DEF PaidInv, PaidIsWhatWasSettled, LinesOn, AmountsOn, Typed
  <2>3. CASE c = c0 /\ m = m0
    <3>1. LinesOn(c, m)' = LinesOn(c, m) \cup {x}
      BY <1>1, <2>3 DEF LinesOn
    <3>2. AmountsOn(c, m)' = [l \in LinesOn(c, m) \cup {x} |-> Rmas[l[1]].lines[l[2]].amount.amount]
      BY <3>1 DEF AmountsOn, LinesOn
    <3> DEFINE S == LinesOn(c, m)
               f == [l \in S \cup {x} |-> Rmas[l[1]].lines[l[2]].amount.amount]
    <3>3. (\A l \in S \cup {x} : f[l] \in Int) /\ f[x] = n0
      <4>1. Rmas[x[1]].lines[x[2]].amount.amount = n0
        OBVIOUS
      <4>2. f[x] = Rmas[x[1]].lines[x[2]].amount.amount
        OBVIOUS
      <4>3. \A l \in S : f[l] = Rmas[l[1]].lines[l[2]].amount.amount
        OBVIOUS
      <4>0. n0 \in Nat
        BY <1>3
      <4> HIDE DEF f, n0, x
      <4>4. f[x] \in Int
        BY <4>0, <4>1, <4>2
      <4>5. \A l \in S : f[l] \in Int
        BY <2>1, <4>3
      <4>6. QED
        BY <4>1, <4>2, <4>4, <4>5, Zenon
    <3>4. SumFunctionOnSet(f, S) = SumFunctionOnSet(AmountsOn(c, m), S)
      <4>1. \A l \in S : f[l] = AmountsOn(c, m)[l]
        BY DEF AmountsOn
      <4> HIDE DEF S, f
      <4>2. QED
        BY <2>1, <4>1, SumCongruent DEF S
    <3>5. SumFunctionOnSet(f, S \cup {x}) = f[x] + SumFunctionOnSet(f, S)
      <4> HIDE DEF f, x
      <4>1. QED
        BY <2>1, <3>3, SumInsert
    <3>6. paid'[c][m] = paid[c][m] + n0
      BY <1>3, <2>3 DEF Typed
    <3>7. SumFunctionOnSet(AmountsOn(c, m)', LinesOn(c, m)') = SumFunctionOnSet(f, S \cup {x})
      BY <3>1, <3>2
    <3>8. SumFunctionOnSet(f, S) = paid[c][m]
      BY <2>2, <3>4
    <3> HIDE DEF f, S, n0, x
    <3>9. SumFunctionOnSet(AmountsOn(c, m)', LinesOn(c, m)') = n0 + paid[c][m]
      BY <3>3, <3>5, <3>7, <3>8
    <3>10. QED
      <4> DEFINE y == SumFunctionOnSet(AmountsOn(c, m)', LinesOn(c, m)')
                 z == paid'[c][m]
                 u == paid[c][m]
      <4>1. y = n0 + u /\ z = u + n0 /\ u \in Nat /\ n0 \in Nat
        BY <1>3, <2>2, <3>6, <3>9
      <4> HIDE DEF y, z, u
      <4>2. y = z
        BY <4>1
      <4>3. QED
        BY <4>2 DEF y, z
  <2>4. CASE ~(c = c0 /\ m = m0)
    <3>1. LinesOn(c, m)' = LinesOn(c, m)
      BY <1>1, <2>4 DEF LinesOn
    <3>2. AmountsOn(c, m)' = AmountsOn(c, m)
      BY <3>1 DEF AmountsOn, LinesOn
    <3>3. paid'[c][m] = paid[c][m]
      BY <1>3, <2>4 DEF Typed
    <3>4. QED
      BY <2>2, <3>1, <3>2, <3>3
  <2>5. QED
    BY <2>3, <2>4
<1>5. PaidIsWhatWasSettled'
  BY <1>4 DEF PaidIsWhatWasSettled, AmountsOn, LinesOn
<1>6. QED
  BY <1>2, <1>5

LEMMA NextPaid ==
  ASSUME DistinctLines, PaidInv, [ReturnsNext]_returnsVars
  PROVE  PaidInv'
<1>1. GateInv'
  BY NextGate DEF PaidInv
<1>2. ASSUME UNCHANGED <<applied, paid>> PROVE PaidInv'
  <2>1. SettledLines' = SettledLines
    BY <1>2 DEF SettledLines, RmaIds, LineNumbers
  <2>2. QED
    BY <1>1, <1>2, <2>1 DEF PaidInv, PaidIsWhatWasSettled
<1>3. CASE UNCHANGED vars
  BY <1>2, <1>3 DEF vars
<1>4. ASSUME NEW at \in Times, SettleLine(at) PROVE PaidInv'
  <2> PICK id0, i0, p : id0 = settling.rma /\ i0 = settling.line /\ p = settling.actor
    OBVIOUS
  <2>1. id0 \in RmaIds /\ i0 \in LineNumbers(id0) /\ p \in Actors
    BY <1>4 DEF PaidInv, GateInv, SettleLine
  <2>2. CASE UNCHANGED <<applied, paid>>
    BY <1>2, <2>2
  <2>3. CASE /\ LineKey(id0, i0) \notin applied
             /\ applied' = applied \cup {LineKey(id0, i0)}
             /\ PayBack(LineRefund(id0, i0, p))
    BY <1>1, <2>1, <2>3, OneMoreLine DEF PaidInv
  <2>4. QED
    BY <1>4, <2>2, <2>3, SettleLinePays DEF PaidInv
<1>5. QED
  BY <1>3, <1>4 DEF ReturnsNext, returnsVars, Open, AdvanceStage, StartSettle

LEMMA InitPaid == ReturnsInit => PaidInv
<1> SUFFICES ASSUME ReturnsInit PROVE PaidInv
  OBVIOUS
<1>1. SettledLines = {}
  BY DEF ReturnsInit, Init, SettledLines
<1>2. PaidIsWhatWasSettled
  <2> SUFFICES ASSUME NEW c \in Commitments, NEW m \in Currencies
               PROVE  paid[c][m] = SumFunctionOnSet(AmountsOn(c, m), LinesOn(c, m))
    BY DEF PaidIsWhatWasSettled, AmountsOn, LinesOn
  <2>1. LinesOn(c, m) = {}
    BY <1>1 DEF LinesOn
  <2>2. QED
    BY <2>1, SumEmpty DEF ReturnsInit, Init
<1>3. QED
  BY <1>1, <1>2, InitGate, FS_EmptySet DEF PaidInv

\* What is paid back is exactly what the settled lines come to, when every return names
\* each part of its order once.  (Two lines of one return on one part share a key: the
\* second is answered as a replay, and what it asked for is never paid.)
THEOREM ReturnsPayOnce ==
  ASSUME DistinctLines
  PROVE  ReturnsSpec => []PaidIsWhatWasSettled
<1>1. PaidInv /\ [ReturnsNext]_returnsVars => PaidInv'
  BY NextPaid
<1>2. PaidInv => PaidIsWhatWasSettled
  BY DEF PaidInv
<1>3. QED
  BY <1>1, <1>2, InitPaid, PTL DEF ReturnsSpec

-----------------------------------------------------------------------------
(* Window.                                                                 *)

Measured == [at : Instants, amount : Nat]
AmountsIn(c) == [i \in Entries(c) |-> refunds[c][i].amount]
SpanFrom(c, from) == {i \in Entries(c) : refunds[c][i].at \in from..(from + window.size)}
RunTo(n) == {i \in 1..n : i > n - window.size}
BelowCap(total) == total < Cap.amount + Eps

\* NoBurstInAnySpan and NoBurstInAnyRun for one commitment.
SpansBelow(c) ==
  window.kind = "time" =>
    \A from \in Instants : BelowCap(SumFunctionOnSet(AmountsIn(c), SpanFrom(c, from)))
RunsBelow(c) ==
  window.kind = "count" =>
    \A n \in Entries(c) : BelowCap(SumFunctionOnSet(AmountsIn(c), RunTo(n)))

WindowType ==
  /\ Typed
  /\ window \in Windows
  /\ refunds \in [Commitments -> Seq(Measured)]
  /\ admitted \subseteq applied

\* A key the window has seen is one the session has applied: that is what makes a
\* refund it lets pass unmeasured a replay.
WindowInv ==
  /\ WindowType
  /\ WindowSeesEveryRefund
  /\ \A c \in Commitments : SpansBelow(c) /\ RunsBelow(c)

LEMMA EntriesType ==
  ASSUME WindowType, NEW c \in Commitments
  PROVE  /\ Len(refunds[c]) \in Nat /\ Entries(c) = 1..Len(refunds[c])
         /\ IsFiniteSet(Entries(c))
         /\ \A i \in Entries(c) : refunds[c][i] \in Measured /\ AmountsIn(c)[i] \in Nat
<1>1. refunds[c] \in Seq(Measured)
  BY DEF WindowType
<1>2. Len(refunds[c]) \in Nat /\ Entries(c) = 1..Len(refunds[c])
  BY <1>1, LenProperties DEF Entries
<1>3. \A i \in Entries(c) : refunds[c][i] \in Measured
  BY <1>1, <1>2, ElementOfSeq
<1>4. IsFiniteSet(Entries(c))
  BY <1>2, FS_Interval
<1>5. ASSUME NEW i \in Entries(c) PROVE AmountsIn(c)[i] \in Nat
  <2>1. refunds[c][i] \in [at : Instants, amount : Nat]
    BY <1>3 DEF Measured
  <2>2. refunds[c][i].amount \in Nat
    BY <2>1
  <2>3. AmountsIn(c)[i] = refunds[c][i].amount
    BY DEF AmountsIn
  <2>4. QED
    BY <2>2, <2>3
<1>6. \A i \in Entries(c) : refunds[c][i] \in Measured /\ AmountsIn(c)[i] \in Nat
  BY <1>3, <1>5
<1>7. QED
  BY <1>2, <1>4, <1>6

\* A refund enters the window of a commitment: it is checked against what the window
\* holds, appended, and paid back.
Enters(c, at, amount) ==
  /\ refunds' = [refunds EXCEPT ![c] = Append(@, [at |-> at, amount |-> amount])]
  /\ ~ExceedsCap(SumOf(c, Prior(c, at)) + amount)
  /\ paid'[c][Cap.currency] = paid[c][Cap.currency] + amount
  /\ \A d \in Commitments \ {c} : paid'[d][Cap.currency] = paid[d][Cap.currency]

\* Nothing enters, and nothing in the cap's currency is paid back.
NothingEnters ==
  /\ UNCHANGED refunds
  /\ \A c \in Commitments : paid'[c][Cap.currency] = paid[c][Cap.currency]

\* Only a refund in the cap's currency pays any of it back.
LEMMA PayBackInCap ==
  ASSUME Typed, NEW a, Proposable(a), a.commitment \in Commitments, a.to.type = "Refunded",
         PayBack(a)
  PROVE  /\ a.to.amount.amount \in Nat
         /\ a.to.amount.currency = Cap.currency =>
              paid'[a.commitment][Cap.currency]
                = paid[a.commitment][Cap.currency] + a.to.amount.amount
         /\ a.to.amount.currency # Cap.currency =>
              paid'[a.commitment][Cap.currency] = paid[a.commitment][Cap.currency]
         /\ \A d \in Commitments \ {a.commitment} : paid'[d][Cap.currency] = paid[d][Cap.currency]
<1>1. a.to.amount.amount \in Nat /\ a.to.amount.currency \in Currencies
  BY ProposableType DEF Money
<1>2. Cap.currency \in Currencies
  BY WindowAssumption DEF Money
<1>3. paid' = [paid EXCEPT ![a.commitment] =
                 [paid[a.commitment] EXCEPT ![a.to.amount.currency] = @ + a.to.amount.amount]]
  BY DEF PayBack
<1>4. paid \in [Commitments -> [Currencies -> Nat]]
  BY DEF Typed
<1>5. paid'[a.commitment] = [paid[a.commitment] EXCEPT ![a.to.amount.currency] = @ + a.to.amount.amount]
  BY <1>3, <1>4
<1>6. \A d \in Commitments \ {a.commitment} : paid'[d] = paid[d]
  BY <1>3, <1>4
<1>7. paid[a.commitment] \in [Currencies -> Nat]
  BY <1>4
<1>8. QED
  BY <1>1, <1>2, <1>5, <1>6, <1>7

LEMMA WindowStep ==
  ASSUME WindowType, [WindowNext]_windowVars
  PROVE  /\ Typed' /\ window' = window /\ admitted' \subseteq applied'
         /\ \/ NothingEnters
            \/ \E c \in Commitments, t \in Instants, n \in Nat : Enters(c, t, n)
<1>1. CASE UNCHANGED windowVars
  BY <1>1 DEF windowVars, vars, WindowType, Typed, NothingEnters
<1>2. ASSUME NEW a \in Requests, NEW expected, NEW at \in Times, NEW t \in Instants,
             RejectBurst(a, t) \/ Delegate(a, expected, at, t)
      PROVE  /\ Typed' /\ window' = window /\ admitted' \subseteq applied'
             /\ \/ NothingEnters
                \/ \E c \in Commitments, u \in Instants, n \in Nat : Enters(c, u, n)
  <2>1. Proposable(a)
    BY RequestType
  <2>2. CASE RejectBurst(a, t)
    BY <2>2 DEF RejectBurst, windowVars, vars, WindowType, Typed, NothingEnters
  <2>3. CASE Delegate(a, expected, at, t)
    <3>1. window' = window /\ Typed'
      BY <1>2, <2>1, <2>3, NextType DEF Delegate, Proposes, Propose, WindowType
    <3>2. CASE UNCHANGED <<refunds, admitted>> /\
               (Replay(a) \/ Conflict(a, expected) \/ Reject(a, expected, at)
                \/ RefundThrows(a, expected, at))
      BY <3>1, <3>2 DEF Replay, Conflict, Reject, RefundThrows, vars, NothingEnters, WindowType
    <3>3. CASE /\ RefundInPart(a, expected) \/ RefundInFull(a, expected, at)
                  \/ Advance(a, expected, at)
               /\ IF Windowed(a) THEN Enter(a, t) ELSE UNCHANGED <<refunds, admitted>>
      <4>1. /\ ActionKey(a) \notin applied /\ applied' = applied \cup {ActionKey(a)}
            /\ a.commitment \in Commitments
            /\ IF a.to.type = "Refunded" THEN PayBack(a) ELSE UNCHANGED paid
        <5>1. CASE RefundInPart(a, expected) \/ RefundInFull(a, expected, at)
          BY <5>1 DEF RefundInPart, RefundInFull, RecordKey, Fresh, IsReplay, Refundable,
                      Tracked, Known
        <5>2. CASE Advance(a, expected, at)
          BY <5>2, <1>2 DEF Advance, RecordKey, Fresh, IsReplay, Accepting, GuardAccepts
        <5>3. QED
          BY <3>3, <5>1, <5>2
      <4>2. CASE Windowed(a)
        <5>1. Enter(a, t) /\ ~ExceedsCap(SumOf(a.commitment, Prior(a.commitment, t)) + a.to.amount.amount)
          BY <2>3, <3>3, <4>1, <4>2 DEF Delegate, Burst, Known
        <5>2. Enters(a.commitment, t, a.to.amount.amount) /\ a.to.amount.amount \in Nat
          BY <2>1, <4>1, <4>2, <5>1, PayBackInCap DEF Enters, Enter, Windowed, WindowType
        <5>3. QED
          BY <3>1, <4>1, <5>1, <5>2 DEF Enter, WindowType
      <4>3. CASE ~Windowed(a)
        <5>1. UNCHANGED <<refunds, admitted>>
          BY <3>3, <4>3
        <5>2. a.to.type # "Refunded" \/ a.to.amount.currency # Cap.currency
          BY <4>1, <4>3 DEF Windowed, WindowType
        <5>3. NothingEnters
          BY <2>1, <4>1, <5>1, <5>2, PayBackInCap DEF NothingEnters, WindowType
        <5>4. QED
          BY <3>1, <4>1, <5>1, <5>3 DEF WindowType
      <4>4. QED
        BY <4>2, <4>3
    <3>4. QED
      BY <2>3, <3>2, <3>3 DEF Delegate
  <2>4. QED
    BY <1>2, <2>2, <2>3
<1>3. QED
  BY <1>1, <1>2 DEF WindowNext, ProposeInWindow

\* The new entry is the last one; the others stay what they were.
EntersAs(c, t, n, k) ==
  /\ k \in Nat \ {0} /\ k \notin Entries(c)
  /\ Entries(c)' = Entries(c) \cup {k} /\ Entries(c) = 1..(k - 1)
  /\ refunds' \in [Commitments -> Seq(Measured)]
  /\ Len(refunds'[c]) = k /\ refunds'[c][k] = [at |-> t, amount |-> n]
  /\ \A i \in Entries(c) : refunds'[c][i] = refunds[c][i]
  /\ \A d \in Commitments \ {c} : refunds'[d] = refunds[d]

LEMMA EntersAtEnd ==
  ASSUME WindowType, NEW c \in Commitments, NEW t \in Instants, NEW n \in Nat, Enters(c, t, n),
         NEW k, k = Len(refunds[c]) + 1
  PROVE  EntersAs(c, t, n, k)
<1> DEFINE e == [at |-> t, amount |-> n]
           s == refunds[c]
<1>1. e \in Measured
  BY DEF Measured
<1>2. /\ refunds \in [Commitments -> Seq(Measured)] /\ s \in Seq(Measured)
      /\ refunds' = [refunds EXCEPT ![c] = Append(s, e)]
  BY DEF WindowType, Enters
<1>3. refunds'[c] = Append(s, e) /\ \A d \in Commitments \ {c} : refunds'[d] = refunds[d]
  BY <1>2
<1>4. Len(s) \in Nat /\ Entries(c) = 1..Len(s)
  BY EntriesType
<1> HIDE DEF e, s
<1>5. /\ Append(s, e) \in Seq(Measured) /\ Len(Append(s, e)) = k
      /\ \A i \in 1..Len(s) : Append(s, e)[i] = s[i]
      /\ Append(s, e)[k] = e
  BY <1>1, <1>2, <1>4, AppendProperties DEF s
<1>6. refunds' \in [Commitments -> Seq(Measured)]
  BY <1>2, <1>5
<1>7. DOMAIN refunds'[c] = 1..k
  BY <1>3, <1>5, LenProperties
<1>8. k \in Nat \ {0} /\ k \notin 1..Len(s) /\ 1..k = (1..Len(s)) \cup {k} /\ Len(s) = k - 1
  BY <1>4 DEF s
<1>9. QED
  BY <1>3, <1>4, <1>5, <1>6, <1>7, <1>8 DEF EntersAs, Entries, e, s

\* Sums over earlier entries stay; the new entry adds its amount to them.
LEMMA EntersInSum ==
  ASSUME WindowType, NEW c \in Commitments, NEW t \in Instants, NEW n \in Nat, Enters(c, t, n),
         NEW k, k = Len(refunds[c]) + 1, NEW S \in SUBSET Entries(c)
  PROVE  /\ SumFunctionOnSet(AmountsIn(c), S) \in Nat
         /\ SumFunctionOnSet(AmountsIn(c)', S) = SumFunctionOnSet(AmountsIn(c), S)
         /\ SumFunctionOnSet(AmountsIn(c)', S \cup {k}) = n + SumFunctionOnSet(AmountsIn(c), S)
<1> DEFINE f == AmountsIn(c)
           g == AmountsIn(c)'
<1>1. IsFiniteSet(S) /\ k \notin S /\ \A i \in S : f[i] \in Nat
  BY EntriesType, EntersAtEnd, FS_Subset DEF EntersAs
<1>2. g[k] = n /\ \A i \in S : g[i] = f[i]
  <2>1. g = [i \in Entries(c) \cup {k} |-> refunds'[c][i].amount]
    BY EntersAtEnd DEF AmountsIn, EntersAs
  <2>2. refunds'[c][k] = [at |-> t, amount |-> n] /\ \A i \in S : refunds'[c][i] = refunds[c][i]
    BY EntersAtEnd DEF EntersAs
  <2>3. f = [i \in Entries(c) |-> refunds[c][i].amount]
    BY DEF AmountsIn
  <2> HIDE DEF f, g
  <2>4. QED
    BY <2>1, <2>2, <2>3
<1> HIDE DEF f, g
<1>3. SumFunctionOnSet(f, S) \in Nat
  BY <1>1, SumNat
<1>4. SumFunctionOnSet(g, S) = SumFunctionOnSet(f, S)
  BY <1>1, <1>2, SumCongruent
<1>5. \A i \in S \cup {k} : g[i] \in Int
  BY <1>1, <1>2
<1>6. SumFunctionOnSet(g, S \cup {k}) = g[k] + SumFunctionOnSet(g, S)
  BY <1>1, <1>5, SumInsert
<1>7. QED
  BY <1>2, <1>3, <1>4, <1>6 DEF f, g

\* What exceedsCap lets pass leaves the window under the cap plus the tolerance.
LEMMA CapBound ==
  ASSUME NEW total \in Nat, ~ExceedsCap(total) PROVE BelowCap(total)
<1>1. Cap.amount \in Nat /\ Eps \in Nat \ {0}
  BY WindowAssumption, MoneyAssumption DEF Money
<1>2. QED
  BY <1>1 DEF ExceedsCap, MoneyEquals, BelowCap

LEMMA PriorType ==
  ASSUME WindowType, NEW c \in Commitments, NEW t \in Instants
  PROVE  /\ Prior(c, t) \in SUBSET Entries(c)
         /\ SumOf(c, Prior(c, t)) = SumFunctionOnSet(AmountsIn(c), Prior(c, t))
BY DEF Prior, LastOf, SumOf, AmountsIn

\* The refund that enters is paid back, so the window holds what was paid back.
LEMMA NextSees ==
  ASSUME WindowType, WindowSeesEveryRefund, [WindowNext]_windowVars
  PROVE  WindowSeesEveryRefund'
<1>1. CASE NothingEnters
  BY <1>1 DEF NothingEnters, WindowSeesEveryRefund, SumOf, Entries
<1>2. ASSUME NEW c \in Commitments, NEW t \in Instants, NEW n \in Nat, Enters(c, t, n)
      PROVE  WindowSeesEveryRefund'
  <2>1. PICK k : k = Len(refunds[c]) + 1
    OBVIOUS
  <2> SUFFICES ASSUME NEW d \in Commitments PROVE SumOf(d, Entries(d))' = paid'[d][Cap.currency]
    BY DEF WindowSeesEveryRefund
  <2> DEFINE f == SumFunctionOnSet(AmountsIn(d), Entries(d))
  <2>2. paid[d][Cap.currency] = f
    BY DEF WindowSeesEveryRefund, SumOf, AmountsIn
  <2>3. SumOf(d, Entries(d))' = SumFunctionOnSet(AmountsIn(d)', Entries(d)')
    BY DEF SumOf, AmountsIn
  <2>4. CASE d # c
    <3>1. refunds'[d] = refunds[d] /\ paid'[d][Cap.currency] = paid[d][Cap.currency]
      BY <1>2, <2>1, <2>4, EntersAtEnd DEF EntersAs, Enters
    <3>2. AmountsIn(d)' = AmountsIn(d) /\ Entries(d)' = Entries(d)
      BY <3>1 DEF AmountsIn, Entries
    <3>3. QED
      BY <2>2, <2>3, <3>1, <3>2
  <2>5. CASE d = c
    <3>1. Entries(d)' = Entries(d) \cup {k}
      BY <1>2, <2>1, <2>5, EntersAtEnd DEF EntersAs
    <3>2. SumFunctionOnSet(AmountsIn(d)', Entries(d) \cup {k}) = n + f /\ f \in Nat
      BY <1>2, <2>1, <2>5, EntersInSum
    <3>3. paid'[d][Cap.currency] = f + n
      BY <1>2, <2>2, <2>5 DEF Enters
    <3> HIDE DEF f
    <3>4. n + f = f + n
      BY <3>2
    <3>5. QED
      BY <2>3, <3>1, <3>2, <3>3, <3>4
  <2>6. QED
    BY <2>4, <2>5
<1>3. QED
  BY <1>1, <1>2, WindowStep

\* A span the new refund falls in ends no later than a window's length after it, so all
\* it held before is what the check looked back at.
LEMMA EntersSpan ==
  ASSUME WindowType, window' = window, window.kind = "time",
         NEW c \in Commitments, SpansBelow(c),
         NEW t \in Instants, NEW n \in Nat, Enters(c, t, n)
  PROVE  SpansBelow(c)'
<1> SUFFICES ASSUME NEW from \in Instants
             PROVE  BelowCap(SumFunctionOnSet(AmountsIn(c)', SpanFrom(c, from)'))
  BY DEF SpansBelow, BelowCap
<1> PICK k : k = Len(refunds[c]) + 1
  OBVIOUS
<1> DEFINE S == SpanFrom(c, from)
           R == Prior(c, t)
<1>1. S \in SUBSET Entries(c) /\ R \in SUBSET Entries(c) /\ IsFiniteSet(R)
  BY PriorType, EntriesType, FS_Subset DEF SpanFrom
<1>2. SumFunctionOnSet(AmountsIn(c)', S) = SumFunctionOnSet(AmountsIn(c), S)
      /\ BelowCap(SumFunctionOnSet(AmountsIn(c), S))
  BY <1>1, EntersInSum DEF SpansBelow
<1>3. from \in Nat /\ t \in Nat /\ window.size \in Nat
  BY WindowAssumption DEF WindowType
<1>7. /\ SpanFrom(c, from)' = {i \in Entries(c) \cup {k} :
                                refunds'[c][i].at \in from..(from + window.size)}
      /\ refunds'[c][k].at = t
      /\ \A i \in Entries(c) : refunds'[c][i] = refunds[c][i]
  <2>1. Entries(c)' = Entries(c) \cup {k} /\ refunds'[c][k] = [at |-> t, amount |-> n]
        /\ \A i \in Entries(c) : refunds'[c][i] = refunds[c][i]
    BY EntersAtEnd DEF EntersAs
  <2>2. QED
    BY <2>1 DEF SpanFrom
<1>4. CASE t \notin from..(from + window.size)
  <2>1. SpanFrom(c, from)' = S
    BY <1>4, <1>7 DEF SpanFrom
  <2>2. QED
    BY <1>2, <2>1
<1>5. CASE t \in from..(from + window.size)
  <2>1. SpanFrom(c, from)' = S \cup {k}
    BY <1>5, <1>7 DEF SpanFrom
  <2>2. S \subseteq R
    <3>1. \A i \in Entries(c) : refunds[c][i].at \in Nat
      BY EntriesType, WindowAssumption DEF Measured
    <3>2. \A i \in S : i \in Entries(c) /\ refunds[c][i].at >= t - window.size
      BY <1>3, <1>5, <3>1 DEF SpanFrom
    <3>3. QED
      BY <3>2 DEF Prior
  <2>3. SumFunctionOnSet(AmountsIn(c), S) <= SumFunctionOnSet(AmountsIn(c), R)
    <3>1. IsFiniteSet(R) /\ S \in SUBSET R /\ \A i \in R : AmountsIn(c)[i] \in Nat
      BY <1>1, <2>2, EntriesType
    <3> HIDE DEF S, R
    <3>2. QED
      BY <3>1, SumMonotone
  <2>4. /\ SumFunctionOnSet(AmountsIn(c)', S \cup {k}) = n + SumFunctionOnSet(AmountsIn(c), S)
        /\ SumFunctionOnSet(AmountsIn(c), S) \in Nat
        /\ SumFunctionOnSet(AmountsIn(c), R) \in Nat
    <3>1. SumFunctionOnSet(AmountsIn(c), R) \in Nat
      BY <1>1, EntersInSum
    <3> HIDE DEF S, R
    <3>2. S \in SUBSET Entries(c)
      BY <1>1
    <3>3. SumFunctionOnSet(AmountsIn(c), S) \in Nat
      BY <3>2, EntersInSum
    <3>4. SumFunctionOnSet(AmountsIn(c)', S \cup {k}) = n + SumFunctionOnSet(AmountsIn(c), S)
      BY <3>2, EntersInSum
    <3>5. QED
      BY <3>1, <3>3, <3>4
  <2>5. BelowCap(SumFunctionOnSet(AmountsIn(c), R) + n)
    BY <2>4, PriorType, CapBound DEF Enters
  <2>6. Cap.amount \in Nat /\ Eps \in Nat
    BY WindowAssumption, MoneyAssumption DEF Money
  <2> DEFINE u == SumFunctionOnSet(AmountsIn(c), S)
             v == SumFunctionOnSet(AmountsIn(c), R)
  <2>7. SumFunctionOnSet(AmountsIn(c)', SpanFrom(c, from)') = n + u
    BY <2>1, <2>4
  <2>8. u \in Nat /\ v \in Nat /\ u <= v /\ v + n < Cap.amount + Eps
    BY <2>3, <2>4, <2>5 DEF BelowCap
  <2> HIDE DEF u, v
  <2>9. n + u < Cap.amount + Eps
    BY <2>6, <2>8
  <2>10. QED
    BY <2>7, <2>9 DEF BelowCap
<1>6. QED
  BY <1>4, <1>5

\* The run that ends with the new refund is that refund and what the check counted;
\* every other run ended before it.
LEMMA EntersRun ==
  ASSUME WindowType, window' = window, window.kind = "count",
         NEW c \in Commitments, RunsBelow(c),
         NEW t \in Instants, NEW n \in Nat, Enters(c, t, n)
  PROVE  RunsBelow(c)'
<1> SUFFICES ASSUME NEW e \in Entries(c)'
             PROVE  BelowCap(SumFunctionOnSet(AmountsIn(c)', RunTo(e)))
  BY DEF RunsBelow, BelowCap, RunTo
<1> PICK k : k = Len(refunds[c]) + 1
  OBVIOUS
<1> DEFINE R == Prior(c, t)
<1>1. R \in SUBSET Entries(c) /\ window.size \in Nat /\ Cap.amount \in Nat /\ Eps \in Nat \ {0}
  BY PriorType, WindowAssumption, MoneyAssumption DEF WindowType, Money
<1>2. k \in Nat \ {0} /\ Entries(c) = 1..(k - 1) /\ Entries(c)' = Entries(c) \cup {k}
      /\ Len(refunds[c]) = k - 1
  <2>0. EntersAs(c, t, n, k)
    BY EntersAtEnd, Zenon
  <2>1. k \in Nat \ {0} /\ Entries(c) = 1..(k - 1)
    BY <2>0 DEF EntersAs
  <2>4. Entries(c)' = Entries(c) \cup {k}
    BY <2>0 DEF EntersAs
  <2>2. Len(refunds[c]) \in Nat
    BY EntriesType
  <2>3. QED
    BY <2>1, <2>2, <2>4
<1>3. CASE e \in Entries(c)
  <2>1. RunTo(e) \in SUBSET Entries(c)
    BY <1>2, <1>3 DEF RunTo
  <2>2. QED
    BY <1>3, <2>1, EntersInSum DEF RunsBelow
<1>4. CASE e = k /\ window.size = 0
  <2>1. RunTo(e) = {}
    BY <1>2, <1>4 DEF RunTo
  <2>2. QED
    BY <1>1, <2>1, SumEmpty DEF BelowCap
<1>5. CASE e = k /\ window.size # 0
  <2>1. RunTo(e) = R \cup {k}
    BY <1>1, <1>2, <1>5 DEF RunTo, Prior, LastOf
  <2>2. /\ SumFunctionOnSet(AmountsIn(c)', R \cup {k}) = n + SumFunctionOnSet(AmountsIn(c), R)
        /\ SumFunctionOnSet(AmountsIn(c), R) \in Nat
    <3> HIDE DEF R
    <3>1. QED
      BY <1>1, EntersInSum
  <2>3. BelowCap(SumFunctionOnSet(AmountsIn(c), R) + n)
    BY <2>2, PriorType, CapBound DEF Enters
  <2> HIDE DEF R
  <2>4. QED
    BY <1>1, <2>1, <2>2, <2>3 DEF BelowCap
<1>6. QED
  BY <1>2, <1>3, <1>4, <1>5

LEMMA NextNoBurst ==
  ASSUME WindowInv, [WindowNext]_windowVars
  PROVE  \A c \in Commitments : SpansBelow(c)' /\ RunsBelow(c)'
<1>1. window' = window /\ WindowType /\ \A c \in Commitments : SpansBelow(c) /\ RunsBelow(c)
  BY WindowStep DEF WindowInv
<1>2. ASSUME NEW d \in Commitments, UNCHANGED refunds[d]
      PROVE  SpansBelow(d)' /\ RunsBelow(d)'
  <2>1. /\ AmountsIn(d)' = AmountsIn(d) /\ Entries(d)' = Entries(d)
        /\ \A from \in Instants : SpanFrom(d, from)' = SpanFrom(d, from)
        /\ \A n \in Entries(d) : RunTo(n)' = RunTo(n)
    BY <1>1, <1>2 DEF AmountsIn, Entries, SpanFrom, RunTo
  <2>2. QED
    BY <1>1, <2>1 DEF SpansBelow, RunsBelow, BelowCap
<1>3. ASSUME NEW c \in Commitments, NEW t \in Instants, NEW n \in Nat, Enters(c, t, n)
      PROVE  SpansBelow(c)' /\ RunsBelow(c)'
  <2>1. SpansBelow(c)'
    <3>1. CASE window.kind = "time"
      BY <1>1, <1>3, <3>1, EntersSpan
    <3>2. CASE window.kind # "time"
      BY <1>1, <3>2 DEF SpansBelow
    <3>3. QED
      BY <3>1, <3>2
  <2>2. RunsBelow(c)'
    <3>1. CASE window.kind = "count"
      BY <1>1, <1>3, <3>1, EntersRun
    <3>2. CASE window.kind # "count"
      BY <1>1, <3>2 DEF RunsBelow
    <3>3. QED
      BY <3>1, <3>2
  <2>3. QED
    BY <2>1, <2>2
<1>4. CASE NothingEnters
  BY <1>2, <1>4 DEF NothingEnters
<1>5. ASSUME NEW c \in Commitments, NEW t \in Instants, NEW n \in Nat, Enters(c, t, n)
      PROVE  \A d \in Commitments : SpansBelow(d)' /\ RunsBelow(d)'
  <2>1. \A d \in Commitments \ {c} : SpansBelow(d)' /\ RunsBelow(d)'
    <3>1. EntersAs(c, t, n, Len(refunds[c]) + 1)
      BY <1>1, <1>2, <1>5, EntersAtEnd, Zenon
    <3>2. \A d \in Commitments \ {c} : refunds'[d] = refunds[d]
      BY <3>1 DEF EntersAs
    <3>3. QED
      BY <1>1, <1>2, <3>2
  <2>2. SpansBelow(c)' /\ RunsBelow(c)'
    BY <1>3, <1>5
  <2>3. QED
    BY <2>1, <2>2
<1>6. QED
  BY <1>1, <1>4, <1>5, WindowStep

LEMMA NextWindow == WindowInv /\ [WindowNext]_windowVars => WindowInv'
<1> SUFFICES ASSUME WindowInv, [WindowNext]_windowVars PROVE WindowInv'
  OBVIOUS
<1>1. refunds' \in [Commitments -> Seq(Measured)]
  BY WindowStep, EntersAtEnd DEF WindowInv, WindowType, NothingEnters, EntersAs
<1>2. QED
  BY <1>1, WindowStep, NextSees, NextNoBurst DEF WindowInv, WindowType

LEMMA InitWindow == WindowInit => WindowInv
<1> SUFFICES ASSUME WindowInit PROVE WindowInv
  OBVIOUS
<1>1. WindowType
  BY InitType DEF WindowInit, WindowType
<1>2. \A c \in Commitments : Entries(c) = {}
  BY DEF WindowInit, Entries
<1>3. Cap.amount + Eps > 0 /\ Cap.currency \in Currencies
  BY WindowAssumption, MoneyAssumption DEF Money
<1>4. WindowSeesEveryRefund
  BY <1>2, <1>3, SumEmpty DEF WindowSeesEveryRefund, SumOf, WindowInit, Init
<1>5. \A c \in Commitments : SpansBelow(c) /\ RunsBelow(c)
  BY <1>2, <1>3, SumEmpty DEF SpansBelow, RunsBelow, SpanFrom, BelowCap
<1>6. QED
  BY <1>1, <1>4, <1>5 DEF WindowInv

\* No refund in the cap's currency escapes the window.
THEOREM WindowMeasures == WindowSpec => []WindowSeesEveryRefund
<1>1. WindowInv => WindowSeesEveryRefund
  BY DEF WindowInv
<1>2. QED
  BY <1>1, InitWindow, NextWindow, PTL DEF WindowSpec

\* The refunds of any span as long as the window stay within the cap, whatever instants
\* they are reported for and in whatever order.
THEOREM WindowCapsSpans == WindowSpec => []NoBurstInAnySpan
<1>1. WindowInv => NoBurstInAnySpan
  BY DEF WindowInv, SpansBelow, NoBurstInAnySpan, SpanFrom, SumOf, AmountsIn, BelowCap
<1>2. QED
  BY <1>1, InitWindow, NextWindow, PTL DEF WindowSpec

\* Any N consecutive refunds of a commitment stay within the cap.
THEOREM WindowCapsRuns == WindowSpec => []NoBurstInAnyRun
<1>1. WindowInv => NoBurstInAnyRun
  BY DEF WindowInv, RunsBelow, NoBurstInAnyRun, RunTo, SumOf, AmountsIn, BelowCap
<1>2. QED
  BY <1>1, InitWindow, NextWindow, PTL DEF WindowSpec

=============================================================================
