----------------------------- MODULE HostProofs -----------------------------
(***************************************************************************)
(* Theorems about the runtime that keeps an audit log of a session and     *)
(* replays it (Runtime).                                                   *)
(***************************************************************************)
EXTENDS Runtime, SessionProofs

-----------------------------------------------------------------------------
(* Runtime.                                                                *)

Logged == [action   : Requests,
           expected : {None} \cup [length : Nat, state : States],
           verdict  : Verdicts,
           seq      : Nat]

LogType == log \in Seq(Logged) /\ seq \in Nat /\ clock \in Times

\* The amounts of the entries of the log, refunds or not.
LoggedAmounts(c, m) == [i \in RefundEffects(c, m) |-> log[i].action.to.amount.amount]

OwedInv == Typed /\ LogType /\ EffectsAreWhatIsOwed

\* An entry goes to the end of the log; the others stay.
LEMMA AppendToLog ==
  ASSUME log \in Seq(Logged), NEW e \in Logged, log' = Append(log, e),
         NEW k, k = Len(log) + 1
  PROVE  /\ log' \in Seq(Logged)
         /\ DOMAIN log' = DOMAIN log \cup {k} /\ k \notin DOMAIN log
         /\ log'[k] = e
         /\ \A i \in DOMAIN log : log'[i] = log[i]
<1>1. /\ Append(log, e) \in Seq(Logged) /\ Len(Append(log, e)) = k
      /\ \A i \in 1..Len(log) : Append(log, e)[i] = log[i]
      /\ Append(log, e)[k] = e
  BY AppendProperties
<1>2. Len(log) \in Nat /\ DOMAIN log = 1..Len(log) /\ DOMAIN log' = 1..k
  BY <1>1, LenProperties
<1>3. 1..k = (1..Len(log)) \cup {k} /\ k \notin 1..Len(log)
  BY <1>2
<1>4. QED
  BY <1>1, <1>2, <1>3

LEMMA EffectsType ==
  ASSUME log \in Seq(Logged), NEW c \in Commitments, NEW m \in Currencies
  PROVE  /\ RefundEffects(c, m) \subseteq DOMAIN log /\ IsFiniteSet(RefundEffects(c, m))
         /\ \A i \in RefundEffects(c, m) : LoggedAmounts(c, m)[i] \in Nat
<1>1. DOMAIN log = 1..Len(log) /\ Len(log) \in Nat
  BY LenProperties
<1>2. RefundEffects(c, m) \subseteq 1..Len(log)
  BY <1>1 DEF RefundEffects
<1>3. IsFiniteSet(RefundEffects(c, m))
  <2>1. IsFiniteSet(1..Len(log))
    BY <1>1, FS_Interval
  <2>2. QED
    BY <1>2, <2>1, FS_Subset
<1>4. ASSUME NEW i \in RefundEffects(c, m) PROVE LoggedAmounts(c, m)[i] \in Nat
  <2>1. log[i] \in Logged
    BY <1>1, <1>2, ElementOfSeq
  <2>2. log[i].action \in Requests /\ log[i].action.to.type = "Refunded"
    BY <2>1 DEF Logged, RefundEffects
  <2>3. log[i].action.to.amount \in Money
    BY <2>2, RequestType, ProposableType
  <2>4. QED
    BY <2>3 DEF LoggedAmounts, Money
<1>5. QED
  BY <1>1, <1>2, <1>3, <1>4

\* An entry that describes no payback, while none is made.
LEMMA NothingOwed ==
  ASSUME OwedInv, NEW e \in Logged, log' = Append(log, e), paid' = paid,
         ~(e.verdict = "ok" /\ e.action.to.type = "Refunded")
  PROVE  EffectsAreWhatIsOwed'
<1> SUFFICES ASSUME NEW c \in Commitments, NEW m \in Currencies
             PROVE  RefundEffects(c, m)' = RefundEffects(c, m) /\ LoggedAmounts(c, m)' = LoggedAmounts(c, m)
  BY DEF OwedInv, EffectsAreWhatIsOwed, LoggedAmounts
<1> PICK k : k = Len(log) + 1
  OBVIOUS
<1>1. /\ DOMAIN log' = DOMAIN log \cup {k} /\ log'[k] = e
      /\ \A i \in DOMAIN log : log'[i] = log[i]
  BY AppendToLog DEF OwedInv, LogType
<1>2. RefundEffects(c, m)' = RefundEffects(c, m)
  BY <1>1 DEF RefundEffects
<1>3. QED
  BY <1>1, <1>2 DEF LoggedAmounts, RefundEffects

\* The entry of a refund that is paid back.
LEMMA OneMoreOwed ==
  ASSUME OwedInv, NEW e \in Logged, log' = Append(log, e),
         e.verdict = "ok", e.action.to.type = "Refunded",
         e.action.commitment \in Commitments, PayBack(e.action)
  PROVE  EffectsAreWhatIsOwed'
<1> DEFINE a == e.action
           n == a.to.amount.amount
<1> PICK k : k = Len(log) + 1
  OBVIOUS
<1>1. /\ DOMAIN log' = DOMAIN log \cup {k} /\ k \notin DOMAIN log /\ log'[k] = e
      /\ \A i \in DOMAIN log : log'[i] = log[i]
  BY AppendToLog DEF OwedInv, LogType
<1>2. a.to.amount.currency \in Currencies /\ n \in Nat
  <2>1. a \in Requests
    BY DEF Logged
  <2>2. QED
    BY <2>1, RequestType, ProposableType DEF Money
<1>3. paid \in [Commitments -> [Currencies -> Nat]]
  BY DEF OwedInv, Typed
<1> SUFFICES ASSUME NEW c \in Commitments, NEW m \in Currencies
             PROVE  paid'[c][m] = SumFunctionOnSet(LoggedAmounts(c, m)', RefundEffects(c, m)')
  BY DEF EffectsAreWhatIsOwed, LoggedAmounts
<1> DEFINE S == RefundEffects(c, m)
           f == LoggedAmounts(c, m)
           g == LoggedAmounts(c, m)'
<1>4. /\ S \subseteq DOMAIN log /\ IsFiniteSet(S) /\ \A i \in S : f[i] \in Nat
  BY EffectsType DEF OwedInv, LogType
<1>5. paid[c][m] = SumFunctionOnSet(f, S)
  BY DEF OwedInv, EffectsAreWhatIsOwed, LoggedAmounts
<1>6. f = [i \in S |-> log[i].action.to.amount.amount]
  BY DEF LoggedAmounts
<1>7. g = [i \in RefundEffects(c, m)' |-> log'[i].action.to.amount.amount]
  BY DEF LoggedAmounts
<1>8. CASE a.commitment = c /\ a.to.amount.currency = m
  <2>1. RefundEffects(c, m)' = S \cup {k}
    BY <1>1, <1>8 DEF RefundEffects
  <2>2. k \notin S /\ \A i \in S : log'[i] = log[i]
    BY <1>1, <1>4
  <2> HIDE DEF S, f, g
  <2>3. (\A i \in S : g[i] = f[i]) /\ g[k] = n
    BY <1>1, <1>6, <1>7, <2>1, <2>2
  <2>4. \A i \in S \cup {k} : g[i] \in Int
    BY <1>2, <1>4, <2>3
  <2>5. SumFunctionOnSet(g, S \cup {k}) = g[k] + SumFunctionOnSet(g, S)
    BY <1>4, <2>2, <2>4, SumInsert
  <2>6. SumFunctionOnSet(g, S) = SumFunctionOnSet(f, S)
    BY <1>4, <2>3, SumCongruent
  <2>7. paid'[c][m] = paid[c][m] + n /\ paid[c][m] \in Nat
    BY <1>2, <1>3, <1>8 DEF PayBack
  <2> DEFINE u == paid[c][m]
             v == paid'[c][m]
  <2>8. u \in Nat /\ v = u + n /\ SumFunctionOnSet(g, S \cup {k}) = n + u
    BY <1>5, <2>3, <2>5, <2>6, <2>7
  <2> HIDE DEF u, v, n
  <2>9. v = SumFunctionOnSet(g, S \cup {k})
    BY <1>2, <2>8
  <2>10. QED
    BY <2>1, <2>9 DEF v, g
<1>9. CASE ~(a.commitment = c /\ a.to.amount.currency = m)
  <2>1. RefundEffects(c, m)' = S
    BY <1>1, <1>9 DEF RefundEffects
  <2>2. g = f
    BY <1>1, <1>4, <1>6, <1>7, <2>1
  <2>3. paid'[c][m] = paid[c][m]
    BY <1>2, <1>3, <1>9 DEF PayBack
  <2>4. QED
    BY <1>5, <2>1, <2>2, <2>3
<1>10. QED
  BY <1>8, <1>9

\* The session's part of process(): an outcome of propose() for the current clock.
LEMMA ProcessProposes ==
  ASSUME NEW a \in Requests, NEW expected, Process(a, expected), clock \in Times
  PROVE  Proposes
BY RequestType DEF Process, Proposes, Propose

LEMMA CallerVersionsType ==
  ASSUME Typed, NEW a, NEW expected \in CallerVersions(a)
  PROVE  expected \in {None} \cup [length : Nat, state : States]
<1>1. \A c \in Commitments : /\ CommitmentVersion(world[c]) \in [length : Nat, state : States]
                             /\ CommitmentVersion(InitialWorld[c]) \in [length : Nat, state : States]
  BY InitialWorldType DEF Typed, Commitment, CommitmentVersion
<1>2. QED
  BY <1>1 DEF CallerVersions, Known

LEMMA ProcessOwes ==
  ASSUME OwedInv, NEW a \in Requests, NEW expected \in CallerVersions(a), Process(a, expected)
  PROVE  OwedInv'
<1>1. Typed' /\ clock' = clock
  BY ProcessProposes, NextType DEF OwedInv, LogType, Process
<1>2. ASSUME NEW verdict \in Verdicts, AppendEntry(a, expected, verdict),
             \/ paid' = paid /\ ~(verdict = "ok" /\ a.to.type = "Refunded")
             \/ verdict = "ok" /\ a.to.type = "Refunded" /\ PayBack(a) /\ a.commitment \in Commitments
      PROVE  OwedInv'
  <2> PICK e : e = [action |-> a, expected |-> expected, verdict |-> verdict, seq |-> seq + 1]
    OBVIOUS
  <2>1. log' = Append(log, e) /\ seq' = seq + 1
    BY <1>2 DEF AppendEntry
  <2>2. e \in Logged /\ e.verdict = verdict /\ e.action = a
    BY CallerVersionsType DEF Logged, OwedInv, LogType
  <2>3. LogType'
    BY <1>1, <2>1, <2>2, AppendToLog DEF OwedInv, LogType
  <2>4. EffectsAreWhatIsOwed'
    BY <1>2, <2>1, <2>2, NothingOwed, OneMoreOwed
  <2>5. QED
    BY <1>1, <2>3, <2>4 DEF OwedInv
<1>3. CASE Replay(a) /\ AppendEntry(a, expected, "replay")
  BY <1>2, <1>3 DEF Replay, vars, Verdicts
<1>4. CASE Conflict(a, expected) /\ AppendEntry(a, expected, "conflict")
  BY <1>2, <1>4 DEF Conflict, vars, Verdicts
<1>5. CASE Reject(a, expected, clock) /\ AppendEntry(a, expected, "rejected")
  BY <1>2, <1>5 DEF Reject, vars, Verdicts
<1>6. CASE /\ RefundInPart(a, expected) \/ RefundInFull(a, expected, clock)
           /\ AppendEntry(a, expected, "ok")
  BY <1>2, <1>6 DEF RefundInPart, RefundInFull, Refundable, Tracked, Known, Verdicts
<1>7. CASE Advance(a, expected, clock) /\ AppendEntry(a, expected, "ok")
  BY <1>2, <1>7 DEF Advance, Accepting, GuardAccepts, Verdicts
<1>8. CASE RefundThrows(a, expected, clock) /\ UNCHANGED <<log, seq>>
  BY <1>1, <1>8 DEF RefundThrows, OwedInv, LogType, EffectsAreWhatIsOwed, RefundEffects
<1>9. QED
  BY <1>3, <1>4, <1>5, <1>6, <1>7, <1>8 DEF Process

LEMMA NextOwed == OwedInv /\ [RuntimeNext]_runtimeVars => OwedInv'
<1> SUFFICES ASSUME OwedInv, [RuntimeNext]_runtimeVars PROVE OwedInv'
  OBVIOUS
<1>1. ASSUME UNCHANGED <<vars, log, seq>>, clock' \in Times PROVE OwedInv'
  <2>1. Typed'
    BY <1>1 DEF OwedInv, Typed, vars
  <2>2. LogType'
    BY <1>1 DEF OwedInv, LogType
  <2>3. EffectsAreWhatIsOwed'
    <3>1. UNCHANGED <<paid, log>>
      BY <1>1 DEF vars
    <3>2. \A c, m : RefundEffects(c, m)' = RefundEffects(c, m)
      BY <3>1 DEF RefundEffects
    <3>3. QED
      BY <3>1, <3>2 DEF OwedInv, EffectsAreWhatIsOwed
  <2>4. QED
    BY <2>1, <2>2, <2>3 DEF OwedInv
<1>2. CASE UNCHANGED runtimeVars
  BY <1>1, <1>2 DEF runtimeVars, OwedInv, LogType
<1>3. CASE Tick \/ StartReplay \/ ReplayEntry
  BY <1>1, <1>3 DEF Tick, StartReplay, ReplayEntry, OwedInv, LogType
<1>4. CASE Restart
  <2>1. Typed'
    BY <1>4, InitialWorldType DEF Restart, OwedInv, Typed
  <2>2. QED
    BY <1>4, <2>1 DEF Restart, OwedInv, LogType, EffectsAreWhatIsOwed, RefundEffects
<1>5. QED
  BY <1>2, <1>3, <1>4, ProcessOwes DEF RuntimeNext

LEMMA InitOwed == RuntimeInit => OwedInv
<1> SUFFICES ASSUME RuntimeInit PROVE OwedInv
  OBVIOUS
<1>1. \A c \in Commitments, m \in Currencies : RefundEffects(c, m) = {}
  BY DEF RuntimeInit, RefundEffects
<1>2. EffectsAreWhatIsOwed
  BY <1>1, SumEmpty DEF EffectsAreWhatIsOwed, RuntimeInit, Init
<1>3. QED
  BY <1>2, InitType DEF RuntimeInit, OwedInv, LogType

\* A host that works off the log of any number of runs of the process pays what one
\* that works off the verdicts pays.
THEOREM EffectsOweThePaybacks == RuntimeSpec => []EffectsAreWhatIsOwed
<1>1. OwedInv => EffectsAreWhatIsOwed
  BY DEF OwedInv
<1>2. QED
  BY <1>1, InitOwed, NextOwed, PTL DEF RuntimeSpec

-----------------------------------------------------------------------------
(* Replay.  What a session makes of an action is a function of its state up to the *)
(* stamps of the histories: the outcomes of propose(), as a relation on records    *)
(* of such a state, relate the live session and the one a replay builds.           *)

Live == [world |-> world, ledger |-> ledger, tree |-> treeLedger, applied |-> applied]
Redone == [world |-> rworld, ledger |-> rledger, tree |-> rtreeLedger, applied |-> rapplied]
Opened == [world   |-> InitialWorld,
           ledger  |-> [c \in Commitments |-> 0],
           tree    |-> [c \in Commitments |-> NoMoney],
           applied |-> {}]

NewTo(s, a, expected) ==
  /\ ActionKey(a) \notin s.applied
  /\ ~(a.commitment \in Commitments /\ VersionConflict(s.world[a.commitment], expected))

Watched(s, a) ==
  /\ a.commitment \in Commitments
  /\ a.to.type = "Refunded"
  /\ IsValidCommitmentTransition(s.world[a.commitment].state, a.to)
  /\ Committed[a.commitment] # NoMoney
  /\ Committed[a.commitment].currency = a.to.amount.currency

TotalOf(s, a) == s.ledger[a.commitment] + a.to.amount.amount
TreeTotalOf(s, r) == IF s.tree[r] = NoMoney THEN 0 ELSE s.tree[r].amount

Fits(s, a) ==
  LET root == TreeRoot[a.commitment]
  IN /\ ~ExceedsCommitted(a.commitment, TotalOf(s, a), a.to.amount.currency)
     /\ IsInTree(a.commitment) =>
          /\ TreeConsistent(root, ChildrenByPointer(root))
          /\ ~ExceedsCommitted(root, TreeTotalOf(s, root) + a.to.amount.amount,
                               a.to.amount.currency)

Settles(s, a) == MoneyEquals(TotalOf(s, a), Committed[a.commitment].amount)

Clashes(s, a) ==
  LET tally == s.tree[TreeRoot[a.commitment]]
  IN IsInTree(a.commitment) /\ tally # NoMoney /\ tally.currency # a.to.amount.currency

Guarded(s, a, expected, at) == GuardAccepts(s.world, Fulfillments, a, expected, at)

Tallied(s, a, w) ==
  LET root == TreeRoot[a.commitment]
  IN [world   |-> w,
      ledger  |-> [s.ledger EXCEPT ![a.commitment] = TotalOf(s, a)],
      tree    |-> IF IsInTree(a.commitment)
                  THEN [s.tree EXCEPT ![root] = [amount   |-> TreeTotalOf(s, root) + a.to.amount.amount,
                                                 currency |-> a.to.amount.currency]]
                  ELSE s.tree,
      applied |-> s.applied \cup {ActionKey(a)}]

Moved(s, a, at) ==
  [world |-> MoveIn(s.world, a, at), ledger |-> s.ledger, tree |-> s.tree,
   applied |-> s.applied \cup {ActionKey(a)}]

\* The session s makes t of the action, with this verdict; it throws nothing.
Leads(s, a, expected, at, verdict, t) ==
  \/ /\ verdict = "replay"
     /\ ActionKey(a) \in s.applied
     /\ t = s
  \/ /\ verdict = "conflict"
     /\ ActionKey(a) \notin s.applied
     /\ a.commitment \in Commitments /\ VersionConflict(s.world[a.commitment], expected)
     /\ t = s
  \/ /\ verdict = "rejected"
     /\ NewTo(s, a, expected)
     /\ IF Watched(s, a)
        THEN ~Fits(s, a) \/ (Settles(s, a) /\ ~Guarded(s, a, expected, at))
        ELSE ~Guarded(s, a, expected, at)
     /\ t = s
  \/ /\ verdict = "ok"
     /\ NewTo(s, a, expected) /\ Watched(s, a) /\ Fits(s, a) /\ ~Clashes(s, a)
     /\ ~Settles(s, a)
     /\ t = Tallied(s, a, s.world)
  \/ /\ verdict = "ok"
     /\ NewTo(s, a, expected) /\ Watched(s, a) /\ Fits(s, a) /\ ~Clashes(s, a)
     /\ Settles(s, a) /\ Guarded(s, a, expected, at)
     /\ t = Tallied(s, a, MoveIn(s.world, a, at))
  \/ /\ verdict = "ok"
     /\ NewTo(s, a, expected) /\ ~Watched(s, a) /\ Guarded(s, a, expected, at)
     /\ t = Moved(s, a, at)

\* The live session, as process() calls it.
LEMMA LiveIs ==
  ASSUME NEW a, NEW expected, NEW at
  PROVE  /\ Fresh(a, expected) <=> NewTo(Live, a, expected)
         /\ Tracked(a) <=> Watched(Live, a)
         /\ Tracked(a) => (Refundable(a) <=> Fits(Live, a))
         /\ SettlesInFull(a) <=> Settles(Live, a)
         /\ TallyClashes(a) <=> Clashes(Live, a)
         /\ Accepting(a, expected, at) <=> Guarded(Live, a, expected, at)
         /\ IsReplay(a) <=> ActionKey(a) \in Live.applied
<1>1. IsReplay(a) <=> ActionKey(a) \in Live.applied
  BY DEF IsReplay, Live
<1>2. Fresh(a, expected) <=> NewTo(Live, a, expected)
  BY <1>1 DEF Fresh, Conflicts, NewTo, Known, Live
<1>3. Tracked(a) <=> Watched(Live, a)
  BY DEF Tracked, Watched, Known, Live
<1>4. Refundable(a) <=> Tracked(a) /\ Fits(Live, a)
  BY DEF Refundable, WithinOrder, WithinTree, Cumulative, TreeSoFar, Fits, TotalOf, TreeTotalOf, Live
<1>5. SettlesInFull(a) <=> Settles(Live, a)
  BY DEF SettlesInFull, Cumulative, Settles, TotalOf, Live
<1>6. TallyClashes(a) <=> Clashes(Live, a)
  BY DEF TallyClashes, Clashes, Live
<1>7. Accepting(a, expected, at) <=> Guarded(Live, a, expected, at)
  BY DEF Accepting, Guarded, Live
<1>8. QED
  BY <1>1, <1>2, <1>3, <1>4, <1>5, <1>6, <1>7

LEMMA ProcessLeads ==
  ASSUME NEW a \in Requests, NEW expected, Process(a, expected)
  PROVE  \/ threw' = TRUE
         \/ \E verdict \in Verdicts :
              /\ AppendEntry(a, expected, verdict)
              /\ Leads(Live, a, expected, clock, verdict, Live')
<1>1. ASSUME RecordInLedger(a), RecordTree(a), RecordKey(a), NEW w, world' = w
      PROVE  Live' = Tallied(Live, a, w)
  BY <1>1 DEF Live, Tallied, RecordInLedger, RecordTree, RecordKey, Cumulative, TotalOf,
              TreeSoFar, TreeTotalOf
<1>2. CASE Replay(a) /\ AppendEntry(a, expected, "replay")
  BY <1>2, LiveIs DEF Replay, Leads, Live, vars, Verdicts
<1>3. CASE Conflict(a, expected) /\ AppendEntry(a, expected, "conflict")
  <2>1. /\ ActionKey(a) \notin Live.applied
        /\ a.commitment \in Commitments /\ VersionConflict(Live.world[a.commitment], expected)
    BY <1>3, LiveIs DEF Conflict, Conflicts, Known, Live
  <2>2. Live' = Live
    BY <1>3 DEF Conflict, Live, vars
  <2>3. QED
    BY <1>3, <2>1, <2>2 DEF Leads, Verdicts
<1>4. CASE Reject(a, expected, clock) /\ AppendEntry(a, expected, "rejected")
  <2>1. Live' = Live
    BY <1>4 DEF Reject, Live, vars
  <2>2. /\ NewTo(Live, a, expected)
        /\ IF Watched(Live, a)
           THEN ~Fits(Live, a) \/ (Settles(Live, a) /\ ~Guarded(Live, a, expected, clock))
           ELSE ~Guarded(Live, a, expected, clock)
    BY <1>4, LiveIs DEF Reject, Rejected
  <2>3. QED
    BY <1>4, <2>1, <2>2 DEF Leads, Verdicts
<1>5. CASE RefundInPart(a, expected) /\ AppendEntry(a, expected, "ok")
  <2>1. Live' = Tallied(Live, a, Live.world)
    <3>1. Live' = Tallied(Live, a, world)
      BY <1>1, <1>5 DEF RefundInPart
    <3>2. QED
      BY <3>1 DEF Live
  <2>2. /\ NewTo(Live, a, expected) /\ Watched(Live, a) /\ Fits(Live, a)
        /\ ~Clashes(Live, a) /\ ~Settles(Live, a)
    BY <1>5, LiveIs DEF RefundInPart, Refundable
  <2>3. QED
    BY <1>5, <2>1, <2>2 DEF Leads, Verdicts
<1>6. CASE RefundInFull(a, expected, clock) /\ AppendEntry(a, expected, "ok")
  <2>1. Live' = Tallied(Live, a, MoveIn(Live.world, a, clock))
    <3>1. Live' = Tallied(Live, a, MoveIn(world, a, clock))
      BY <1>1, <1>6 DEF RefundInFull
    <3>2. QED
      BY <3>1 DEF Live
  <2>2. /\ NewTo(Live, a, expected) /\ Watched(Live, a) /\ Fits(Live, a)
        /\ ~Clashes(Live, a) /\ Settles(Live, a) /\ Guarded(Live, a, expected, clock)
    BY <1>6, LiveIs DEF RefundInFull, Refundable
  <2>3. QED
    BY <1>6, <2>1, <2>2 DEF Leads, Verdicts
<1>7. CASE Advance(a, expected, clock) /\ AppendEntry(a, expected, "ok")
  <2>1. Live' = Moved(Live, a, clock)
    BY <1>7 DEF Advance, Live, Moved, RecordKey
  <2>2. NewTo(Live, a, expected) /\ ~Watched(Live, a) /\ Guarded(Live, a, expected, clock)
    BY <1>7, LiveIs DEF Advance
  <2>3. QED
    BY <1>7, <2>1, <2>2 DEF Leads, Verdicts
<1>8. QED
  BY <1>2, <1>3, <1>4, <1>5, <1>6, <1>7 DEF Process

\* The session of a replay is one over the same commitments: what does not read its
\* state is what the live session goes by.
LEMMA AgainIs ==
  /\ Again!TreeRoot = TreeRoot
  /\ \A c : Again!IsInTree(c) <=> IsInTree(c)
  /\ \A c : Again!ChildrenByPointer(c) = ChildrenByPointer(c)
  /\ \A c, kids : Again!TreeConsistent(c, kids) <=> TreeConsistent(c, kids)
  /\ \A c, n, m : Again!ExceedsCommitted(c, n, m) <=> ExceedsCommitted(c, n, m)
  /\ \A x, y : Again!MoneyEquals(x, y) <=> MoneyEquals(x, y)
  /\ \A x, y : Again!IsValidCommitmentTransition(x, y) <=> IsValidCommitmentTransition(x, y)
  /\ \A c, v : Again!VersionConflict(c, v) <=> VersionConflict(c, v)
  /\ \A w, a, at : Again!MoveIn(w, a, at) = MoveIn(w, a, at)
  /\ \A a : Again!ActionKey(a) = ActionKey(a)
<1>1. Again!TreeRoot = TreeRoot
  BY DEF Again!TreeRoot, Again!AncestorLine, Again!Up, TreeRoot, AncestorLine, Up
<1>2. ASSUME NEW c PROVE Again!IsInTree(c) <=> IsInTree(c)
  BY <1>1 DEF Again!IsInTree, IsInTree
<1>3. ASSUME NEW c PROVE Again!ChildrenByPointer(c) = ChildrenByPointer(c)
  BY DEF Again!ChildrenByPointer, ChildrenByPointer
<1>4. ASSUME NEW c, NEW kids PROVE Again!TreeConsistent(c, kids) <=> TreeConsistent(c, kids)
  BY DEF Again!TreeConsistent, Again!MoneyEquals, Again!ChildAmount, Again!MapThenSumSet,
         Again!MapThenFoldSet,
         TreeConsistent, MoneyEquals, ChildAmount, MapThenSumSet, MapThenFoldSet
<1>5. ASSUME NEW c, NEW n, NEW m PROVE Again!ExceedsCommitted(c, n, m) <=> ExceedsCommitted(c, n, m)
  BY DEF Again!ExceedsCommitted, Again!MoneyEquals, ExceedsCommitted, MoneyEquals
<1>6. ASSUME NEW x, NEW y PROVE Again!MoneyEquals(x, y) <=> MoneyEquals(x, y)
  BY DEF Again!MoneyEquals, MoneyEquals
<1>7. ASSUME NEW x, NEW y
      PROVE  Again!IsValidCommitmentTransition(x, y) <=> IsValidCommitmentTransition(x, y)
  BY DEF Again!IsValidCommitmentTransition, Again!CommitmentTransitions,
         IsValidCommitmentTransition, CommitmentTransitions
<1>8. ASSUME NEW c, NEW v PROVE Again!VersionConflict(c, v) <=> VersionConflict(c, v)
  BY DEF Again!VersionConflict, Again!CommitmentVersion, VersionConflict, CommitmentVersion
<1>9. ASSUME NEW w, NEW a, NEW at PROVE Again!MoveIn(w, a, at) = MoveIn(w, a, at)
  BY DEF Again!MoveIn, Again!Transitioned, MoveIn, Transitioned
<1>10. ASSUME NEW a PROVE Again!ActionKey(a) = ActionKey(a)
  BY DEF Again!ActionKey, ActionKey
<1>11. QED
  BY <1>1, <1>2, <1>3, <1>4, <1>5, <1>6, <1>7, <1>8, <1>9, <1>10

LEMMA AgainAudits ==
  ASSUME NEW w, NEW f PROVE Again!AuditClean(w, f) <=> AuditClean(w, f)
<1>1. Again!CheckI1(w) <=> CheckI1(w)
  BY AgainIs DEF Again!CheckI1, CheckI1
<1>2. ASSUME NEW c PROVE Again!CheckI2(c) <=> CheckI2(c)
  BY AgainIs DEF Again!CheckI2, CheckI2
<1>3. ASSUME NEW i, NEW c PROVE Again!CheckI3(i, c) <=> CheckI3(i, c)
  BY DEF Again!CheckI3, Again!WasAccepted, Again!AcceptedOrLater, CheckI3, WasAccepted, AcceptedOrLater
<1>4. ASSUME NEW i, NEW c PROVE Again!CheckI4(i, c, f) <=> CheckI4(i, c, f)
  BY DEF Again!CheckI4, Again!WasAccepted, Again!AcceptedAt, CheckI4, WasAccepted, AcceptedAt
<1>5. ASSUME NEW i PROVE Again!CheckI6(i) <=> CheckI6(i)
  BY AgainIs DEF Again!CheckI6, CheckI6
<1>6. QED
  BY <1>1, <1>2, <1>3, <1>4, <1>5 DEF Again!AuditClean, AuditClean

LEMMA AgainGuards ==
  ASSUME NEW w, NEW f, NEW a, NEW expected, NEW at
  PROVE  Again!GuardAccepts(w, f, a, expected, at) <=> GuardAccepts(w, f, a, expected, at)
BY AgainIs, AgainAudits
DEF Again!GuardAccepts, Again!TransitionOk, Again!LastAt, GuardAccepts, TransitionOk, LastAt

LEMMA RedoneIs ==
  ASSUME NEW a, NEW expected, NEW at
  PROVE  /\ Again!Fresh(a, expected) <=> NewTo(Redone, a, expected)
         /\ Again!Tracked(a) <=> Watched(Redone, a)
         /\ Again!Tracked(a) => (Again!Refundable(a) <=> Fits(Redone, a))
         /\ Again!SettlesInFull(a) <=> Settles(Redone, a)
         /\ Again!TallyClashes(a) <=> Clashes(Redone, a)
         /\ Again!Accepting(a, expected, at) <=> Guarded(Redone, a, expected, at)
         /\ Again!IsReplay(a) <=> ActionKey(a) \in Redone.applied
<1>1. Again!IsReplay(a) <=> ActionKey(a) \in Redone.applied
  BY AgainIs DEF Again!IsReplay, Redone
<1>2. Again!Fresh(a, expected) <=> NewTo(Redone, a, expected)
  BY <1>1, AgainIs DEF Again!Fresh, Again!Conflicts, NewTo, Again!Known, Redone
<1>3. Again!Tracked(a) <=> Watched(Redone, a)
  BY AgainIs DEF Again!Tracked, Watched, Again!Known, Redone
<1>4. Again!Refundable(a) <=> Again!Tracked(a) /\ Fits(Redone, a)
  <2>1. Again!WithinOrder(a)
          <=> ~ExceedsCommitted(a.commitment, TotalOf(Redone, a), a.to.amount.currency)
    BY AgainIs DEF Again!WithinOrder, Again!Cumulative, TotalOf, Redone
  <2>2. Again!WithinTree(a) <=>
          (IsInTree(a.commitment) =>
             /\ TreeConsistent(TreeRoot[a.commitment], ChildrenByPointer(TreeRoot[a.commitment]))
             /\ ~ExceedsCommitted(TreeRoot[a.commitment],
                                  TreeTotalOf(Redone, TreeRoot[a.commitment]) + a.to.amount.amount,
                                  a.to.amount.currency))
    BY AgainIs DEF Again!WithinTree, Again!TreeSoFar, TreeTotalOf, Redone
  <2>3. QED
    BY <2>1, <2>2 DEF Again!Refundable, Fits
<1>5. Again!SettlesInFull(a) <=> Settles(Redone, a)
  BY AgainIs DEF Again!SettlesInFull, Again!Cumulative, Settles, TotalOf, Redone
<1>6. Again!TallyClashes(a) <=> Clashes(Redone, a)
  BY AgainIs DEF Again!TallyClashes, Clashes, Redone
<1>7. Again!Accepting(a, expected, at) <=> Guarded(Redone, a, expected, at)
  BY AgainGuards DEF Again!Accepting, Guarded, Redone
<1>8. QED
  BY <1>1, <1>2, <1>3, <1>4, <1>5, <1>6, <1>7

LEMMA ReplayLeads ==
  ASSUME ReplayEntry
  PROVE  \E verdict \in Verdicts :
           /\ rebuilt' = Append(rebuilt, verdict)
           /\ Leads(Redone, log[cursor].action, log[cursor].expected, clock, verdict, Redone')
<1> PICK a, expected : a = log[cursor].action /\ expected = log[cursor].expected
  OBVIOUS
<1> SUFFICES ASSUME NEW v \in Verdicts,
                    \/ v = "replay" /\ Again!Replay(a)
                    \/ v = "conflict" /\ Again!Conflict(a, expected)
                    \/ v = "rejected" /\ Again!Reject(a, expected, clock)
                    \/ v = "ok" /\ \/ Again!RefundInPart(a, expected)
                                   \/ Again!RefundInFull(a, expected, clock)
                                   \/ Again!Advance(a, expected, clock)
             PROVE  Leads(Redone, a, expected, clock, v, Redone')
  BY DEF ReplayEntry, RecordedAction, RecordedVersion, Verdicts
<1>1. ASSUME Again!RecordInLedger(a), Again!RecordTree(a), Again!RecordKey(a),
             NEW w, rworld' = w
      PROVE  Redone' = Tallied(Redone, a, w)
  <2>1. rledger' = [rledger EXCEPT ![a.commitment] = TotalOf(Redone, a)]
    BY <1>1 DEF Again!RecordInLedger, Again!Cumulative, TotalOf, Redone
  <2>2. rtreeLedger' = Tallied(Redone, a, w).tree
    BY <1>1, AgainIs DEF Again!RecordTree, Again!TreeSoFar, TreeTotalOf, Tallied, Redone
  <2>3. rapplied' = rapplied \cup {ActionKey(a)}
    BY <1>1, AgainIs DEF Again!RecordKey
  <2>4. QED
    BY <1>1, <2>1, <2>2, <2>3 DEF Redone, Tallied
<1>2. CASE v = "replay" /\ Again!Replay(a)
  BY <1>2, RedoneIs DEF Again!Replay, Again!vars, Leads, Redone
<1>3. CASE v = "conflict" /\ Again!Conflict(a, expected)
  <2>1. /\ ActionKey(a) \notin Redone.applied
        /\ a.commitment \in Commitments /\ VersionConflict(Redone.world[a.commitment], expected)
    BY <1>3, RedoneIs, AgainIs DEF Again!Conflict, Again!Conflicts, Again!Known, Redone
  <2>2. Redone' = Redone
    BY <1>3 DEF Again!Conflict, Again!vars, Redone
  <2>3. QED
    BY <1>3, <2>1, <2>2 DEF Leads
<1>4. CASE v = "rejected" /\ Again!Reject(a, expected, clock)
  <2>1. Redone' = Redone
    BY <1>4 DEF Again!Reject, Again!vars, Redone
  <2>2. /\ NewTo(Redone, a, expected)
        /\ IF Watched(Redone, a)
           THEN ~Fits(Redone, a) \/ (Settles(Redone, a) /\ ~Guarded(Redone, a, expected, clock))
           ELSE ~Guarded(Redone, a, expected, clock)
    BY <1>4, RedoneIs DEF Again!Reject, Again!Rejected
  <2>3. QED
    BY <1>4, <2>1, <2>2 DEF Leads
<1>5. CASE v = "ok" /\ Again!RefundInPart(a, expected)
  <2>1. Redone' = Tallied(Redone, a, Redone.world)
    <3>1. Redone' = Tallied(Redone, a, rworld)
      BY <1>1, <1>5 DEF Again!RefundInPart
    <3>2. QED
      BY <3>1 DEF Redone
  <2>2. /\ NewTo(Redone, a, expected) /\ Watched(Redone, a) /\ Fits(Redone, a)
        /\ ~Clashes(Redone, a) /\ ~Settles(Redone, a)
    BY <1>5, RedoneIs DEF Again!RefundInPart, Again!Refundable
  <2>3. QED
    BY <1>5, <2>1, <2>2 DEF Leads
<1>6. CASE v = "ok" /\ Again!RefundInFull(a, expected, clock)
  <2>1. Redone' = Tallied(Redone, a, MoveIn(Redone.world, a, clock))
    <3>1. Redone' = Tallied(Redone, a, MoveIn(rworld, a, clock))
      BY <1>1, <1>6, AgainIs DEF Again!RefundInFull
    <3>2. QED
      BY <3>1 DEF Redone
  <2>2. /\ NewTo(Redone, a, expected) /\ Watched(Redone, a) /\ Fits(Redone, a)
        /\ ~Clashes(Redone, a) /\ Settles(Redone, a) /\ Guarded(Redone, a, expected, clock)
    BY <1>6, RedoneIs DEF Again!RefundInFull, Again!Refundable
  <2>3. QED
    BY <1>6, <2>1, <2>2 DEF Leads
<1>7. CASE v = "ok" /\ Again!Advance(a, expected, clock)
  <2>1. Redone' = Moved(Redone, a, clock)
    BY <1>7, AgainIs DEF Again!Advance, Redone, Moved, Again!RecordKey
  <2>2. NewTo(Redone, a, expected) /\ ~Watched(Redone, a) /\ Guarded(Redone, a, expected, clock)
    BY <1>7, RedoneIs DEF Again!Advance
  <2>3. QED
    BY <1>7, <2>1, <2>2 DEF Leads
<1>8. QED
  BY <1>2, <1>3, <1>4, <1>5, <1>6, <1>7

-----------------------------------------------------------------------------
(* Two sessions alike: equal up to the stamps of the histories.                    *)

\* A delivery of c has started.
Started(c) ==
  \E x \in DOMAIN Fulfillments :
    Fulfillments[x].commitment = c /\ Fulfillments[x].startedAt # None

\* The same moves of the same actors, in order of time; and where it tells deliveries
\* apart, the same instant of acceptance.
AlikeCommitments(id, c, d) ==
  /\ c \in Commitment /\ d \in Commitment
  /\ c.state = d.state /\ Len(c.history) = Len(d.history)
  /\ \A i \in 1..Len(c.history) : /\ c.history[i].from = d.history[i].from
                                  /\ c.history[i].to = d.history[i].to
                                  /\ c.history[i].actor = d.history[i].actor
  /\ \A i \in 2..Len(c.history) : /\ c.history[i].at >= c.history[i - 1].at
                                  /\ d.history[i].at >= d.history[i - 1].at
  /\ Started(id) => \E i \in 1..Len(c.history) :
       FirstAccepted(c, i) /\ c.history[i].at = d.history[i].at

AlikeWorlds(w, v) ==
  /\ w \in [Commitments -> Commitment] /\ v \in [Commitments -> Commitment]
  /\ \A c \in Commitments : AlikeCommitments(c, w[c], v[c])

Alike(s, t) ==
  /\ AlikeWorlds(s.world, t.world)
  /\ s.ledger = t.ledger /\ s.tree = t.tree /\ s.applied = t.applied

\* No stamp is later than the given instant.
StampedBy(w, at) ==
  \A c \in Commitments : \A i \in 1..Len(w[c].history) : w[c].history[i].at \in 0..at

LEMMA AlikeAudits ==
  ASSUME NEW w, NEW v, AlikeWorlds(w, v)
  PROVE  AuditClean(w, Fulfillments) <=> AuditClean(v, Fulfillments)
<1>1. DOMAIN w = Commitments /\ DOMAIN v = Commitments
  BY DEF AlikeWorlds
<1>2. CheckI1(w) <=> CheckI1(v)
  BY <1>1 DEF AlikeWorlds, AlikeCommitments, CheckI1
<1>3. ASSUME NEW c \in Commitments
      PROVE  /\ CheckI2(w[c]) <=> CheckI2(v[c])
             /\ CheckI3(c, w[c]) <=> CheckI3(c, v[c])
             /\ CheckI4(c, w[c], Fulfillments) <=> CheckI4(c, v[c], Fulfillments)
  <2> PICK x, y : x = w[c] /\ y = v[c]
    OBVIOUS
  <2>1. AlikeCommitments(c, x, y)
    BY DEF AlikeWorlds
  <2>2. /\ DOMAIN x.history = 1..Len(x.history) /\ DOMAIN y.history = 1..Len(x.history)
        /\ Len(x.history) \in Nat /\ Len(y.history) = Len(x.history)
    BY <2>1, LenProperties DEF AlikeCommitments, Commitment
  <2>3. CheckI2(x) <=> CheckI2(y)
    BY <2>1, <2>2 DEF AlikeCommitments, CheckI2
  <2>4. WasAccepted(x) <=> WasAccepted(y)
    BY <2>1, <2>2 DEF AlikeCommitments, WasAccepted
  <2>5. CheckI3(c, x) <=> CheckI3(c, y)
    BY <2>1, <2>4 DEF AlikeCommitments, CheckI3
  <2>6. Started(c) => WasAccepted(x) /\ AcceptedAt(x) = AcceptedAt(y)
    <3> SUFFICES ASSUME Started(c) PROVE WasAccepted(x) /\ AcceptedAt(x) = AcceptedAt(y)
      OBVIOUS
    <3>1. PICK i \in 1..Len(x.history) : FirstAccepted(x, i) /\ x.history[i].at = y.history[i].at
      BY <2>1 DEF AlikeCommitments
    <3>2. FirstAccepted(y, i)
      <4>1. i \in DOMAIN y.history /\ y.history[i].to.type = "Accepted"
        BY <2>1, <2>2, <3>1 DEF AlikeCommitments, FirstAccepted
      <4>2. ASSUME NEW j \in 1..(i - 1) PROVE y.history[j].to.type # "Accepted"
        <5>1. j \in 1..Len(x.history) /\ x.history[j].to.type # "Accepted"
          BY <2>2, <3>1 DEF FirstAccepted
        <5>2. x.history[j].to = y.history[j].to
          BY <2>1, <5>1 DEF AlikeCommitments
        <5>3. QED
          BY <5>1, <5>2
      <4>3. QED
        BY <4>1, <4>2 DEF FirstAccepted
    <3>3. x \in Commitment /\ y \in Commitment
      BY <2>1 DEF AlikeCommitments
    <3>4. QED
      BY <3>1, <3>2, <3>3, FirstIsChosen
  <2>7. CheckI4(c, x, Fulfillments) <=> CheckI4(c, y, Fulfillments)
    BY <2>4, <2>6 DEF CheckI4, Started
  <2>8. QED
    BY <2>3, <2>5, <2>7
<1>4. QED
  BY <1>1, <1>2, <1>3 DEF AuditClean

LEMMA AlikeMoves ==
  ASSUME NEW id, NEW c, NEW d, AlikeCommitments(id, c, d),
         NEW to \in States, NEW actor \in Actors, NEW t \in Nat, NEW u \in Nat,
         \A i \in 1..Len(c.history) : c.history[i].at <= t,
         \A i \in 1..Len(d.history) : d.history[i].at <= u
  PROVE  AlikeCommitments(id, Transitioned(c, to, actor, t), Transitioned(d, to, actor, u))
<1> DEFINE n == Len(c.history)
<1> PICK x, y : x = Transitioned(c, to, actor, t) /\ y = Transitioned(d, to, actor, u)
  OBVIOUS
<1>1. c \in Commitment /\ d \in Commitment /\ Len(d.history) = n /\ c.state = d.state
  BY DEF AlikeCommitments
<1>2. n \in Nat
  BY <1>1 DEF Commitment
<1>3. /\ x \in Commitment /\ x.state = to /\ Len(x.history) = n + 1
      /\ \A i \in 1..n : x.history[i] = c.history[i]
      /\ x.history[n + 1] = [from |-> c.state, to |-> to, at |-> t, actor |-> actor]
  BY <1>1, TransitionedType, TransitionedEntries
<1>4. /\ y \in Commitment /\ y.state = to /\ Len(y.history) = n + 1
      /\ \A i \in 1..n : y.history[i] = d.history[i]
      /\ y.history[n + 1] = [from |-> d.state, to |-> to, at |-> u, actor |-> actor]
  BY <1>1, TransitionedType, TransitionedEntries
<1>5. ASSUME NEW i \in 1..(n + 1)
      PROVE  /\ x.history[i].from = y.history[i].from
             /\ x.history[i].to = y.history[i].to
             /\ x.history[i].actor = y.history[i].actor
  <2>1. CASE i \in 1..n
    BY <1>3, <1>4, <2>1 DEF AlikeCommitments
  <2>2. CASE i = n + 1
    BY <1>1, <1>3, <1>4, <2>2
  <2>3. QED
    BY <1>2, <2>1, <2>2
<1>6. ASSUME NEW i \in 2..(n + 1)
      PROVE  /\ x.history[i].at >= x.history[i - 1].at
             /\ y.history[i].at >= y.history[i - 1].at
  <2>1. i - 1 \in 1..n
    BY <1>2
  <2>2. x.history[i - 1] = c.history[i - 1] /\ y.history[i - 1] = d.history[i - 1]
    BY <1>3, <1>4, <2>1
  <2>3. CASE i \in 2..n
    <3>1. i \in 1..n
      BY <1>2, <2>3
    <3>2. x.history[i] = c.history[i] /\ y.history[i] = d.history[i]
      BY <1>3, <1>4, <3>1
    <3>3. QED
      BY <2>2, <2>3, <3>2 DEF AlikeCommitments
  <2>4. CASE i = n + 1
    <3>1. x.history[i].at = t /\ y.history[i].at = u
      BY <1>3, <1>4, <2>4
    <3>2. c.history[i - 1].at <= t /\ d.history[i - 1].at <= u
      BY <1>1, <2>1
    <3>3. c.history[i - 1].at \in Nat /\ d.history[i - 1].at \in Nat
      <4>1. c.history[i - 1] \in Entry /\ d.history[i - 1] \in Entry
        BY <1>1, <2>1, ElementOfSeq DEF Commitment
      <4>2. QED
        BY <4>1 DEF Entry
    <3>4. QED
      BY <2>2, <3>1, <3>2, <3>3
  <2>5. QED
    BY <1>2, <2>3, <2>4
<1>7. ASSUME Started(id)
      PROVE  \E i \in 1..(n + 1) : FirstAccepted(x, i) /\ x.history[i].at = y.history[i].at
  <2>1. PICK i \in 1..n : FirstAccepted(c, i) /\ c.history[i].at = d.history[i].at
    BY <1>7 DEF AlikeCommitments
  <2>2. i \in DOMAIN x.history
    BY <1>2, <1>3, LenProperties DEF Commitment
  <2>3. \A j \in 1..i : j \in 1..n /\ x.history[j] = c.history[j] /\ y.history[j] = d.history[j]
    BY <1>2, <1>3, <1>4
  <2>4. i \in 1..i /\ \A j \in 1..(i - 1) : j \in 1..i
    BY <1>2
  <2>5. FirstAccepted(x, i)
    BY <2>1, <2>2, <2>3, <2>4 DEF FirstAccepted
  <2>6. x.history[i].at = y.history[i].at /\ i \in 1..(n + 1)
    BY <1>2, <2>1, <2>3, <2>4
  <2>7. QED
    BY <2>5, <2>6
<1>8. QED
  BY <1>3, <1>4, <1>5, <1>6, <1>7 DEF AlikeCommitments

\* Alike sessions judge an action alike, whatever the clock shows each of them.
LEMMA AlikeGuards ==
  ASSUME NEW w, NEW v, AlikeWorlds(w, v), NEW a, Proposable(a), NEW expected,
         NEW t \in Nat, NEW u \in Nat, StampedBy(w, t), StampedBy(v, u),
         a.commitment \in Commitments
  PROVE  /\ GuardAccepts(w, Fulfillments, a, expected, t)
              <=> GuardAccepts(v, Fulfillments, a, expected, u)
         /\ AlikeWorlds(MoveIn(w, a, t), MoveIn(v, a, u))
<1> DEFINE id == a.commitment
<1>1. /\ w \in [Commitments -> Commitment] /\ v \in [Commitments -> Commitment]
      /\ AlikeCommitments(id, w[id], v[id])
  BY DEF AlikeWorlds
<1>2. a.to \in States /\ a.actor \in Actors
  BY DEF Proposable
<1>3. AlikeCommitments(id, Transitioned(w[id], a.to, a.actor, t), Transitioned(v[id], a.to, a.actor, u))
  BY <1>1, <1>2, AlikeMoves DEF StampedBy
<1>4. AlikeWorlds(MoveIn(w, a, t), MoveIn(v, a, u))
  <2> DEFINE d == Transitioned(w[id], a.to, a.actor, t)
             e == Transitioned(v[id], a.to, a.actor, u)
  <2>1. d \in Commitment /\ e \in Commitment
    BY <1>3 DEF AlikeCommitments
  <2>2. MoveIn(w, a, t) = [w EXCEPT ![id] = d] /\ MoveIn(v, a, u) = [v EXCEPT ![id] = e]
    BY DEF MoveIn
  <2> HIDE DEF d, e, id
  <2>3. /\ MoveIn(w, a, t) \in [Commitments -> Commitment]
        /\ MoveIn(v, a, u) \in [Commitments -> Commitment]
    BY <1>1, <2>1, <2>2
  <2>4. ASSUME NEW c \in Commitments
        PROVE  AlikeCommitments(c, MoveIn(w, a, t)[c], MoveIn(v, a, u)[c])
    <3>1. CASE c = id
      <4>1. MoveIn(w, a, t)[c] = d /\ MoveIn(v, a, u)[c] = e
        BY <1>1, <2>2, <3>1
      <4>2. QED
        BY <1>3, <3>1, <4>1 DEF d, e, id
    <3>2. CASE c # id
      <4>1. MoveIn(w, a, t)[c] = w[c] /\ MoveIn(v, a, u)[c] = v[c]
        BY <1>1, <2>2, <3>2
      <4>2. QED
        BY <4>1 DEF AlikeWorlds
    <3>3. QED
      BY <3>1, <3>2
  <2>5. QED
    BY <2>3, <2>4 DEF AlikeWorlds
<1>5. VersionConflict(w[id], expected) <=> VersionConflict(v[id], expected)
  BY <1>1 DEF VersionConflict, CommitmentVersion, AlikeCommitments
<1>6. TransitionOk(w[id], a.to, t) <=> TransitionOk(v[id], a.to, u)
  <2>1. ASSUME NEW c \in Commitment, NEW at \in Nat,
               \A i \in 1..Len(c.history) : c.history[i].at <= at
        PROVE  at >= LastAt(c)
    <3>1. c.history \in Seq(Entry) /\ Len(c.history) \in Nat
      BY DEF Commitment
    <3>2. CASE c.history = <<>>
      BY <3>2 DEF LastAt
    <3>3. CASE c.history # <<>>
      <4>1. Len(c.history) \in 1..Len(c.history)
        BY <3>1, <3>3, EmptySeq
      <4>2. c.history[Len(c.history)] \in Entry
        BY <3>1, <4>1, ElementOfSeq
      <4>3. c.history[Len(c.history)].at <= at /\ c.history[Len(c.history)].at \in Nat
        BY <2>1, <4>1, <4>2 DEF Entry
      <4>4. QED
        BY <3>3, <4>3 DEF LastAt
    <3>4. QED
      BY <3>2, <3>3
  <2>2. t >= LastAt(w[id]) /\ u >= LastAt(v[id])
    <3>1. w[id] \in Commitment /\ v[id] \in Commitment
      BY <1>1
    <3>2. /\ \A i \in 1..Len(w[id].history) : w[id].history[i].at <= t
          /\ \A i \in 1..Len(v[id].history) : v[id].history[i].at <= u
      BY DEF StampedBy
    <3> HIDE DEF id
    <3>3. QED
      BY <2>1, <3>1, <3>2
  <2>3. QED
    BY <1>1, <2>2 DEF TransitionOk, AlikeCommitments
<1>7. QED
  BY <1>4, <1>5, <1>6, AlikeAudits DEF GuardAccepts

\* The same action makes alike sessions of alike sessions, with the same verdict.
LEMMA Deterministic ==
  ASSUME NEW s, NEW r, Alike(s, r), NEW a, Proposable(a), NEW expected,
         NEW t \in Nat, NEW u \in Nat, StampedBy(s.world, t), StampedBy(r.world, u),
         NEW v, NEW s2, Leads(s, a, expected, t, v, s2),
         NEW z, NEW r2, Leads(r, a, expected, u, z, r2)
  PROVE  v = z /\ Alike(s2, r2)
<1>1. /\ s.applied = r.applied /\ s.ledger = r.ledger /\ s.tree = r.tree
      /\ AlikeWorlds(s.world, r.world)
  BY DEF Alike
<1>2. NewTo(s, a, expected) <=> NewTo(r, a, expected)
  BY <1>1 DEF NewTo, VersionConflict, CommitmentVersion, AlikeWorlds, AlikeCommitments
<1>3. a.commitment \in Commitments =>
        (VersionConflict(s.world[a.commitment], expected)
           <=> VersionConflict(r.world[a.commitment], expected))
  BY <1>1 DEF VersionConflict, CommitmentVersion, AlikeWorlds, AlikeCommitments
<1>4. Watched(s, a) <=> Watched(r, a)
  BY <1>1 DEF Watched, AlikeWorlds, AlikeCommitments
<1>5. /\ Fits(s, a) <=> Fits(r, a)
      /\ Settles(s, a) <=> Settles(r, a)
      /\ Clashes(s, a) <=> Clashes(r, a)
  BY <1>1 DEF Fits, Settles, Clashes, TotalOf, TreeTotalOf
<1>6. Guarded(s, a, expected, t) <=> Guarded(r, a, expected, u)
  <2>1. CASE a.commitment \in Commitments
    BY <1>1, <2>1, AlikeGuards DEF Guarded
  <2>2. CASE a.commitment \notin Commitments
    BY <2>2 DEF Guarded, GuardAccepts
  <2>3. QED
    BY <2>1, <2>2
<1>7. NewTo(s, a, expected)
        => ActionKey(a) \notin s.applied
           /\ ~(a.commitment \in Commitments /\ VersionConflict(s.world[a.commitment], expected))
  BY DEF NewTo
<1>8. v = z
  BY <1>1, <1>2, <1>3, <1>4, <1>5, <1>6, <1>7 DEF Leads
<1>9. CASE v # "ok"
  <2>1. s2 = s /\ r2 = r
    BY <1>8, <1>9 DEF Leads
  <2>2. QED
    BY <1>8, <2>1
<1>10. ASSUME NEW w, NEW x, AlikeWorlds(w, x) PROVE Alike(Tallied(s, a, w), Tallied(r, a, x))
  BY <1>1, <1>10 DEF Tallied, Alike, TotalOf, TreeTotalOf
<1>11. ASSUME a.commitment \in Commitments
       PROVE  /\ Alike(Tallied(s, a, MoveIn(s.world, a, t)), Tallied(r, a, MoveIn(r.world, a, u)))
              /\ Alike(Moved(s, a, t), Moved(r, a, u))
  <2>1. AlikeWorlds(MoveIn(s.world, a, t), MoveIn(r.world, a, u))
    BY <1>1, <1>11, AlikeGuards
  <2>2. QED
    BY <1>1, <1>10, <2>1 DEF Alike, Moved
<1>12. CASE v = "ok"
  <2>1. Watched(s, a) \/ Guarded(s, a, expected, t) => a.commitment \in Commitments
    BY DEF Watched, Guarded, GuardAccepts
  <2>2. CASE Watched(s, a) /\ ~Settles(s, a)
    <3>1. s2 = Tallied(s, a, s.world) /\ r2 = Tallied(r, a, r.world)
      BY <1>4, <1>5, <1>8, <1>12, <2>2 DEF Leads
    <3>2. QED
      BY <1>1, <1>8, <1>10, <3>1
  <2>3. CASE Watched(s, a) /\ Settles(s, a)
    <3>1. /\ s2 = Tallied(s, a, MoveIn(s.world, a, t))
          /\ r2 = Tallied(r, a, MoveIn(r.world, a, u))
      BY <1>4, <1>5, <1>8, <1>12, <2>3 DEF Leads
    <3>2. QED
      BY <1>8, <1>11, <2>1, <2>3, <3>1
  <2>4. CASE ~Watched(s, a)
    <3>1. s2 = Moved(s, a, t) /\ r2 = Moved(r, a, u) /\ Guarded(s, a, expected, t)
      BY <1>4, <1>8, <1>12, <2>4 DEF Leads
    <3>2. QED
      BY <1>8, <1>11, <2>1, <3>1
  <2>5. QED
    BY <2>2, <2>3, <2>4
<1>13. QED
  BY <1>9, <1>12

-----------------------------------------------------------------------------
(* The deliveries that had started when the session began are of commitments that  *)
(* were accepted by then.  (A delivery that starts later is held against the stamp *)
(* of an acceptance, which a replay sets anew.)                                    *)
StartedIsAgreed == \A c \in Commitments : Started(c) => Initially[c].type \in AcceptedOrLater

LEMMA OpenedAlike ==
  ASSUME StartedIsAgreed, NEW at \in Nat
  PROVE  Alike(Opened, Opened) /\ StampedBy(InitialWorld, at)
<1>1. ASSUME NEW c \in Commitments
      PROVE  /\ AlikeCommitments(c, InitialWorld[c], InitialWorld[c])
             /\ \A i \in 1..Len(InitialWorld[c].history) : InitialWorld[c].history[i].at = 0
  <2> PICK x : x = InitialWorld[c]
    OBVIOUS
  <2> DEFINE p == CHOOSE q \in Actors : TRUE
  <2>1. p \in Actors /\ Initially[c] \in States /\ x = Synthesized(Initially[c], p)
    BY RequestsAssumption DEF InitialWorld
  <2> HIDE DEF p
  <2>2. x \in Commitment /\ UnbrokenHistory(x)
    BY <2>1, SynthesizedType
  <2>3. /\ \A i \in 1..Len(x.history) : x.history[i].at = 0
        /\ Initially[c].type \in AcceptedOrLater
             => 2 \in 1..Len(x.history) /\ FirstAccepted(x, 2)
    BY <2>1, SynthesizedStamps
  <2>4. \A i \in 2..Len(x.history) : x.history[i].at >= x.history[i - 1].at
    BY <2>2 DEF UnbrokenHistory
  <2>5. AlikeCommitments(c, x, x)
    BY <2>2, <2>3, <2>4 DEF AlikeCommitments, StartedIsAgreed
  <2>6. QED
    BY <2>3, <2>5
<1>2. AlikeWorlds(InitialWorld, InitialWorld)
  BY <1>1, InitialWorldType DEF AlikeWorlds
<1>3. QED
  BY <1>1, <1>2 DEF Alike, Opened, StampedBy

LEMMA MoveStamped ==
  ASSUME NEW x \in Commitment, NEW to \in States, NEW actor \in Actors, NEW at \in Nat,
         \A i \in 1..Len(x.history) : x.history[i].at \in 0..at,
         NEW y, y = Transitioned(x, to, actor, at)
  PROVE  \A i \in 1..Len(y.history) : y.history[i].at \in 0..at
<1> DEFINE n == Len(x.history)
<1>1. n \in Nat
  BY DEF Commitment
<1>2. /\ y \in Commitment /\ Len(y.history) = n + 1
      /\ \A i \in 1..n : y.history[i] = x.history[i]
      /\ y.history[n + 1] = [from |-> x.state, to |-> to, at |-> at, actor |-> actor]
  BY TransitionedType, TransitionedEntries
<1> SUFFICES ASSUME NEW i \in 1..(n + 1) PROVE y.history[i].at \in 0..at
  BY <1>2
<1>3. CASE i \in 1..n
  BY <1>2, <1>3
<1>4. CASE i = n + 1
  BY <1>2, <1>4
<1>5. QED
  BY <1>1, <1>3, <1>4

LEMMA LeadsStamped ==
  ASSUME NEW s, s.world \in [Commitments -> Commitment], NEW at \in Nat, StampedBy(s.world, at),
         NEW a, Proposable(a), NEW expected, NEW v, NEW t, Leads(s, a, expected, at, v, t)
  PROVE  StampedBy(t.world, at)
<1> DEFINE id == a.commitment
<1>1. t.world = s.world \/ (id \in Commitments /\ t.world = MoveIn(s.world, a, at))
  BY DEF Leads, Tallied, Moved, Watched, Guarded, GuardAccepts
<1>2. ASSUME id \in Commitments, NEW c \in Commitments, NEW w, w = MoveIn(s.world, a, at),
             NEW i \in 1..Len(w[c].history)
      PROVE  w[c].history[i].at \in 0..at
  <2>1. CASE c # id
    BY <1>2, <2>1 DEF MoveIn, StampedBy
  <2>2. CASE c = id
    <3> PICK x : x = s.world[id]
      OBVIOUS
    <3>1. w[c] = Transitioned(x, a.to, a.actor, at) /\ x \in Commitment
      BY <1>2, <2>2 DEF MoveIn
    <3>2. a.to \in States /\ a.actor \in Actors
      BY DEF Proposable
    <3>3. \A j \in 1..Len(x.history) : x.history[j].at \in 0..at
      BY <1>2 DEF StampedBy
    <3>4. QED
      BY <1>2, <3>1, <3>2, <3>3, MoveStamped
  <2>3. QED
    BY <2>1, <2>2
<1>3. QED
  BY <1>1, <1>2 DEF StampedBy

\* h is the session the live one has been after each entry of the log.
Course(h) ==
  /\ h = [i \in 0..Len(log) |-> h[i]]
  /\ h[0] = Opened /\ h[Len(log)] = Live
  /\ \A i \in 1..Len(log) :
       \E at \in Times :
         /\ StampedBy(h[i - 1].world, at)
         /\ Leads(h[i - 1], log[i].action, log[i].expected, at, log[i].verdict, h[i])

\* A replay has reproduced the verdicts it has come past, and the session after them.
Follows(h) ==
  /\ cursor \in 1..(Len(log) + 1)
  /\ rebuilt \in Seq(Verdicts) /\ Len(rebuilt) = cursor - 1
  /\ \A i \in 1..(cursor - 1) : rebuilt[i] = log[i].verdict
  /\ Alike(h[cursor - 1], Redone)

ReplayInv ==
  /\ OwedInv /\ restarts \in Nat
  /\ OneWholeRun =>
       /\ StampedBy(world, clock) /\ StampedBy(rworld, clock)
       /\ \E h : /\ Course(h)
                 /\ cursor = 0 => Redone = Opened /\ rebuilt = <<>>
                 /\ cursor # 0 => Follows(h)

LEMMA ProcessKeepsCourse ==
  ASSUME ReplayInv, NEW a \in Requests, NEW expected, Process(a, expected), OneWholeRun'
  PROVE  /\ StampedBy(world, clock)' /\ StampedBy(rworld, clock)'
         /\ \E h : /\ Course(h)'
                   /\ (cursor = 0 => Redone = Opened /\ rebuilt = <<>>)'
                   /\ (cursor # 0 => Follows(h))'
<1>1. /\ UNCHANGED <<clock, restarts, replayVars>> /\ cursor = 0
      /\ threw' = FALSE
  BY DEF Process, OneWholeRun
<1>2. PICK v \in Verdicts : AppendEntry(a, expected, v) /\ Leads(Live, a, expected, clock, v, Live')
  BY <1>1, ProcessLeads
<1>3. threw = FALSE \/ ~threw
  BY <1>1, <1>2 DEF AppendEntry
<1>4. OneWholeRun
  BY <1>1, <1>2 DEF OneWholeRun, AppendEntry
<1>5. PICK h : Course(h)
  BY <1>4 DEF ReplayInv
<1>6. StampedBy(world, clock) /\ StampedBy(rworld, clock) /\ Redone = Opened /\ rebuilt = <<>>
  BY <1>1, <1>4 DEF ReplayInv
<1>7. clock \in Times /\ clock \in Nat /\ Proposable(a) /\ world \in [Commitments -> Commitment]
  BY RequestsAssumption, RequestType DEF ReplayInv, OwedInv, LogType, Typed
<1>8. StampedBy(Live.world, clock) /\ Live.world \in [Commitments -> Commitment]
  BY <1>6, <1>7 DEF Live
<1> PICK l2 : l2 = Live'
  OBVIOUS
<1>9. StampedBy(l2.world, clock)
  BY <1>2, <1>7, <1>8, LeadsStamped
<1>10. StampedBy(world, clock)' /\ StampedBy(rworld, clock)'
  BY <1>1, <1>6, <1>9 DEF Live, StampedBy, replayVars
<1> PICK n, e : /\ n = Len(log)
                /\ e = [action |-> a, expected |-> expected, verdict |-> v, seq |-> seq']
  OBVIOUS
<1>11. log' = Append(log, e) /\ log \in Seq(Logged) /\ n \in Nat
  BY <1>2, LenProperties DEF AppendEntry, ReplayInv, OwedInv, LogType
<1>12. /\ Len(log') = n + 1 /\ log'[n + 1] = e
       /\ \A i \in 1..n : log'[i] = log[i]
  BY <1>11
<1> DEFINE g == [i \in 0..(n + 1) |-> IF i = n + 1 THEN l2 ELSE h[i]]
<1>13. g[0] = Opened /\ g[n + 1] = l2 /\ g[n] = Live /\ \A i \in 1..n : g[i] = h[i] /\ g[i - 1] = h[i - 1]
  BY <1>5, <1>11 DEF Course
<1>14. g = [i \in 0..(n + 1) |-> g[i]]
  OBVIOUS
<1> HIDE DEF g
<1>15. ASSUME NEW i \in 1..(n + 1)
       PROVE  \E at \in Times :
                /\ StampedBy(g[i - 1].world, at)
                /\ Leads(g[i - 1], log'[i].action, log'[i].expected, at, log'[i].verdict, g[i])
  <2>1. CASE i \in 1..n
    <3>1. log'[i] = log[i] /\ g[i] = h[i] /\ g[i - 1] = h[i - 1]
      BY <1>12, <1>13, <2>1
    <3>2. QED
      BY <1>5, <2>1, <3>1 DEF Course
  <2>2. CASE i = n + 1
    <3>1. g[i - 1] = Live /\ g[i] = l2 /\ log'[i] = e
      BY <1>11, <1>12, <1>13, <2>2
    <3>2. Leads(g[i - 1], log'[i].action, log'[i].expected, clock, log'[i].verdict, g[i])
      BY <1>2, <3>1
    <3>3. QED
      BY <1>7, <1>8, <3>1, <3>2
  <2>3. QED
    BY <1>11, <2>1, <2>2
<1>16. Course(g)'
  BY <1>12, <1>13, <1>14, <1>15 DEF Course, Opened, InitialWorld
<1>17. cursor' = 0 /\ (Redone = Opened /\ rebuilt = <<>>)'
  BY <1>1, <1>6 DEF replayVars, Redone, Opened, InitialWorld
<1>18. QED
  BY <1>10, <1>16, <1>17

LEMMA ReplayFollows ==
  ASSUME ReplayInv, OneWholeRun, ReplayEntry, NEW h, Course(h), Follows(h)
  PROVE  /\ StampedBy(world, clock)' /\ StampedBy(rworld, clock)'
         /\ Course(h)' /\ cursor' # 0 /\ Follows(h)'
<1> PICK k, a, expected : k = cursor /\ a = log[cursor].action /\ expected = log[cursor].expected
  OBVIOUS
<1>1. UNCHANGED <<vars, clock, log, seq, restarts, threw>> /\ cursor' = k + 1
  BY DEF ReplayEntry
<1>2. k \in 1..Len(log) /\ Len(log) \in Nat
  BY LenProperties DEF ReplayEntry, ReplayInv, OwedInv, LogType
<1>3. PICK v \in Verdicts : rebuilt' = Append(rebuilt, v) /\ Leads(Redone, a, expected, clock, v, Redone')
  BY ReplayLeads
<1>4. PICK at \in Times : /\ StampedBy(h[k - 1].world, at)
                          /\ Leads(h[k - 1], a, expected, at, log[k].verdict, h[k])
  BY <1>2 DEF Course
<1>5. /\ Alike(h[k - 1], Redone) /\ StampedBy(Redone.world, clock) /\ StampedBy(world, clock)
      /\ rebuilt \in Seq(Verdicts) /\ Len(rebuilt) = k - 1
      /\ \A i \in 1..(k - 1) : rebuilt[i] = log[i].verdict
  BY DEF Follows, ReplayInv, Redone
<1>6. Proposable(a) /\ clock \in Nat /\ at \in Nat
  <2>1. log[k] \in Logged
    BY <1>2, ElementOfSeq DEF ReplayInv, OwedInv, LogType
  <2>2. QED
    BY <2>1, RequestType, RequestsAssumption DEF Logged, ReplayInv, OwedInv, LogType
<1> PICK r2 : r2 = Redone'
  OBVIOUS
<1>7. v = log[k].verdict /\ Alike(h[k], r2)
  BY <1>3, <1>4, <1>5, <1>6, Deterministic
<1>8. Redone.world \in [Commitments -> Commitment]
  BY <1>5 DEF Alike, AlikeWorlds
<1>9. StampedBy(r2.world, clock)
  BY <1>3, <1>5, <1>6, <1>8, LeadsStamped
<1>10. StampedBy(world, clock)' /\ StampedBy(rworld, clock)'
  BY <1>1, <1>5, <1>9 DEF vars, StampedBy, Redone
<1>11. Course(h)'
  BY <1>1 DEF Course, Live, Opened, InitialWorld, vars
<1>12. /\ rebuilt' \in Seq(Verdicts) /\ Len(rebuilt') = k /\ rebuilt'[k] = v
       /\ \A i \in 1..(k - 1) : rebuilt'[i] = rebuilt[i]
  BY <1>2, <1>3, <1>5, AppendProperties
<1>13. \A i \in 1..k : rebuilt'[i] = log[i].verdict
  BY <1>2, <1>5, <1>7, <1>12
<1>14. cursor' \in 1..(Len(log') + 1) /\ cursor' - 1 = k /\ cursor' # 0 /\ log' = log
  BY <1>1, <1>2
<1>15. Follows(h)'
  BY <1>7, <1>12, <1>13, <1>14 DEF Follows
<1>16. QED
  BY <1>10, <1>11, <1>14, <1>15

LEMMA NextReplay ==
  ASSUME StartedIsAgreed, ReplayInv, [RuntimeNext]_runtimeVars PROVE ReplayInv'
<1>1. OwedInv'
  BY NextOwed DEF ReplayInv
<1>2. CASE UNCHANGED runtimeVars
  BY <1>1, <1>2 DEF ReplayInv, OneWholeRun, StampedBy, Course, Follows, Live, Redone, Opened,
                    InitialWorld, runtimeVars, replayVars, vars
<1>3. ASSUME NEW a \in Requests, NEW expected, Process(a, expected) PROVE ReplayInv'
  <2>1. restarts' \in Nat
    BY <1>3 DEF Process, ReplayInv
  <2>2. QED
    BY <1>1, <1>3, <2>1, ProcessKeepsCourse DEF ReplayInv
<1>4. CASE Tick
  <2>1. clock \in Nat /\ clock' = clock + 1
    BY <1>4, RequestsAssumption DEF Tick, ReplayInv, OwedInv, LogType
  <2>2. UNCHANGED <<vars, log, seq, restarts, threw, replayVars>>
    BY <1>4 DEF Tick
  <2>3. ASSUME OneWholeRun PROVE StampedBy(world, clock)' /\ StampedBy(rworld, clock)'
    <3>1. StampedBy(world, clock) /\ StampedBy(rworld, clock)
      BY <2>3 DEF ReplayInv
    <3>2. world' = world /\ rworld' = rworld
      BY <2>2 DEF vars, replayVars
    <3>3. QED
      BY <2>1, <3>1, <3>2 DEF StampedBy
  <2>4. QED
    BY <1>1, <2>2, <2>3 DEF ReplayInv, OneWholeRun, Course, Follows, Live, Redone, Opened,
                    InitialWorld, replayVars, vars
<1>5. CASE Restart
  <2>1. restarts' \in Nat /\ restarts' # 0
    BY <1>5 DEF Restart, ReplayInv
  <2>2. QED
    BY <1>1, <2>1 DEF ReplayInv, OneWholeRun
<1>6. CASE StartReplay
  <2>1. /\ cursor = 0 /\ cursor' = 1
        /\ UNCHANGED <<vars, clock, log, seq, restarts, threw, rebuilt, rworld, rledger, rtreeLedger,
                       rapplied, rpaid>>
    BY <1>6 DEF StartReplay
  <2>2. ASSUME OneWholeRun, NEW h, Course(h), Redone = Opened, rebuilt = <<>>
        PROVE  Course(h)' /\ Follows(h)'
    <3>1. Course(h)'
      BY <2>1, <2>2 DEF Course, Live, Opened, InitialWorld, vars
    <3>2. Alike(h[0], Redone)
      BY <2>2, OpenedAlike DEF Course
    <3>3. Redone' = Redone /\ log' = log /\ rebuilt' = <<>> /\ Len(log) \in Nat
      BY <2>1, <2>2, LenProperties DEF Redone, ReplayInv, OwedInv, LogType
    <3>4. rebuilt' \in Seq(Verdicts) /\ Len(rebuilt') = 0
      BY <3>3, EmptySeq
    <3>5. Follows(h)'
      BY <2>1, <3>2, <3>3, <3>4 DEF Follows
    <3>6. QED
      BY <3>1, <3>5
  <2>3. OneWholeRun' => OneWholeRun /\ StampedBy(world, clock)' /\ StampedBy(rworld, clock)'
    BY <2>1 DEF ReplayInv, OneWholeRun, StampedBy, vars
  <2>4. QED
    BY <1>1, <2>1, <2>2, <2>3 DEF ReplayInv
<1>7. CASE ReplayEntry
  <2>1. restarts' = restarts /\ (OneWholeRun' => OneWholeRun) /\ cursor # 0
    <3>1. cursor \in 1..Len(log)
      BY <1>7, LenProperties DEF ReplayEntry, ReplayInv, OwedInv, LogType
    <3>2. QED
      BY <1>7, <3>1 DEF ReplayEntry, OneWholeRun
  <2>2. QED
    BY <1>1, <1>7, <2>1, ReplayFollows DEF ReplayInv
<1>8. QED
  BY <1>2, <1>3, <1>4, <1>5, <1>6, <1>7 DEF RuntimeNext

LEMMA InitReplay == ASSUME StartedIsAgreed, RuntimeInit PROVE ReplayInv
<1>1. OwedInv /\ log = <<>> /\ cursor = 0 /\ rebuilt = <<>> /\ restarts = 0 /\ clock \in Times
  BY InitOwed DEF RuntimeInit
<1>2. Live = Opened
  BY DEF RuntimeInit, Init, Live, Opened
<1>3. Redone = Opened
  <2>1. Again!InitialWorld = InitialWorld
    BY DEF Again!InitialWorld, InitialWorld, Again!Synthesized, Synthesized, Again!CommitmentPath,
           CommitmentPath, Again!Plain, Plain
  <2>2. QED
    BY <2>1 DEF RuntimeInit, Again!Init, Redone, Opened
<1>4. clock \in Nat
  BY <1>1, RequestsAssumption
<1>5. StampedBy(world, clock) /\ StampedBy(rworld, clock)
  <2>1. StampedBy(InitialWorld, clock)
    BY <1>4, OpenedAlike
  <2>2. world = InitialWorld /\ rworld = InitialWorld
    BY <1>2, <1>3 DEF Live, Redone, Opened
  <2>3. QED
    BY <2>1, <2>2
<1> DEFINE h == [i \in 0..0 |-> Opened]
<1>6. Course(h)
  <2>1. Len(log) = 0 /\ h[0] = Opened /\ h = [i \in 0..0 |-> h[i]]
    BY <1>1, EmptySeq
  <2> HIDE DEF h
  <2>2. QED
    BY <1>2, <2>1 DEF Course
<1>7. QED
  BY <1>1, <1>3, <1>5, <1>6 DEF ReplayInv

LEMMA ReplayInvariant == ASSUME StartedIsAgreed PROVE RuntimeSpec => []ReplayInv
<1>1. ReplayInv /\ [RuntimeNext]_runtimeVars => ReplayInv'
  BY NextReplay
<1>2. RuntimeInit => ReplayInv
  BY InitReplay
<1>3. QED
  BY <1>1, <1>2, PTL DEF RuntimeSpec

\* A replay gives every action of one run the verdict it was recorded with, whenever
\* it takes them: a session's verdicts depend on no clock but through deliveries that
\* start after the session did.
THEOREM ReplayReproduces ==
  ASSUME StartedIsAgreed PROVE RuntimeSpec => []VerdictsReproduced
<1>1. ReplayInv => VerdictsReproduced
  <2> SUFFICES ASSUME ReplayInv, OneWholeRun, NEW i \in DOMAIN rebuilt
               PROVE  rebuilt[i] = log[i].verdict
    BY DEF VerdictsReproduced
  <2>1. CASE cursor = 0
    BY <2>1, LenProperties DEF ReplayInv
  <2>2. CASE cursor # 0
    <3>1. PICK h : Follows(h)
      BY <2>2 DEF ReplayInv
    <3>2. i \in 1..(cursor - 1)
      BY <3>1, LenProperties DEF Follows
    <3>3. QED
      BY <3>1, <3>2 DEF Follows
  <2>3. QED
    BY <2>1, <2>2
<1>2. QED
  BY <1>1, ReplayInvariant, PTL

\* ... and at the end of the log it has rebuilt the session, with what the world does
\* not show of it.
THEOREM ReplayRebuilds ==
  ASSUME StartedIsAgreed PROVE RuntimeSpec => []ReplayRebuildsSession
<1>1. ReplayInv => ReplayRebuildsSession
  <2> SUFFICES ASSUME ReplayInv, OneWholeRun, cursor = Len(log) + 1
               PROVE  /\ WorldsEqual(world, rworld)
                      /\ ledger = rledger /\ treeLedger = rtreeLedger /\ applied = rapplied
    BY DEF ReplayRebuildsSession
  <2>1. Len(log) \in Nat
    BY LenProperties DEF ReplayInv, OwedInv, LogType
  <2>2. PICK h : Course(h) /\ Follows(h)
    BY <2>1 DEF ReplayInv
  <2>3. Alike(Live, Redone)
    BY <2>1, <2>2 DEF Course, Follows
  <2>4. ASSUME NEW c \in Commitments PROVE Unstamped(world[c]) = Unstamped(rworld[c])
    <3> PICK x, y : x = world[c] /\ y = rworld[c]
      OBVIOUS
    <3>1. AlikeCommitments(c, x, y)
      BY <2>3 DEF Alike, AlikeWorlds, Live, Redone
    <3>2. DOMAIN x.history = 1..Len(x.history) /\ DOMAIN y.history = 1..Len(x.history)
      BY <3>1, LenProperties DEF AlikeCommitments, Commitment
    <3>3. QED
      BY <3>1, <3>2 DEF AlikeCommitments, Unstamped
  <2>5. QED
    BY <2>3, <2>4 DEF Alike, Live, Redone, WorldsEqual
<1>2. QED
  BY <1>1, ReplayInvariant, PTL
=============================================================================
