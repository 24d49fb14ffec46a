------------------------------ MODULE Runtime ------------------------------
(***************************************************************************)
(* CommerceRuntime: every proposed action goes through one session, and an *)
(* entry with its verdict is appended to an audit log.  The log is a file  *)
(* (FileAuditStore), so it survives the process; replayLog runs its        *)
(* actions through a fresh runtime.  The wall clock never runs backwards.  *)
(***************************************************************************)
EXTENDS Session

CONSTANTS
  MaxLog,        \* bound: the entries a log may hold
  MaxRestarts    \* bound: how often the process dies and is started again

ASSUME RuntimeAssumption == MaxLog \in Nat /\ MaxRestarts \in Nat

VARIABLES
  clock,       \* the wall clock
  log,         \* the audit log: entries [action, expected, verdict, seq]
  seq,         \* this runtime's entry counter
  restarts,
  threw,       \* history variable: an exception has left process()
  cursor,      \* the log entry replayLog comes to next, or 0: no replay yet
  rebuilt,     \* the verdicts the replay has produced
  rworld, rledger, rtreeLedger, rapplied, rpaid   \* the session of the replay

replayVars == <<cursor, rebuilt, rworld, rledger, rtreeLedger, rapplied, rpaid>>
runtimeVars == <<vars, clock, log, seq, restarts, threw, replayVars>>

\* The fresh session a replay proposes the recorded actions to.
Again == INSTANCE Session WITH
  world <- rworld, ledger <- rledger, treeLedger <- rtreeLedger,
  applied <- rapplied, paid <- rpaid

-----------------------------------------------------------------------------

\* A caller gives no version, the current one, or the one it read at the start.
CallerVersions(a) ==
  {None} \cup IF Known(a) THEN {CommitmentVersion(world[a.commitment]),
                                CommitmentVersion(InitialWorld[a.commitment])} ELSE {}

\* process() appends an entry once propose() has returned a verdict.
AppendEntry(a, expected, verdict) ==
  /\ seq' = seq + 1 /\ UNCHANGED threw
  /\ log' = Append(log, [action |-> a, expected |-> expected, verdict |-> verdict, seq |-> seq'])

\* process(action): an exception out of propose() leaves nothing in the log.
Process(a, expected) ==
  /\ Len(log) < MaxLog /\ cursor = 0
  /\ \/ Replay(a) /\ AppendEntry(a, expected, "replay")
     \/ Conflict(a, expected) /\ AppendEntry(a, expected, "conflict")
     \/ RefundInPart(a, expected) /\ AppendEntry(a, expected, "ok")
     \/ RefundInFull(a, expected, clock) /\ AppendEntry(a, expected, "ok")
     \/ Advance(a, expected, clock) /\ AppendEntry(a, expected, "ok")
     \/ Reject(a, expected, clock) /\ AppendEntry(a, expected, "rejected")
     \/ RefundThrows(a, expected, clock) /\ threw' = TRUE /\ UNCHANGED <<log, seq>>
  /\ UNCHANGED <<clock, restarts, replayVars>>

\* Time passes.
Tick ==
  /\ clock + 1 \in Times
  /\ clock' = clock + 1
  /\ UNCHANGED <<vars, log, seq, restarts, threw, replayVars>>

\* The process dies; a new runtime over the same initial world appends to the file
\* the old one left.  What was paid back stays paid back.
Restart ==
  /\ restarts < MaxRestarts /\ cursor = 0
  /\ restarts' = restarts + 1
  /\ world' = InitialWorld
  /\ ledger' = [c \in Commitments |-> 0]
  /\ treeLedger' = [c \in Commitments |-> NoMoney]
  /\ applied' = {}
  /\ seq' = 0
  /\ UNCHANGED <<paid, clock, log, threw, replayVars>>

-----------------------------------------------------------------------------
(* replayLog(initialWorld, store), taken at the end of a run.              *)

\* Slips: the recorded action loses its key, or the version it was planned against.
RecordedKeyless(i) == [log[i].action EXCEPT !.key = None]
RecordedUnversioned(i) == None

\* actionsOf: the actions of the log as they were recorded.
RecordedAction(i) == log[i].action
RecordedVersion(i) == log[i].expected

StartReplay ==
  /\ cursor = 0 /\ log # <<>>
  /\ cursor' = 1
  /\ UNCHANGED <<vars, clock, log, seq, restarts, threw, rebuilt, rworld, rledger, rtreeLedger,
                 rapplied, rpaid>>

ReplayEntry ==
  /\ cursor \in DOMAIN log
  /\ cursor' = cursor + 1
  /\ LET a == RecordedAction(cursor)
         expected == RecordedVersion(cursor)
         verdict(v) == rebuilt' = Append(rebuilt, v)
     IN \/ Again!Replay(a) /\ verdict("replay")
        \/ Again!Conflict(a, expected) /\ verdict("conflict")
        \/ Again!RefundInPart(a, expected) /\ verdict("ok")
        \/ Again!RefundInFull(a, expected, clock) /\ verdict("ok")
        \/ Again!Advance(a, expected, clock) /\ verdict("ok")
        \/ Again!Reject(a, expected, clock) /\ verdict("rejected")
  /\ UNCHANGED <<vars, clock, log, seq, restarts, threw>>

RuntimeInit ==
  /\ Init /\ Again!Init
  /\ clock \in Times /\ \A t \in Times : clock <= t
  /\ log = <<>> /\ rebuilt = <<>>
  /\ seq = 0 /\ restarts = 0 /\ cursor = 0 /\ threw = FALSE

RuntimeNext ==
  \/ \E a \in Requests : \E expected \in CallerVersions(a) : Process(a, expected)
  \/ Tick
  \/ Restart
  \/ StartReplay
  \/ ReplayEntry

RuntimeSpec == RuntimeInit /\ [][RuntimeNext]_runtimeVars

-----------------------------------------------------------------------------
(* Properties.                                                             *)

Verdicts == {"ok", "replay", "conflict", "rejected"}

\* Slip: replayed entries are described as well.
RefundEffectsTwice(c, m) ==
  {i \in DOMAIN log : /\ log[i].verdict \in {"ok", "replay"}
                      /\ log[i].action.commitment = c
                      /\ log[i].action.to.type = "Refunded"
                      /\ log[i].action.to.amount.currency = m}

\* describeEffects: the refunds of the entries that were applied.
RefundEffects(c, m) ==
  {i \in DOMAIN log : /\ log[i].verdict = "ok"
                      /\ log[i].action.commitment = c
                      /\ log[i].action.to.type = "Refunded"
                      /\ log[i].action.to.amount.currency = m}

\* The effects described from the log are exactly the money the accepted verdicts
\* owed, even over a log that several runs of the process have appended to: a host
\* that works off the log pays what a host that works off the verdicts would pay.
EffectsAreWhatIsOwed ==
  \A c \in Commitments, m \in Currencies :
    LET amount == [i \in RefundEffects(c, m) |-> log[i].action.to.amount.amount]
    IN paid[c][m] = SumFunctionOnSet(amount, RefundEffects(c, m))

\* worldsEqual: equal up to the stamps of the histories.
Unstamped(c) ==
  [state |-> c.state,
   moves |-> [i \in DOMAIN c.history |-> <<c.history[i].from, c.history[i].to, c.history[i].actor>>]]
WorldsEqual(v, w) == \A c \in Commitments : Unstamped(v[c]) = Unstamped(w[c])

\* The log of one run of the process, with every action it took on it.
OneWholeRun == restarts = 0 /\ ~threw

\* Replaying the log of one run of the process gives every recorded action the verdict
\* it was recorded with, at whatever later instants the replay takes them.
VerdictsReproduced == OneWholeRun => \A i \in DOMAIN rebuilt : rebuilt[i] = log[i].verdict

\* A replay that has come to the end of the log has rebuilt the live session: the
\* world up to its stamps, and also what the world does not show, the ledgers of the
\* refunds and the keys of the actions applied.
ReplayRebuildsSession ==
  OneWholeRun /\ cursor = Len(log) + 1 =>
    /\ WorldsEqual(world, rworld)
    /\ ledger = rledger /\ treeLedger = rtreeLedger /\ applied = rapplied

=============================================================================
