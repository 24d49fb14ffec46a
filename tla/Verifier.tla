------------------------------- MODULE Verifier -------------------------------
(***************************************************************************)
(* verifyLifecycle and reachableStates: breadth-first search of a proposed *)
(* transition table from a start state, up to an optional depth, holding   *)
(* every edge against the model's own table.  One turn of the loop is one  *)
(* step.  The parent pointers are kept as the paths they spell.            *)
(***************************************************************************)
EXTENDS CommerceModel, SequencesExt

CONSTANTS
  Tables,   \* the transition tables that may be proposed: state type -> set of state types
  Starts,   \* the start states
  Depths    \* the depth bounds (at most the number of state types), None for no bound

VARIABLES
  table, start, depth,  \* the call's options
  queue,                \* the states discovered and not yet expanded
  depthOf,              \* the states discovered, with the depth at which they were
  pathTo,               \* how each was discovered
  forbidden,            \* the forbidden moves met, as paths that end with one
  truncated             \* whether the bound cut something off

verifierVars == <<table, start, depth, queue, depthOf, pathTo, forbidden, truncated>>

\* The oracle: is the edge in the model's own table?
Legal(s, t) == IsValidCommitmentTransition(Plain(s), Plain(t))

Discovered(s) == s \in DOMAIN depthOf

\* A search begins with its start state discovered, at depth 0.
SearchFrom(moves, from, limit) ==
  /\ table = moves /\ start = from /\ depth = limit
  /\ queue = <<from>>
  /\ depthOf = [s \in {from} |-> 0]
  /\ pathTo = [s \in {from} |-> <<from>>]
  /\ forbidden = {}
  /\ truncated = FALSE

VerifierInit ==
  \E moves \in Tables, from \in Starts, limit \in Depths : SearchFrom(moves, from, limit)

AtBound(s) == depth # None /\ depthOf[s] >= depth

\* A state at the bound is not expanded; the bound cut something off if the state has
\* a successor that was not discovered.
StopAtBound ==
  /\ queue # <<>>
  /\ AtBound(Head(queue))
  /\ truncated' = (truncated \/ \E t \in table[Head(queue)] : ~Discovered(t))
  /\ queue' = Tail(queue)
  /\ UNCHANGED <<table, start, depth, depthOf, pathTo, forbidden>>

NewFrom(s) == {t \in table[s] : ~Discovered(t)}

ForbiddenFrom(s) == {t \in table[s] : ~Legal(s, t)}

\* Slip: the state last discovered is expanded first.
EnqueueFirst(new) == \E order \in SetToSeqs(new) : queue' = order \o Tail(queue)

\* New states join the queue in the order the table lists them.
Enqueue(new) == \E order \in SetToSeqs(new) : queue' = Tail(queue) \o order

Expand ==
  /\ queue # <<>>
  /\ ~AtBound(Head(queue))
  /\ LET s   == Head(queue)
         new == NewFrom(s)
     IN /\ forbidden' = forbidden \cup {Append(pathTo[s], t) : t \in ForbiddenFrom(s)}
        /\ depthOf' = [t \in DOMAIN depthOf \cup new |->
                        IF t \in new THEN depthOf[s] + 1 ELSE depthOf[t]]
        /\ pathTo' = [t \in DOMAIN pathTo \cup new |->
                       IF t \in new THEN Append(pathTo[s], t) ELSE pathTo[t]]
        /\ Enqueue(new)
  /\ UNCHANGED <<table, start, depth, truncated>>

VerifierNext == StopAtBound \/ Expand

-----------------------------------------------------------------------------

VerdictOf ==
  IF forbidden # {} THEN "violation-found"
  ELSE IF truncated THEN "sound-within-bound" ELSE "fixpoint-sound"

-----------------------------------------------------------------------------
(* Properties.                                                             *)

\* What the table reaches in at most n moves, by definition.
Within[n \in 0..Cardinality(StateTypes)] ==
  IF n = 0 THEN {start}
  ELSE LET nearer == Within[n - 1] IN nearer \cup UNION {table[s] : s \in nearer}

Reachable == Within[Cardinality(StateTypes)]
Distance(s) == CHOOSE n \in DOMAIN Within : s \in Within[n] /\ (n > 0 => s \notin Within[n - 1])
Explored == queue = <<>>

\* What has been discovered is reachable, at its least depth, and at the end everything
\* within the bound has been, so that the bound means what it says.  Every
\* counterexample is a path of the proposed table, as short as any to its last move,
\* which is forbidden; at the end every forbidden move from above the bound has one.
SearchTellsTable ==
  /\ \A s \in DOMAIN depthOf : s \in Reachable /\ depthOf[s] = Distance(s)
  /\ \A p \in forbidden :
       /\ p[1] = start
       /\ \A i \in 2..Len(p) : p[i] \in table[p[i - 1]]
       /\ Len(p) = Distance(p[Len(p) - 1]) + 2
       /\ ~Legal(p[Len(p) - 1], p[Len(p)])
  /\ Explored =>
       /\ DOMAIN depthOf = IF depth = None THEN Reachable ELSE Within[depth]
       /\ \A s \in DOMAIN depthOf : \A t \in table[s] :
            ~AtBound(s) /\ ~Legal(s, t) =>
              \E p \in forbidden : p[Len(p) - 1] = s /\ p[Len(p)] = t

\* "fixpoint-sound": the whole reachable set was enumerated and the reachable state
\* machine is sound, every edge of it being legal.  The doc of verify.ts says so of any
\* bound; SearchTellsTable gives it without one.
FixpointIsSound ==
  Explored /\ VerdictOf = "fixpoint-sound" =>
    /\ DOMAIN depthOf = Reachable
    /\ \A s \in Reachable : \A t \in table[s] : Legal(s, t)

-----------------------------------------------------------------------------
(* auditPlatformModel: the states and moves a platform declares, mapped to *)
(* the model's states.  Each mapped move is held against the model's own   *)
(* table, and the mapped graph is handed to verifyLifecycle.               *)

CONSTANTS
  Models   \* the platform models: [states, transitions, mapping, start]; a state may
           \* be left out of the mapping, the start may be None

VARIABLE platform   \* the model audited; None when verifyLifecycle is called by itself

platformVars == <<verifierVars, platform>>

Mapped(p, s) == s \in DOMAIN p.mapping
CheckedMoves(p) == {m \in p.transitions : Mapped(p, m[1]) /\ Mapped(p, m[2])}

\* Slip: only the state a move leaves is looked up before it counts as checked.
IllegalAmongSources(p) ==
  {m \in CheckedMoves(p) : CommitmentTransitions[p.mapping[m[1]]] = {}}

\* The declared moves that map to one the model forbids.
IllegalMoves(p) == {m \in CheckedMoves(p) : ~Legal(p.mapping[m[1]], p.mapping[m[2]])}

MappedTable(p) ==
  [s \in StateTypes |-> {p.mapping[m[2]] : m \in {n \in CheckedMoves(p) : p.mapping[n[1]] = s}}]

\* The declared start, or the first state that moves are declared from and none to, or
\* the first of all.
StartState(p) ==
  LET source(s) == /\ \E m \in p.transitions : m[1] = s
                   /\ \A m \in p.transitions : m[2] # s
  IN IF p.start # None THEN p.start
     ELSE IF \E i \in DOMAIN p.states : source(p.states[i])
          THEN p.states[CHOOSE i \in DOMAIN p.states :
                          source(p.states[i]) /\ \A j \in 1..(i - 1) : ~source(p.states[j])]
          ELSE p.states[1]

\* An unmapped start state falls back to Draft.
MappedStart(p) == IF Mapped(p, StartState(p)) THEN p.mapping[StartState(p)] ELSE "Draft"

PlatformInit ==
  /\ platform \in Models
  /\ SearchFrom(MappedTable(platform), MappedStart(platform), None)

PlatformNext == VerifierNext /\ UNCHANGED platform

ReportedSound == IllegalMoves(platform) = {}

\* Either caller of the search.
SearchInit == (VerifierInit /\ platform = None) \/ PlatformInit
SearchSpec == SearchInit /\ [][PlatformNext]_platformVars

ASSUME SearchAssumption ==
  /\ Tables \subseteq [StateTypes -> SUBSET StateTypes]
  /\ Starts \subseteq StateTypes
  /\ Depths \subseteq (0..Cardinality(StateTypes)) \cup {None}
  /\ None \notin Nat
  /\ \A p \in Models : \A s \in DOMAIN p.mapping : p.mapping[s] \in StateTypes

-----------------------------------------------------------------------------
(* Properties.                                                             *)

\* The two halves of the report agree: a model reported sound never has a counterexample,
\* and one reported unsound has one exactly when an illegal move can be reached from the
\* start; each counterexample ends with a declared illegal move, in the model's terms.
ReportAgreesWithSearch ==
  platform # None =>
  LET mapped(m) == <<platform.mapping[m[1]], platform.mapping[m[2]]>>
  IN /\ \A p \in forbidden :
          \E m \in IllegalMoves(platform) : mapped(m) = <<p[Len(p) - 1], p[Len(p)]>>
     /\ Explored =>
          \A m \in IllegalMoves(platform) :
            platform.mapping[m[1]] \in Reachable =>
              \E p \in forbidden : mapped(m) = <<p[Len(p) - 1], p[Len(p)]>>
     /\ Explored /\ ReportedSound => VerdictOf = "fixpoint-sound"

\* Both users of the search are told the truth: its verdict is that of the table it
\* was given, and an audit of a platform's model says of it what the search says.
SearchesAgree == SearchTellsTable /\ ReportAgreesWithSearch
=============================================================================
