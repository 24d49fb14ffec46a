------------------------------- MODULE Interop -------------------------------
(***************************************************************************)
(* reconcile and unify: several platforms' records of one deal compared    *)
(* with the first of them, the primary, one source at a time, and then     *)
(* merged into one commitment.  A source is what an adapter mapped: the    *)
(* money it commits, if any, and whether the auditor accepts it alone.     *)
(***************************************************************************)
EXTENDS CommerceModel, SequencesExt

CONSTANT Batches   \* the sequences of sources that may be passed: [money, sound]

ASSUME BatchesAssumption == Batches \subseteq Seq([money : Money \cup {NoMoney}, sound : BOOLEAN])

VARIABLES
  sources,    \* the call's argument
  conserves,  \* per source looked at: whether it agrees with the primary
  merged      \* "open" while sources are looked at, then "ok" or "violations"

interopVars == <<sources, conserves, merged>>

\* Two sources commit comparable money, and it differs beyond the tolerance.
Differs(one, other) ==
  /\ one.money # NoMoney /\ other.money # NoMoney
  /\ \/ other.money.currency # one.money.currency
     \/ ~MoneyEquals(other.money.amount, one.money.amount)

\* Slip: neighbours are compared instead of each with the primary.
UnifiesAlongChain(batch) ==
  /\ batch # <<>>
  /\ \A i \in 2..Len(batch) : ~Differs(batch[i - 1], batch[i])
  /\ batch[1].sound

\* unify: no source differs from the primary, whose commitment the auditor accepts.
Unifies(batch) ==
  /\ batch # <<>>
  /\ \A i \in 2..Len(batch) : ~Differs(batch[1], batch[i])
  /\ batch[1].sound

\* The primary conserves against itself; any other source if the two of them unify.
CompareSource ==
  /\ merged = "open" /\ Len(conserves) < Len(sources)
  /\ LET i == Len(conserves) + 1
     IN conserves' = Append(conserves, i = 1 \/ Unifies(<<sources[1], sources[i]>>))
  /\ UNCHANGED <<sources, merged>>

MergeSources ==
  /\ merged = "open" /\ Len(conserves) = Len(sources)
  /\ merged' = IF Unifies(sources) THEN "ok" ELSE "violations"
  /\ UNCHANGED <<sources, conserves>>

InteropInit == sources \in Batches /\ conserves = <<>> /\ merged = "open"

InteropNext == CompareSource \/ MergeSources

InteropSpec == InteropInit /\ [][InteropNext]_interopVars

-----------------------------------------------------------------------------
(* Properties.                                                             *)

\* Several sources merge exactly when the primary is sound and every line of the report
\* conserves; a line that conserves agrees with the primary, and over a sound primary a line
\* that agrees conserves: a drift is then the source's own.  What merges is one picture: no
\* two sources are two tolerances apart, though the tolerance is not transitive.  Over an
\* unsound primary reconcile() also flags sources that agree (the pair with it does not unify,
\* reconcile.ts:142), where reconcile.ts:40 says "`conserves` is true when the source agrees
\* with the primary"; which lines it flags there is left open.
PictureIsWhole ==
  /\ merged # "open" /\ sources # <<>> =>
       ((merged = "ok") <=> sources[1].sound /\ \A i \in DOMAIN conserves : conserves[i])
  /\ \A i \in DOMAIN conserves : conserves[i] => ~Differs(sources[1], sources[i])
  /\ sources # <<>> /\ sources[1].sound =>
       \A i \in DOMAIN conserves : ~Differs(sources[1], sources[i]) => conserves[i]
  /\ merged = "ok" =>
       \A i, j \in DOMAIN sources :
         /\ sources[1].money # NoMoney
         /\ sources[i].money # NoMoney /\ sources[j].money # NoMoney
         => /\ sources[i].money.currency = sources[j].money.currency
            /\ sources[i].money.amount < sources[j].money.amount + 2 * Eps
=============================================================================
