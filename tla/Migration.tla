------------------------------ MODULE Migration ------------------------------
(***************************************************************************)
(* migrate: a set of migrations resolved into a chain by following their   *)
(* version links, then applied hop by hop, each result audited before the  *)
(* next.  One turn of either loop is one step.  Versions and worlds are    *)
(* model values; a transform is a function on worlds.                      *)
(***************************************************************************)
EXTENDS Integers, SequencesExt

CONSTANTS
  Offered,    \* the lists of migrations that may be passed: [from, to, transform]
  Versions,
  Worlds,     \* the worlds a migration may start from or produce
  Sound,      \* those the auditor accepts
  Absent      \* an option that is left out

ASSUME OfferedAssumption ==
  /\ Offered \subseteq Seq([from : Versions, to : Versions, transform : [Worlds -> Worlds]])
  /\ Sound \subseteq Worlds

VARIABLES
  migrations, source, target, original,  \* the call's arguments
  stage,       \* "order", "follow", "apply", "ok", "chain" or "audit"
  cursor,      \* the version the chain has reached
  chain,       \* the hops chosen so far
  done,        \* how many of them have been applied
  current      \* the world they made

migrationVars ==
  <<migrations, source, target, original, stage, cursor, chain, done, current>>

MigrationInit ==
  /\ migrations \in Offered
  /\ source \in Versions \cup {Absent} /\ target \in Versions \cup {Absent}
  /\ original \in Worlds
  /\ stage = "order" /\ cursor = source /\ chain = <<>> /\ done = 0 /\ current = original

ArgumentsKept == UNCHANGED <<migrations, source, target, original>>

Connected(hops) == \A i \in 2..Len(hops) : hops[i - 1].to = hops[i].from

Ambiguous(hops) == \E i, j \in DOMAIN hops : i # j /\ hops[i].from = hops[j].from

\* No migration, no source version, or a source version to follow the links from.
Order ==
  /\ stage = "order"
  /\ \/ migrations = <<>> /\ stage' = "apply" /\ UNCHANGED chain
     \/ /\ migrations # <<>> /\ source = Absent
        /\ IF Connected(migrations)
           THEN stage' = "apply" /\ chain' = migrations
           ELSE stage' = "chain" /\ UNCHANGED chain
     \/ /\ migrations # <<>> /\ source # Absent
        /\ stage' = IF Ambiguous(migrations) THEN "chain" ELSE "follow"
        /\ UNCHANGED chain
  /\ UNCHANGED <<cursor, done, current>> /\ ArgumentsKept

From(version) == {i \in DOMAIN migrations : migrations[i].from = version}

Passed(version) == \E i \in DOMAIN chain : chain[i].from = version

\* Slip: the cycle is noticed and the loop goes round again.
CycleNoticed == UNCHANGED stage

CycleFound == stage' = "chain"

\* One link; the chain ends at the target, where no migration starts, or in a cycle.
Follow ==
  /\ stage = "follow"
  /\ \/ /\ cursor = target
        /\ stage' = "apply" /\ UNCHANGED <<chain, cursor>>
     \/ /\ cursor # target /\ From(cursor) = {}
        /\ stage' = IF target = Absent THEN "apply" ELSE "chain"
        /\ UNCHANGED <<chain, cursor>>
     \/ /\ cursor # target /\ From(cursor) # {} /\ Passed(cursor)
        /\ CycleFound /\ UNCHANGED <<chain, cursor>>
     \/ /\ cursor # target /\ ~Passed(cursor)
        /\ \E i \in From(cursor) :
             chain' = Append(chain, migrations[i]) /\ cursor' = migrations[i].to
        /\ UNCHANGED stage
  /\ UNCHANGED <<done, current>> /\ ArgumentsKept

\* Slip: the result is adopted first and audited afterwards, and kept when it fails.
ApplyFirst ==
  /\ stage = "apply"
  /\ IF done = Len(chain) THEN stage' = "ok" /\ UNCHANGED <<done, current>>
     ELSE LET result == chain[done + 1].transform[current]
          IN /\ current' = result
             /\ done' = done + 1
             /\ stage' = IF done + 1 = Len(chain) THEN "ok" ELSE stage
  /\ UNCHANGED <<chain, cursor>> /\ ArgumentsKept

\* One hop: the world it makes is audited, and kept only if the audit is clean.
Apply ==
  /\ stage = "apply"
  /\ IF done = Len(chain) THEN stage' = "ok" /\ UNCHANGED <<done, current>>
     ELSE LET result == chain[done + 1].transform[current]
          IN IF result \in Sound
             THEN current' = result /\ done' = done + 1 /\ UNCHANGED stage
             ELSE stage' = "audit" /\ UNCHANGED <<done, current>>
  /\ UNCHANGED <<chain, cursor>> /\ ArgumentsKept

MigrationNext == Order \/ Follow \/ Apply

MigrationSpec == MigrationInit /\ [][MigrationNext]_migrationVars

MigrationEnded == stage \in {"ok", "chain", "audit"}

-----------------------------------------------------------------------------
(* Properties.                                                             *)

\* The worlds the first n hops make of the original one after another, audited or not.
Course(n, made) ==
  made[0] = original /\ \A i \in 1..n : made[i] = chain[i].transform[made[i - 1]]

\* "A bad migration cannot hand back an invalid world": a success hands back what the
\* whole chain makes, sound after every hop; a rejection by the audit comes at the first
\* hop that makes an unsound world.
HandsBackSoundWorlds ==
  /\ stage = "ok" =>
       \E made \in [0..Len(chain) -> Worlds] :
         /\ Course(Len(chain), made)
         /\ current = made[Len(chain)] /\ \A n \in 1..Len(chain) : made[n] \in Sound
  /\ stage = "audit" =>
       \E made \in [0..(done + 1) -> Worlds] :
         /\ Course(done + 1, made)
         /\ made[done + 1] \notin Sound /\ \A n \in 1..done : made[n] \in Sound

\* An accepted chain leads somewhere without a gap: from the version asked for to the
\* version asked for, when there was anything to apply, no hop being taken twice.
ChainLeadsToTarget ==
  stage \in {"apply", "ok"} /\ migrations # <<>> =>
    /\ \A i \in 2..Len(chain) : chain[i - 1].to = chain[i].from
    /\ source # Absent =>
         /\ chain # <<>> => chain[1].from = source
         /\ target # Absent =>
              target = IF chain = <<>> THEN source ELSE chain[Len(chain)].to
         /\ \A i, j \in DOMAIN chain : i # j => chain[i].from # chain[j].from

\* An accepted chain and the worlds it makes: both, in every behaviour of migrate().
MigratedSoundly == HandsBackSoundWorlds /\ ChainLeadsToTarget
=============================================================================
