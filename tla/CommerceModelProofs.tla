------------------------ MODULE CommerceModelProofs ------------------------
(***************************************************************************)
(* Facts about the pure operators of CommerceModel, cited by the proofs of *)
(* the state machines built on it.                                         *)
(***************************************************************************)
EXTENDS CommerceModel, Functions, SequenceTheorems, FiniteSetTheorems, TLAPS

\* The states without an amount are states, except Refunded.
LEMMA PlainIsState ==
  ASSUME NEW t \in StateTypes, t # "Refunded"
  PROVE  Plain(t) \in States
BY MoneyAssumption DEF Plain, States

\* Sets of naturals have a least element.
LEMMA LeastNatural ==
  ASSUME NEW X \in SUBSET Nat, X # {}
  PROVE  \E m \in X : \A k \in X : m <= k
<1>1. PICK m \in X : \A k \in X : ~(<<k, m>> \in OpToRel(<, Nat))
  BY NatLessThanWellFounded, WFMin, Zenon
<1>2. \A k \in X : ~(<<k, m>> \in {pair \in Nat \X Nat : pair[1] < pair[2]})
  BY <1>1, Zenon DEF OpToRel
<1>3. ASSUME NEW k \in X
      PROVE  m <= k
  <2>1. k \in Nat /\ m \in Nat
    OBVIOUS
  <2>2. ~(k < m)
    BY <1>2, <2>1
  <2>3. QED
    BY <2>1, <2>2
<1>4. QED
  BY <1>3

\* transitionCommitment yields a well-formed commitment in the target state, with a
\* history one entry longer.
LEMMA TransitionedType ==
  ASSUME NEW c \in Commitment, NEW to \in States, NEW actor \in Actors, NEW at \in Nat
  PROVE  /\ Transitioned(c, to, actor, at) \in Commitment
         /\ Transitioned(c, to, actor, at).state = to
         /\ Len(Transitioned(c, to, actor, at).history) = Len(c.history) + 1
BY DEF Commitment, Transitioned, Entry

\* The entries of the new history are the old ones and the new one.
LEMMA TransitionedEntries ==
  ASSUME NEW c \in Commitment, NEW to \in States, NEW actor \in Actors, NEW at \in Nat
  PROVE  LET h == Transitioned(c, to, actor, at).history
             n == Len(c.history) + 1
         IN /\ \A i \in 1..Len(c.history) : h[i] = c.history[i]
            /\ h[n] = [from |-> c.state, to |-> to, at |-> at, actor |-> actor]
BY DEF Commitment, Transitioned, Entry

\* The stamp of the latest transition is an instant.
LEMMA LastAtType == ASSUME NEW c \in Commitment PROVE LastAt(c) \in Nat
<1>1. c.history \in Seq(Entry)
  BY DEF Commitment
<1>2. CASE c.history # <<>>
  <2>1. Len(c.history) \in 1..Len(c.history)
    BY <1>1, <1>2, LenProperties, EmptySeq
  <2>2. c.history[Len(c.history)] \in Entry
    BY <1>1, <2>1, ElementOfSeq
  <2>3. QED
    BY <1>2, <2>2 DEF LastAt, Entry
<1>3. QED
  BY <1>2 DEF LastAt

\* transitionCommitment extends an unbroken history to an unbroken history.
LEMMA TransitionedUnbroken ==
  ASSUME NEW c \in Commitment, NEW to \in States, NEW actor \in Actors, NEW at \in Nat,
         UnbrokenHistory(c), TransitionOk(c, to, at)
  PROVE  UnbrokenHistory(Transitioned(c, to, actor, at))
<1> DEFINE d == Transitioned(c, to, actor, at)
           n == Len(c.history)
           e == [from |-> c.state, to |-> to, at |-> at, actor |-> actor]
<1>1. /\ c.history \in Seq(Entry) /\ n \in Nat
      /\ d \in Commitment /\ d.state = to /\ Len(d.history) = n + 1
      /\ \A i \in 1..n : d.history[i] = c.history[i]
      /\ d.history[n + 1] = e
  BY TransitionedType, TransitionedEntries DEF Commitment
<1>2. d.history # <<>>
  BY <1>1
<1>3. d.history[1].from = Plain("Draft")
  <2>1. CASE n = 0
    BY <2>1, <1>1 DEF UnbrokenHistory, Commitment
  <2>2. CASE n # 0
    BY <2>2, <1>1 DEF UnbrokenHistory
  <2>3. QED
    BY <2>1, <2>2
<1>4. ASSUME NEW i \in 2..(n + 1)
      PROVE  d.history[i].from = d.history[i - 1].to /\ d.history[i].at >= d.history[i - 1].at
  <2>1. CASE i <= n
    <3> HIDE DEF d, e
    <3>1. d.history[i] = c.history[i] /\ d.history[i - 1] = c.history[i - 1]
      <4>1. n \in Nat /\ i \in 1..n /\ i - 1 \in 1..n
        BY <2>1, <1>1
      <4> HIDE DEF n
      <4>2. QED
        BY <1>1, <4>1
    <3>2. c.history[i].from = c.history[i - 1].to /\ c.history[i].at >= c.history[i - 1].at
      BY <2>1, <1>1 DEF UnbrokenHistory
    <3>3. QED
      BY <3>1, <3>2
  <2>2. CASE i = n + 1
    <3>1. n # 0 /\ d.history[i - 1] = c.history[n] /\ d.history[i] = e
      BY <2>2, <1>1
    <3>2. c.history[n].to = c.state /\ at >= c.history[n].at
      BY <3>1, <1>1 DEF UnbrokenHistory, TransitionOk, LastAt
    <3>3. QED
      BY <3>1, <3>2
  <2>3. QED
    BY <2>1, <2>2, <1>1
<1>5. QED
  BY <1>1, <1>2, <1>3, <1>4 DEF UnbrokenHistory

-----------------------------------------------------------------------------

\* The canonical path to a state ends in it and goes through states without amount.
LEMMA CommitmentPathType ==
  ASSUME NEW t \in StateTypes
  PROVE  /\ CommitmentPath[t] \in Seq(StateTypes)
         /\ Len(CommitmentPath[t]) \in Nat
         /\ (t = "Draft") <=> (Len(CommitmentPath[t]) = 0)
         /\ \A i \in 1..(Len(CommitmentPath[t]) - 1) : CommitmentPath[t][i] # "Refunded"
<1>1. CASE t = "Draft"
  BY <1>1 DEF CommitmentPath, StateTypes, CommitmentTransitions
<1>2. CASE t \in {"Proposed", "Tendered", "Cancelled"}
  <2>1. CommitmentPath[t] = <<t>>
    BY <1>2 DEF CommitmentPath
  <2>2. QED
    BY <1>2, <2>1
<1>3. CASE t = "Accepted"
  BY <1>3 DEF CommitmentPath, StateTypes, CommitmentTransitions
<1>4. CASE t \in {"Modified", "Active", "Disputed", "PartiallyFulfilled"}
  <2>1. CommitmentPath[t] = <<"Proposed", "Accepted", t>>
    BY <1>4 DEF CommitmentPath
  <2>2. {"Proposed", "Accepted"} \subseteq StateTypes
    BY DEF StateTypes, CommitmentTransitions
  <2>3. QED
    BY <1>4, <2>1, <2>2
<1>5. CASE t = "Fulfilled"
  BY <1>5 DEF CommitmentPath, StateTypes, CommitmentTransitions
<1>6. CASE t = "Refunded"
  BY <1>6 DEF CommitmentPath, StateTypes, CommitmentTransitions
<1>7. QED
  BY <1>1, <1>2, <1>3, <1>4, <1>5, <1>6 DEF StateTypes, CommitmentTransitions

\* The canonical paths follow the transition table.
LEMMA PathsAreLegal ==
  ASSUME NEW t \in StateTypes, NEW path, path = CommitmentPath[t]
  PROVE  /\ \A i \in 1..Len(path) : path[i] \in CommitmentTransitions[IF i = 1 THEN "Draft" ELSE path[i - 1]]
         /\ path # <<>> => path[Len(path)] = t
<1>1. CASE t = "Draft"
  BY <1>1 DEF CommitmentPath
<1>2. CASE t \in {"Proposed", "Tendered", "Cancelled"}
  <2>1. path = <<t>>
    BY <1>2 DEF CommitmentPath
  <2>2. QED
    BY <1>2, <2>1 DEF CommitmentTransitions
<1>3. CASE t = "Accepted"
  <2>1. path = <<"Proposed", "Accepted">>
    BY <1>3 DEF CommitmentPath
  <2>2. Len(path) = 2 /\ path[1] = "Proposed" /\ path[2] = "Accepted"
    BY <2>1
  <2>3. "Proposed" \in CommitmentTransitions["Draft"] /\ "Accepted" \in CommitmentTransitions["Proposed"]
    BY DEF CommitmentTransitions
  <2>4. QED
    BY <1>3, <2>2, <2>3
<1>4. CASE t \in {"Modified", "Active", "Disputed", "PartiallyFulfilled"}
  <2>1. path = <<"Proposed", "Accepted", t>>
    BY <1>4 DEF CommitmentPath
  <2>2. Len(path) = 3 /\ path[1] = "Proposed" /\ path[2] = "Accepted" /\ path[3] = t
    BY <2>1
  <2>3. "Proposed" \in CommitmentTransitions["Draft"] /\ "Accepted" \in CommitmentTransitions["Proposed"]
        /\ t \in CommitmentTransitions["Accepted"]
    BY <1>4 DEF CommitmentTransitions
  <2>4. QED
    BY <2>2, <2>3
<1>5. CASE t = "Fulfilled"
  <2>1. path = <<"Proposed", "Accepted", "PartiallyFulfilled", "Fulfilled">>
    BY <1>5 DEF CommitmentPath
  <2>2. Len(path) = 4 /\ path[1] = "Proposed" /\ path[2] = "Accepted" /\ path[3] = "PartiallyFulfilled"
        /\ path[4] = "Fulfilled"
    BY <2>1
  <2>3. "Proposed" \in CommitmentTransitions["Draft"] /\ "Accepted" \in CommitmentTransitions["Proposed"]
        /\ "PartiallyFulfilled" \in CommitmentTransitions["Accepted"]
        /\ "Fulfilled" \in CommitmentTransitions["PartiallyFulfilled"]
    BY DEF CommitmentTransitions
  <2>4. QED
    BY <1>5, <2>2, <2>3
<1>6. CASE t = "Refunded"
  <2>1. path = <<"Proposed", "Accepted", "PartiallyFulfilled", "Fulfilled", "Refunded">>
    BY <1>6 DEF CommitmentPath
  <2>2. Len(path) = 5 /\ path[1] = "Proposed" /\ path[2] = "Accepted" /\ path[3] = "PartiallyFulfilled"
        /\ path[4] = "Fulfilled" /\ path[5] = "Refunded"
    BY <2>1
  <2>3. "Proposed" \in CommitmentTransitions["Draft"] /\ "Accepted" \in CommitmentTransitions["Proposed"]
        /\ "PartiallyFulfilled" \in CommitmentTransitions["Accepted"]
        /\ "Fulfilled" \in CommitmentTransitions["PartiallyFulfilled"]
        /\ "Refunded" \in CommitmentTransitions["Fulfilled"]
    BY DEF CommitmentTransitions
  <2>4. QED
    BY <1>6, <2>2, <2>3
<1>7. QED
  BY <1>1, <1>2, <1>3, <1>4, <1>5, <1>6 DEF StateTypes, CommitmentTransitions

\* applyCommitmentPath's result is a well-formed commitment in its target state, with
\* an unbroken history.
LEMMA SynthesizedType ==
  ASSUME NEW target \in States, NEW actor \in Actors
  PROVE  /\ Synthesized(target, actor) \in Commitment
         /\ Synthesized(target, actor).state = target
         /\ UnbrokenHistory(Synthesized(target, actor))
<1> DEFINE path == CommitmentPath[target.type]
           n == Len(path)
           visited(i) == IF i = 0 THEN Plain("Draft")
                         ELSE IF i = Len(path) THEN target ELSE Plain(path[i])
           e(i) == [from |-> visited(i - 1), to |-> visited(i), at |-> 0, actor |-> actor]
           h == [i \in 1..n |-> e(i)]
<1>1. /\ target.type \in StateTypes /\ n \in Nat /\ path \in Seq(StateTypes)
      /\ (target.type = "Draft") <=> (n = 0)
      /\ \A i \in 1..(n - 1) : path[i] # "Refunded"
  BY CommitmentPathType DEF States
<1>2. \A i \in 0..n : visited(i) \in States
  <2>1. "Draft" \in StateTypes
    BY DEF StateTypes, CommitmentTransitions
  <2>2. \A i \in 1..(n - 1) : path[i] \in StateTypes /\ path[i] # "Refunded"
    BY <1>1
  <2>3. QED
    BY <1>1, <2>1, <2>2, PlainIsState
<1>3. \A i \in 1..n : e(i) \in Entry
  BY <1>1, <1>2 DEF Entry
<1>4. h \in Seq(Entry) /\ Len(h) = n /\ \A i \in 1..n : h[i] = e(i)
  <2> HIDE DEF e
  <2>1. h \in Seq(Entry)
    BY <1>1, <1>3, IsASeq
  <2>2. QED
    BY <1>1, <2>1, LenProperties
<1>5. Synthesized(target, actor) = [state |-> target, history |-> h]
  BY DEF Synthesized
<1>6. (h = <<>>) <=> (n = 0)
  <2> HIDE DEF h
  <2>1. QED
    BY <1>4, EmptySeq
<1>7. n = 0 => target = Plain("Draft")
  BY <1>1 DEF States, Plain
<1>8. n # 0 => h[1].from = Plain("Draft") /\ h[n].to = target
  BY <1>1, <1>4
<1>9. \A i \in 2..n : h[i].from = h[i - 1].to /\ h[i].at >= h[i - 1].at
  BY <1>1, <1>4
<1>10. QED
  BY <1>4, <1>5, <1>6, <1>7, <1>8, <1>9 DEF Commitment, UnbrokenHistory

\* The entry of a commitment's first acceptance; the auditor finds it.
FirstAccepted(c, i) ==
  /\ i \in DOMAIN c.history /\ c.history[i].to.type = "Accepted"
  /\ \A j \in 1..(i - 1) : c.history[j].to.type # "Accepted"

LEMMA FirstIsChosen ==
  ASSUME NEW c \in Commitment, NEW i, FirstAccepted(c, i)
  PROVE  WasAccepted(c) /\ AcceptedAt(c) = c.history[i].at
<1>1. DOMAIN c.history = 1..Len(c.history) /\ Len(c.history) \in Nat
  BY LenProperties DEF Commitment
<1> DEFINE k == CHOOSE x \in DOMAIN c.history :
                  /\ c.history[x].to.type = "Accepted"
                  /\ \A j \in 1..(x - 1) : c.history[j].to.type # "Accepted"
<1>2. /\ k \in DOMAIN c.history /\ c.history[k].to.type = "Accepted"
      /\ \A j \in 1..(k - 1) : c.history[j].to.type # "Accepted"
  BY DEF FirstAccepted
<1>3. k = i
  <2> HIDE DEF k
  <2>1. ~(k < i) /\ ~(i < k)
    BY <1>1, <1>2 DEF FirstAccepted
  <2>2. QED
    BY <1>1, <1>2, <2>1 DEF FirstAccepted
<1>4. QED
  BY <1>3 DEF WasAccepted, AcceptedAt, FirstAccepted

\* A synthesized history is stamped 0, and accepts at its second entry if at all.
LEMMA SynthesizedStamps ==
  ASSUME NEW target \in States, NEW actor \in Actors, NEW c, c = Synthesized(target, actor)
  PROVE  /\ \A i \in 1..Len(c.history) : c.history[i].at = 0
         /\ target.type \in AcceptedOrLater => 2 \in 1..Len(c.history) /\ FirstAccepted(c, 2)
<1> DEFINE path == CommitmentPath[target.type]
           n == Len(path)
           visited(i) == IF i = 0 THEN Plain("Draft")
                         ELSE IF i = Len(path) THEN target ELSE Plain(path[i])
           e(i) == [from |-> visited(i - 1), to |-> visited(i), at |-> 0, actor |-> actor]
<1>1. c.history = [i \in 1..n |-> e(i)]
  BY DEF Synthesized
<1>2. c.history \in Seq(Entry)
  BY SynthesizedType DEF Commitment
<1>3. Len(c.history) = n /\ n \in Nat
  <2>1. n \in Nat
    BY CommitmentPathType DEF States
  <2> HIDE DEF e
  <2>2. QED
    BY <1>1, <1>2, <2>1, LenProperties
<1>4. \A i \in 1..n : c.history[i].at = 0
  BY <1>1
<1>5. ASSUME target.type \in AcceptedOrLater
      PROVE  /\ n >= 2 /\ path[1] = "Proposed" /\ path[2] = "Accepted"
             /\ n = 2 => target.type = "Accepted"
  <2>1. CASE target.type = "Accepted"
    BY <2>1 DEF CommitmentPath
  <2>2. CASE target.type = "Fulfilled"
    BY <2>2 DEF CommitmentPath
  <2>3. CASE target.type = "Refunded"
    BY <2>3 DEF CommitmentPath
  <2>4. CASE target.type \in {"Modified", "Active", "Disputed", "PartiallyFulfilled"}
    <3>1. path = <<"Proposed", "Accepted", target.type>>
      BY <2>4 DEF CommitmentPath
    <3>2. QED
      BY <3>1
  <2>5. QED
    BY <1>5, <2>1, <2>2, <2>3, <2>4 DEF AcceptedOrLater
<1>6. ASSUME target.type \in AcceptedOrLater
      PROVE  2 \in 1..n /\ FirstAccepted(c, 2)
  <2>1. 1 \in 1..n /\ 2 \in 1..n /\ DOMAIN c.history = 1..n
    BY <1>1, <1>3, <1>5, <1>6
  <2>2. visited(1).type = "Proposed" /\ visited(2).type = "Accepted"
    BY <1>3, <1>5, <1>6 DEF Plain
  <2>3. c.history[1].to = visited(1) /\ c.history[2].to = visited(2)
    BY <1>1, <2>1
  <2> HIDE DEF visited
  <2>4. \A j \in 1..(2 - 1) : j = 1
    OBVIOUS
  <2>5. QED
    BY <2>1, <2>2, <2>3, <2>4 DEF FirstAccepted
<1>7. QED
  BY <1>3, <1>4, <1>6

-----------------------------------------------------------------------------
(* Two accounts that tell the same.                                        *)

\* A position after all of S is the last of S with it, and moves none of the others.
LEMMA RankOfLast ==
  ASSUME NEW S, IsFiniteSet(S), S \subseteq Int, NEW m \in Int, \A i \in S : i < m
  PROVE  /\ IsFiniteSet(S \cup {m}) /\ Cardinality(S \cup {m}) = Cardinality(S) + 1
         /\ Rank(m, S \cup {m}) = Cardinality(S)
         /\ \A i \in S : Rank(i, S \cup {m}) = Rank(i, S)
         /\ \A i \in S : Rank(i, S) \in Nat /\ Rank(i, S) < Cardinality(S)
<1>1. m \notin S
  OBVIOUS
<1>2. IsFiniteSet(S \cup {m}) /\ Cardinality(S \cup {m}) = Cardinality(S) + 1
  BY <1>1, FS_AddElement
<1>3. {x \in S \cup {m} : x < m} = S
  <2>1. ~(m < m)
    OBVIOUS
  <2>2. QED
    BY <2>1, Zenon
<1>4. ASSUME NEW i \in S
      PROVE  /\ Rank(i, S \cup {m}) = Rank(i, S)
             /\ Rank(i, S) \in Nat /\ Rank(i, S) < Cardinality(S)
  <2> DEFINE B == {x \in S : x < i}
  <2>1. {x \in S \cup {m} : x < i} = B
    OBVIOUS
  <2>2. B \in SUBSET S /\ B # S
    OBVIOUS
  <2> HIDE DEF B
  <2>3. IsFiniteSet(B) /\ Cardinality(B) <= Cardinality(S) /\ Cardinality(B) # Cardinality(S)
    BY <2>2, FS_Subset
  <2>4. Cardinality(B) \in Nat /\ Cardinality(S) \in Nat
    BY <2>3, FS_CardinalityType
  <2>5. Cardinality(B) < Cardinality(S)
    BY <2>3, <2>4
  <2>6. Rank(i, S) = Cardinality(B) /\ Rank(i, S \cup {m}) = Cardinality(B)
    BY <2>1 DEF Rank, B
  <2>7. QED
    BY <2>4, <2>5, <2>6
<1>5. QED
  BY <1>2, <1>3, <1>4 DEF Rank

\* Accounts that tell the same go on doing so when each gets one more entry, last and
\* the same in both.
LEMMA TellOneMore ==
  ASSUME NEW S, IsFiniteSet(S), S \subseteq Int, NEW f,
         NEW T, IsFiniteSet(T), T \subseteq Int, NEW g,
         TellTheSame(S, f, T, g),
         NEW m \in Int, \A i \in S : i < m, NEW n \in Int, \A j \in T : j < n,
         NEW f2, \A i \in S : f2[i] = f[i], NEW g2, \A j \in T : g2[j] = g[j],
         f2[m] = g2[n]
  PROVE  TellTheSame(S \cup {m}, f2, T \cup {n}, g2)
<1> PICK SS, TT, k : SS = S \cup {m} /\ TT = T \cup {n} /\ k = Cardinality(S)
  OBVIOUS
<1>1. /\ Cardinality(SS) = k + 1 /\ Rank(m, SS) = k
      /\ \A i \in S : Rank(i, SS) = Rank(i, S) /\ Rank(i, SS) < k
  BY RankOfLast
<1>2. Cardinality(T) = k
  BY DEF TellTheSame
<1>3. /\ Cardinality(TT) = k + 1 /\ Rank(n, TT) = k
      /\ \A j \in T : Rank(j, TT) = Rank(j, T) /\ Rank(j, TT) < k
  BY <1>2, RankOfLast
<1>4. k \in Nat
  BY FS_CardinalityType
<1>5. ASSUME NEW i \in SS, NEW j \in TT, Rank(i, SS) = Rank(j, TT)
      PROVE  f2[i] = g2[j]
  <2>1. CASE i \in S /\ j \in T
    BY <1>1, <1>3, <1>5, <2>1 DEF TellTheSame
  <2>2. CASE i = m /\ j = n
    BY <2>2
  <2>3. CASE i = m /\ j \in T
    BY <1>1, <1>3, <1>4, <1>5, <2>3
  <2>4. CASE i \in S /\ j = n
    BY <1>1, <1>3, <1>4, <1>5, <2>4
  <2>5. QED
    BY <2>1, <2>2, <2>3, <2>4
<1>6. QED
  BY <1>1, <1>3, <1>5 DEF TellTheSame

\* What is told at the positions is all that counts.
LEMMA TellLikewise ==
  ASSUME NEW S, NEW f, NEW T, NEW g, TellTheSame(S, f, T, g),
         NEW f2, \A i \in S : f2[i] = f[i], NEW g2, \A j \in T : g2[j] = g[j]
  PROVE  TellTheSame(S, f2, T, g2)
BY DEF TellTheSame

\* Nothing is told the same as nothing.
LEMMA TellNothing == ASSUME NEW f, NEW g PROVE TellTheSame({}, f, {}, g)
BY DEF TellTheSame

-----------------------------------------------------------------------------
(* Sums over finite sets, the SumFunctionOnSet of Functions: what a tree's, an    *)
(* order's or a window's amounts add up to, and how one more amount, or one       *)
(* amount more, changes the sum.  The sum is a recursive function over the        *)
(* subsets of the index set.  The induction theorems of the library take a        *)
(* predicate operator, which the provers cannot instantiate; the inductions here  *)
(* are over SETS of sets, and rest on the strict subset ordering of a finite set  *)
(* being well-founded.                                                            *)

\* A set of sets that contains a subset of S whenever it contains all the proper
\* subsets of that one contains every subset of S.
LEMMA SubsetInduction ==
  ASSUME NEW S, IsFiniteSet(S), NEW H,
         \A T \in SUBSET S : (\A U \in SUBSET T : U # T => U \in H) => T \in H
  PROVE  SUBSET S \subseteq H
<1> DEFINE rest == (SUBSET S) \ H
<1> SUFFICES ASSUME rest # {} PROVE FALSE
  OBVIOUS
<1>1. IsWellFoundedOn(StrictSubsetOrdering(S), SUBSET S)
  <2>1. IsWellFoundedOn(StrictSubsetOrdering(S), FiniteSubsetsOf(S))
    BY FS_StrictSubsetOrderingWellFounded
  <2>2. FiniteSubsetsOf(S) = SUBSET S
    BY FS_FiniteSubsetsOfFinite
  <2>3. QED
    BY <2>1, <2>2
<1>2. PICK T \in rest : \A U \in rest : <<U, T>> \notin StrictSubsetOrdering(S)
  <2>1. rest \subseteq SUBSET S
    OBVIOUS
  <2> HIDE DEF rest
  <2>2. QED
    BY <1>1, <2>1, WFMin
<1>3. \A U \in SUBSET T : U # T => U \in H
  BY <1>2 DEF StrictSubsetOrdering
<1>4. QED
  BY <1>2, <1>3

-----------------------------------------------------------------------------
(* The recursive function the sum is defined by.                           *)

Chosen(s) == CHOOSE x \in s : TRUE

SumTable(g, fun, T) ==
  g = [s \in SUBSET T |-> IF s = {} THEN 0 ELSE fun[Chosen(s)] + g[s \ {Chosen(s)}]]

LEMMA ChosenIn == ASSUME NEW s, s # {} PROVE Chosen(s) \in s
BY DEF Chosen

\* Two such functions agree on the sets both are defined on.
LEMMA SumTablesAgree ==
  ASSUME NEW T, IsFiniteSet(T), NEW U, T \subseteq U,
         NEW fun, NEW g, SumTable(g, fun, T), NEW h, SumTable(h, fun, U)
  PROVE  \A s \in SUBSET T : g[s] = h[s]
<1> DEFINE H == {s \in SUBSET T : g[s] = h[s]}
<1>1. ASSUME NEW s \in SUBSET T, \A r \in SUBSET s : r # s => r \in H
      PROVE  s \in H
  <2>1. CASE s = {}
    <3>1. g[s] = 0
      BY <2>1 DEF SumTable
    <3>2. h[s] = 0
      BY <2>1 DEF SumTable
    <3>3. QED
      BY <3>1, <3>2
  <2>2. CASE s # {}
    <3>1. Chosen(s) \in s
      BY <2>2, ChosenIn
    <3>2. g[s \ {Chosen(s)}] = h[s \ {Chosen(s)}]
      BY <1>1, <3>1
    <3>3. g[s] = fun[Chosen(s)] + g[s \ {Chosen(s)}]
      BY <2>2 DEF SumTable
    <3>4. h[s] = fun[Chosen(s)] + h[s \ {Chosen(s)}]
      BY <2>2 DEF SumTable
    <3>5. QED
      BY <3>2, <3>3, <3>4
  <2>3. QED
    BY <2>1, <2>2
<1> HIDE DEF H
<1>2. SUBSET T \subseteq H
  BY <1>1, SubsetInduction
<1>3. QED
  BY <1>2 DEF H

\* There is one on the subsets of every finite set.
LEMMA SumTableExists ==
  ASSUME NEW S, IsFiniteSet(S), NEW fun
  PROVE  \E g : SumTable(g, fun, S)
<1> DEFINE H == {T \in SUBSET S : \E g : SumTable(g, fun, T)}
           F(U) == CHOOSE g : SumTable(g, fun, U)
<1>1. ASSUME NEW T \in SUBSET S, \A U \in SUBSET T : U # T => U \in H
      PROVE  T \in H
  <2> DEFINE V == [s \in SUBSET T |->
                     IF s = {} THEN 0
                     ELSE fun[Chosen(s)] + F(s \ {Chosen(s)})[s \ {Chosen(s)}]]
  <2>1. \A U \in SUBSET T : U # T => SumTable(F(U), fun, U)
    BY <1>1
  <2>2. \A U \in SUBSET T : IsFiniteSet(U)
    BY FS_Subset
  <2>3. ASSUME NEW s \in SUBSET T, s # {}
        PROVE  V[s \ {Chosen(s)}] = F(s \ {Chosen(s)})[s \ {Chosen(s)}]
    <3> DEFINE U == s \ {Chosen(s)}
    <3>1. U \in SUBSET T /\ U # T
      BY <2>3, ChosenIn
    <3>2. SumTable(F(U), fun, U)
      BY <2>1, <3>1
    <3>3. CASE U = {}
      <4>1. F(U)[U] = 0
        <5> HIDE DEF F
        <5>1. QED
          BY <3>2, <3>3 DEF SumTable
      <4>2. V[U] = 0
        BY <3>3
      <4>3. QED
        BY <4>1, <4>2
    <3>4. CASE U # {}
      <4> DEFINE W == U \ {Chosen(U)}
      <4>1. W \in SUBSET T /\ W # T /\ W \subseteq U
        BY <3>1, <3>4, ChosenIn
      <4>2. SumTable(F(W), fun, W)
        BY <2>1, <4>1
      <4>3. F(W)[W] = F(U)[W]
        <5> HIDE DEF F, W, U
        <5>1. QED
          BY <2>2, <3>2, <4>1, <4>2, SumTablesAgree
      <4>4. F(U)[U] = fun[Chosen(U)] + F(U)[W]
        <5> HIDE DEF F
        <5>1. QED
          BY <3>2, <3>4 DEF SumTable
      <4>5. V[U] = fun[Chosen(U)] + F(W)[W]
        <5> HIDE DEF F
        <5>1. QED
          BY <3>1, <3>4
      <4>6. QED
        BY <4>3, <4>4, <4>5
    <3>5. QED
      BY <3>3, <3>4
  <2>4. SumTable(V, fun, T)
    <3>1. \A s \in SUBSET T :
            V[s] = IF s = {} THEN 0 ELSE fun[Chosen(s)] + V[s \ {Chosen(s)}]
      <4> SUFFICES ASSUME NEW s \in SUBSET T
                   PROVE  V[s] = IF s = {} THEN 0 ELSE fun[Chosen(s)] + V[s \ {Chosen(s)}]
        OBVIOUS
      <4>1. V[s] = IF s = {} THEN 0 ELSE fun[Chosen(s)] + F(s \ {Chosen(s)})[s \ {Chosen(s)}]
        OBVIOUS
      <4> HIDE DEF V, F
      <4>2. QED
        BY <2>3, <4>1
    <3>2. V = [s \in SUBSET T |-> V[s]]
      OBVIOUS
    <3> HIDE DEF V
    <3>3. QED
      BY <3>1, <3>2 DEF SumTable
  <2> HIDE DEF V
  <2>5. QED
    BY <2>4
<1> HIDE DEF H
<1>2. SUBSET S \subseteq H
  BY <1>1, SubsetInduction
<1>3. QED
  BY <1>2 DEF H

\* The sum over a finite set is the value of any such function there.
LEMMA SumIs ==
  ASSUME NEW S, IsFiniteSet(S), NEW fun
  PROVE  \E g : SumTable(g, fun, S) /\ SumFunctionOnSet(fun, S) = g[S]
<1> DEFINE iter == CHOOSE g : SumTable(g, fun, S)
<1>1. SumTable(iter, fun, S)
  BY SumTableExists
<1>2. SumFunctionOnSet(fun, S) = iter[S]
  BY DEF SumFunctionOnSet, FoldFunctionOnSet, MapThenFoldSet, SumTable, Chosen
<1> HIDE DEF iter
<1>3. QED
  BY <1>1, <1>2

-----------------------------------------------------------------------------
(* SumTable of integers.                                                       *)

LEMMA SumEmpty == ASSUME NEW fun PROVE SumFunctionOnSet(fun, {}) = 0
<1>1. PICK g : SumTable(g, fun, {}) /\ SumFunctionOnSet(fun, {}) = g[{}]
  BY SumIs, FS_EmptySet
<1>2. g[{}] = 0
  BY <1>1 DEF SumTable
<1>3. QED
  BY <1>1, <1>2

\* The definition, one step down: the chosen element and the sum over the others.
LEMMA SumStep ==
  ASSUME NEW S, IsFiniteSet(S), S # {}, NEW fun
  PROVE  /\ Chosen(S) \in S
         /\ SumFunctionOnSet(fun, S) = fun[Chosen(S)] + SumFunctionOnSet(fun, S \ {Chosen(S)})
<1> DEFINE U == S \ {Chosen(S)}
<1>1. IsFiniteSet(U) /\ Chosen(S) \in S
  BY FS_RemoveElement, ChosenIn
<1>2. PICK g : SumTable(g, fun, S) /\ SumFunctionOnSet(fun, S) = g[S]
  BY SumIs
<1>3. PICK h : SumTable(h, fun, U) /\ SumFunctionOnSet(fun, U) = h[U]
  BY <1>1, SumIs
<1>4. h[U] = g[U]
  BY <1>1, <1>2, <1>3, SumTablesAgree
<1>5. g[S] = fun[Chosen(S)] + g[U]
  BY <1>2 DEF SumTable
<1>6. QED
  BY <1>1, <1>2, <1>3, <1>4, <1>5

\* The sum is an integer, and any element can be taken out of it.
LEMMA SumTakeOut ==
  ASSUME NEW S, IsFiniteSet(S), NEW fun, \A x \in S : fun[x] \in Int
  PROVE  /\ SumFunctionOnSet(fun, S) \in Int
         /\ \A x \in S :
              SumFunctionOnSet(fun, S) = fun[x] + SumFunctionOnSet(fun, S \ {x})
<1> DEFINE H == {T \in SUBSET S :
                   /\ SumFunctionOnSet(fun, T) \in Int
                   /\ \A x \in T :
                        SumFunctionOnSet(fun, T) = fun[x] + SumFunctionOnSet(fun, T \ {x})}
<1>1. ASSUME NEW T \in SUBSET S, \A U \in SUBSET T : U # T => U \in H
      PROVE  T \in H
  <2>1. CASE T = {}
    BY <2>1, SumEmpty
  <2>2. CASE T # {}
    <3> DEFINE y == Chosen(T)
    <3>1. IsFiniteSet(T)
      BY FS_Subset
    <3>2. /\ y \in T
          /\ SumFunctionOnSet(fun, T) = fun[y] + SumFunctionOnSet(fun, T \ {y})
      BY <2>2, <3>1, SumStep
    <3>3. T \ {y} \in H
      BY <1>1, <3>2
    <3>4. SumFunctionOnSet(fun, T) \in Int
      BY <3>2, <3>3
    <3>5. ASSUME NEW x \in T, x # y
          PROVE  SumFunctionOnSet(fun, T) = fun[x] + SumFunctionOnSet(fun, T \ {x})
      <4> DEFINE rest == T \ {x, y}
      <4>1. T \ {x} \in H /\ rest \in H
        BY <1>1, <3>2
      <4>2. SumFunctionOnSet(fun, T \ {x}) = fun[y] + SumFunctionOnSet(fun, rest)
        <5>1. (T \ {x}) \ {y} = rest /\ y \in T \ {x}
          BY <3>2, <3>5
        <5> HIDE DEF rest, y
        <5>2. QED
          BY <4>1, <5>1
      <4>3. SumFunctionOnSet(fun, T \ {y}) = fun[x] + SumFunctionOnSet(fun, rest)
        <5>1. (T \ {y}) \ {x} = rest /\ x \in T \ {y}
          BY <3>5
        <5> HIDE DEF rest, y
        <5>2. QED
          BY <3>3, <5>1
      <4>4. /\ fun[x] \in Int /\ fun[y] \in Int
            /\ SumFunctionOnSet(fun, rest) \in Int
        BY <3>2, <4>1
      <4> HIDE DEF rest, y, H
      <4>5. QED
        BY <3>2, <4>2, <4>3, <4>4
    <3>6. QED
      BY <3>2, <3>4, <3>5
  <2>3. QED
    BY <2>1, <2>2
<1> HIDE DEF H
<1>2. SUBSET S \subseteq H
  BY <1>1, SubsetInduction
<1>3. QED
  BY <1>2 DEF H

LEMMA SumType ==
  ASSUME NEW S, IsFiniteSet(S), NEW fun, \A x \in S : fun[x] \in Int
  PROVE  SumFunctionOnSet(fun, S) \in Int
BY SumTakeOut

LEMMA SumRemove ==
  ASSUME NEW S, IsFiniteSet(S), NEW fun, \A y \in S : fun[y] \in Int, NEW x \in S
  PROVE  SumFunctionOnSet(fun, S) = fun[x] + SumFunctionOnSet(fun, S \ {x})
BY SumTakeOut

LEMMA SumInsert ==
  ASSUME NEW S, IsFiniteSet(S), NEW x, x \notin S,
         NEW fun, \A y \in S \cup {x} : fun[y] \in Int
  PROVE  SumFunctionOnSet(fun, S \cup {x}) = fun[x] + SumFunctionOnSet(fun, S)
<1>1. IsFiniteSet(S \cup {x})
  BY FS_AddElement
<1>2. (S \cup {x}) \ {x} = S
  OBVIOUS
<1>3. QED
  BY <1>1, <1>2, SumRemove

LEMMA SumSingleton ==
  ASSUME NEW x, NEW fun, fun[x] \in Int
  PROVE  SumFunctionOnSet(fun, {x}) = fun[x]
<1>1. IsFiniteSet({x}) /\ {x} \ {x} = {}
  BY FS_Singleton
<1>2. SumFunctionOnSet(fun, {x}) = fun[x] + SumFunctionOnSet(fun, {})
  BY <1>1, SumRemove
<1>3. QED
  BY <1>2, SumEmpty

\* A sum depends on the values at the summed elements only.
LEMMA SumCongruent ==
  ASSUME NEW S, IsFiniteSet(S), NEW f, NEW g, \A x \in S : f[x] = g[x]
  PROVE  SumFunctionOnSet(f, S) = SumFunctionOnSet(g, S)
<1> DEFINE H == {T \in SUBSET S : SumFunctionOnSet(f, T) = SumFunctionOnSet(g, T)}
<1>1. ASSUME NEW T \in SUBSET S, \A U \in SUBSET T : U # T => U \in H
      PROVE  T \in H
  <2>1. CASE T = {}
    BY <2>1, SumEmpty
  <2>2. CASE T # {}
    <3>1. IsFiniteSet(T)
      BY FS_Subset
    <3>2. Chosen(T) \in T
      BY <2>2, ChosenIn
    <3>3. T \ {Chosen(T)} \in H
      BY <1>1, <3>2
    <3>4. SumFunctionOnSet(f, T) = f[Chosen(T)] + SumFunctionOnSet(f, T \ {Chosen(T)})
      BY <2>2, <3>1, SumStep
    <3>5. SumFunctionOnSet(g, T) = g[Chosen(T)] + SumFunctionOnSet(g, T \ {Chosen(T)})
      BY <2>2, <3>1, SumStep
    <3>6. QED
      BY <3>2, <3>3, <3>4, <3>5
  <2>3. QED
    BY <2>1, <2>2
<1> HIDE DEF H
<1>2. SUBSET S \subseteq H
  BY <1>1, SubsetInduction
<1>3. QED
  BY <1>2 DEF H

LEMMA SumOfZeros ==
  ASSUME NEW S, IsFiniteSet(S), NEW f, \A x \in S : f[x] = 0
  PROVE  SumFunctionOnSet(f, S) = 0
<1> DEFINE H == {T \in SUBSET S : SumFunctionOnSet(f, T) = 0}
<1>1. ASSUME NEW T \in SUBSET S, \A U \in SUBSET T : U # T => U \in H
      PROVE  T \in H
  <2>1. CASE T = {}
    BY <2>1, SumEmpty
  <2>2. CASE T # {}
    <3>1. IsFiniteSet(T)
      BY FS_Subset
    <3>2. Chosen(T) \in T
      BY <2>2, ChosenIn
    <3>3. T \ {Chosen(T)} \in H
      BY <1>1, <3>2
    <3>4. SumFunctionOnSet(f, T) = f[Chosen(T)] + SumFunctionOnSet(f, T \ {Chosen(T)})
      BY <2>2, <3>1, SumStep
    <3>5. QED
      BY <3>2, <3>3, <3>4
  <2>3. QED
    BY <2>1, <2>2
<1> HIDE DEF H
<1>2. SUBSET S \subseteq H
  BY <1>1, SubsetInduction
<1>3. QED
  BY <1>2 DEF H

\* A change of one summed value changes the sum by as much.
LEMMA SumUpdate ==
  ASSUME NEW S, IsFiniteSet(S), NEW f, NEW g, NEW x \in S, NEW d \in Int,
         \A y \in S : f[y] \in Int,
         \A y \in S \ {x} : g[y] = f[y],
         g[x] = f[x] + d
  PROVE  SumFunctionOnSet(g, S) = SumFunctionOnSet(f, S) + d
<1>1. IsFiniteSet(S \ {x})
  BY FS_RemoveElement
<1>2. SumFunctionOnSet(g, S \ {x}) = SumFunctionOnSet(f, S \ {x})
  BY <1>1, SumCongruent
<1>3. SumFunctionOnSet(f, S) = f[x] + SumFunctionOnSet(f, S \ {x})
  BY SumRemove
<1>4. SumFunctionOnSet(g, S) = g[x] + SumFunctionOnSet(g, S \ {x})
  BY SumRemove
<1>5. f[x] \in Int /\ SumFunctionOnSet(f, S \ {x}) \in Int
  BY <1>1, SumType
<1>6. QED
  BY <1>2, <1>3, <1>4, <1>5

\* SumTable of naturals are naturals, and grow with the index set and with the values.
LEMMA SumNat ==
  ASSUME NEW S, IsFiniteSet(S), NEW f, \A x \in S : f[x] \in Nat
  PROVE  SumFunctionOnSet(f, S) \in Nat
<1> DEFINE H == {T \in SUBSET S : SumFunctionOnSet(f, T) \in Nat}
<1>1. ASSUME NEW T \in SUBSET S, \A U \in SUBSET T : U # T => U \in H
      PROVE  T \in H
  <2>1. CASE T = {}
    BY <2>1, SumEmpty
  <2>2. CASE T # {}
    <3>1. IsFiniteSet(T)
      BY FS_Subset
    <3>2. Chosen(T) \in T
      BY <2>2, ChosenIn
    <3>3. T \ {Chosen(T)} \in H
      BY <1>1, <3>2
    <3>4. SumFunctionOnSet(f, T) = f[Chosen(T)] + SumFunctionOnSet(f, T \ {Chosen(T)})
      BY <2>2, <3>1, SumStep
    <3>5. f[Chosen(T)] \in Nat /\ SumFunctionOnSet(f, T \ {Chosen(T)}) \in Nat
      BY <3>2, <3>3
    <3>6. SumFunctionOnSet(f, T) \in Nat
      BY <3>4, <3>5
    <3>7. QED
      BY <3>6
  <2>3. QED
    BY <2>1, <2>2
<1> HIDE DEF H
<1>2. SUBSET S \subseteq H
  BY <1>1, SubsetInduction
<1>3. QED
  BY <1>2 DEF H

LEMMA SumMonotone ==
  ASSUME NEW S, IsFiniteSet(S), NEW T \in SUBSET S, NEW f, \A x \in S : f[x] \in Nat
  PROVE  SumFunctionOnSet(f, T) <= SumFunctionOnSet(f, S)
<1> DEFINE H == {U \in SUBSET S : \A V \in SUBSET U :
                   SumFunctionOnSet(f, V) <= SumFunctionOnSet(f, U)}
<1>1. ASSUME NEW U \in SUBSET S, \A W \in SUBSET U : W # U => W \in H
      PROVE  U \in H
  <2> SUFFICES ASSUME NEW V \in SUBSET U
               PROVE  SumFunctionOnSet(f, V) <= SumFunctionOnSet(f, U)
    OBVIOUS
  <2>0. IsFiniteSet(U) /\ \A W \in SUBSET U : IsFiniteSet(W)
    BY FS_Subset
  <2>1. SumFunctionOnSet(f, V) \in Nat /\ SumFunctionOnSet(f, U) \in Nat
    BY <2>0, SumNat
  <2>2. CASE V = U
    BY <2>1, <2>2
  <2>3. CASE V # U
    <3>1. PICK x \in U \ V : TRUE
      BY <2>3
    <3>2. SumFunctionOnSet(f, U) = f[x] + SumFunctionOnSet(f, U \ {x})
      BY <2>0, SumRemove
    <3>3. U \ {x} \in H /\ V \in SUBSET (U \ {x})
      BY <1>1, <3>1
    <3>4. SumFunctionOnSet(f, V) <= SumFunctionOnSet(f, U \ {x})
      BY <3>3
    <3>5. SumFunctionOnSet(f, U \ {x}) \in Nat /\ f[x] \in Nat
      BY <2>0, SumNat
    <3> HIDE DEF H
    <3>6. QED
      BY <2>1, <3>2, <3>4, <3>5
  <2>4. QED
    BY <2>2, <2>3
<1> HIDE DEF H
<1>2. SUBSET S \subseteq H
  BY <1>1, SubsetInduction
<1>3. QED
  BY <1>2 DEF H

\* The sum of sums, of multiples, and of larger values.
LEMMA SumAdd ==
  ASSUME NEW S, IsFiniteSet(S), NEW f, NEW g, NEW h,
         \A x \in S : f[x] \in Int /\ g[x] \in Int /\ h[x] = f[x] + g[x]
  PROVE  SumFunctionOnSet(h, S) = SumFunctionOnSet(f, S) + SumFunctionOnSet(g, S)
<1> DEFINE H == {T \in SUBSET S :
                   SumFunctionOnSet(h, T) = SumFunctionOnSet(f, T) + SumFunctionOnSet(g, T)}
<1>f. \A x \in S : f[x] \in Int
  OBVIOUS
<1>g. \A x \in S : g[x] \in Int
  OBVIOUS
<1>h. \A x \in S : h[x] \in Int
  OBVIOUS
<1>1. ASSUME NEW T \in SUBSET S, \A U \in SUBSET T : U # T => U \in H
      PROVE  T \in H
  <2>1. CASE T = {}
    BY <2>1, SumEmpty
  <2>2. CASE T # {}
    <3> DEFINE c == Chosen(T)
               U == T \ {c}
    <3>0. IsFiniteSet(T) /\ IsFiniteSet(U) /\ c \in T
      BY <2>2, FS_Subset, ChosenIn
    <3>1. SumFunctionOnSet(f, U) \in Int /\ SumFunctionOnSet(f, T) = f[c] + SumFunctionOnSet(f, U)
      BY <2>2, <3>0, <1>f, SumType, SumStep
    <3>2. SumFunctionOnSet(g, U) \in Int /\ SumFunctionOnSet(g, T) = g[c] + SumFunctionOnSet(g, U)
      BY <2>2, <3>0, <1>g, SumType, SumStep
    <3>3. SumFunctionOnSet(h, U) \in Int /\ SumFunctionOnSet(h, T) = h[c] + SumFunctionOnSet(h, U)
      BY <2>2, <3>0, <1>h, SumType, SumStep
    <3>4. U \in H
      BY <1>1, <3>0
    <3>5. SumFunctionOnSet(h, U) = SumFunctionOnSet(f, U) + SumFunctionOnSet(g, U)
      BY <3>4
    <3>6. f[c] \in Int /\ g[c] \in Int /\ h[c] = f[c] + g[c]
      BY <3>0
    <3> HIDE DEF c, U, H
    <3>7. SumFunctionOnSet(h, T) = SumFunctionOnSet(f, T) + SumFunctionOnSet(g, T)
      BY <3>1, <3>2, <3>3, <3>5, <3>6
    <3>8. QED
      BY <3>7 DEF H
  <2>3. QED
    BY <2>1, <2>2
<1> HIDE DEF H
<1>2. SUBSET S \subseteq H
  BY <1>1, SubsetInduction
<1>3. QED
  BY <1>2 DEF H

LEMMA SumScale ==
  ASSUME NEW S, IsFiniteSet(S), NEW f, NEW g, NEW k \in Int,
         \A x \in S : f[x] \in Int /\ g[x] = k * f[x]
  PROVE  SumFunctionOnSet(g, S) = k * SumFunctionOnSet(f, S)
<1> DEFINE H == {T \in SUBSET S : SumFunctionOnSet(g, T) = k * SumFunctionOnSet(f, T)}
<1>f. \A x \in S : f[x] \in Int
  OBVIOUS
<1>g. \A x \in S : g[x] \in Int
  OBVIOUS
<1>1. ASSUME NEW T \in SUBSET S, \A U \in SUBSET T : U # T => U \in H
      PROVE  T \in H
  <2>1. CASE T = {}
    <3>1. SumFunctionOnSet(g, T) = 0 /\ SumFunctionOnSet(f, T) = 0 /\ k * 0 = 0
      BY <2>1, SumEmpty
    <3>2. QED
      BY <3>1
  <2>2. CASE T # {}
    <3> DEFINE c == Chosen(T)
               U == T \ {c}
    <3>0. IsFiniteSet(T) /\ IsFiniteSet(U) /\ c \in T
      BY <2>2, FS_Subset, ChosenIn
    <3>1. SumFunctionOnSet(f, U) \in Int /\ SumFunctionOnSet(f, T) = f[c] + SumFunctionOnSet(f, U)
      BY <2>2, <3>0, <1>f, SumType, SumStep
    <3>2. SumFunctionOnSet(g, U) \in Int /\ SumFunctionOnSet(g, T) = g[c] + SumFunctionOnSet(g, U)
      BY <2>2, <3>0, <1>g, SumType, SumStep
    <3>3. U \in H
      BY <1>1, <3>0
    <3>4. SumFunctionOnSet(g, U) = k * SumFunctionOnSet(f, U) /\ f[c] \in Int /\ g[c] = k * f[c]
      BY <3>0, <3>3
    <3>5. \A a, b \in Int : k * (a + b) = k * a + k * b
      OBVIOUS
    <3> HIDE DEF c, U, H
    <3>6. k * SumFunctionOnSet(f, T) = k * f[c] + k * SumFunctionOnSet(f, U)
      BY <3>1, <3>4, <3>5
    <3>7. SumFunctionOnSet(g, T) = k * SumFunctionOnSet(f, T)
      BY <3>2, <3>4, <3>6
    <3>8. QED
      BY <3>7 DEF H
  <2>3. QED
    BY <2>1, <2>2
<1> HIDE DEF H
<1>2. SUBSET S \subseteq H
  BY <1>1, SubsetInduction
<1>3. QED
  BY <1>2 DEF H

LEMMA SumBelow ==
  ASSUME NEW S, IsFiniteSet(S), NEW f, NEW g,
         \A x \in S : f[x] \in Int /\ g[x] \in Int /\ f[x] <= g[x]
  PROVE  SumFunctionOnSet(f, S) <= SumFunctionOnSet(g, S)
<1> DEFINE d == [x \in S |-> g[x] - f[x]]
<1>1. \A x \in S : d[x] \in Nat /\ d[x] \in Int /\ g[x] = f[x] + d[x]
  OBVIOUS
<1> HIDE DEF d
<1>2. SumFunctionOnSet(d, S) \in Nat
  BY <1>1, SumNat
<1>3. SumFunctionOnSet(g, S) = SumFunctionOnSet(f, S) + SumFunctionOnSet(d, S)
  BY <1>1, SumAdd
<1>4. SumFunctionOnSet(f, S) \in Int
  BY SumType
<1>5. QED
  BY <1>2, <1>3, <1>4

\* Ones at the members of T and zeros elsewhere sum to the number of members.
LEMMA SumCounts ==
  ASSUME NEW S, IsFiniteSet(S), NEW T \in SUBSET S, NEW f,
         \A x \in T : f[x] = 1, \A x \in S \ T : f[x] = 0
  PROVE  SumFunctionOnSet(f, S) = Cardinality(T)
<1> DEFINE H == {U \in SUBSET S : SumFunctionOnSet(f, U) = Cardinality(U \cap T)}
<1>0. \A x \in S : f[x] \in Int
  OBVIOUS
<1>1. ASSUME NEW V \in SUBSET S, \A U \in SUBSET V : U # V => U \in H
      PROVE  V \in H
  <2>1. CASE V = {}
    <3>1. V \cap T = {}
      BY <2>1
    <3>2. QED
      BY <2>1, <3>1, SumEmpty, FS_EmptySet
  <2>2. CASE V # {}
    <3> DEFINE c == Chosen(V)
               U == V \ {c}
    <3>1. c \in V /\ SumFunctionOnSet(f, V) = f[c] + SumFunctionOnSet(f, U)
      BY <2>2, FS_Subset, SumStep
    <3>2. U \in H
      BY <1>1, <3>1
    <3>3. SumFunctionOnSet(f, U) = Cardinality(U \cap T)
      BY <3>2
    <3>4. IsFiniteSet(U \cap T)
      BY FS_Subset
    <3>5. Cardinality(U \cap T) \in Nat
      BY <3>4, FS_CardinalityType
    <3>6. CASE c \in T
      <4>1. V \cap T = (U \cap T) \cup {c} /\ c \notin U \cap T /\ f[c] = 1
        BY <3>1, <3>6
      <4>2. Cardinality(V \cap T) = Cardinality(U \cap T) + 1
        BY <3>4, <4>1, FS_AddElement
      <4> HIDE DEF c, U, H
      <4>3. SumFunctionOnSet(f, V) = Cardinality(V \cap T)
        BY <3>1, <3>3, <3>5, <4>1, <4>2
      <4>4. QED
        BY <4>3 DEF H
    <3>7. CASE c \notin T
      <4>1. V \cap T = U \cap T /\ f[c] = 0
        BY <3>1, <3>7
      <4> HIDE DEF c, U, H
      <4>2. SumFunctionOnSet(f, V) = Cardinality(V \cap T)
        BY <3>1, <3>3, <3>5, <4>1
      <4>3. QED
        BY <4>2 DEF H
    <3>8. QED
      BY <3>6, <3>7
  <2>3. QED
    BY <2>1, <2>2
<1> HIDE DEF H
<1>2. SUBSET S \subseteq H
  BY <1>1, SubsetInduction
<1>3. S \cap T = T
  OBVIOUS
<1>4. QED
  BY <1>2, <1>3 DEF H

\* Division with a remainder, and what may be divided by on both sides.
LEMMA DivMod ==
  \A a \in Nat, b \in Nat \ {0} :
    /\ a \div b \in Nat /\ a % b \in Nat
    /\ a = b * (a \div b) + (a % b) /\ a % b < b
OBVIOUS
LEMMA CancelLeft == \A s \in Nat \ {0} : \A x, y \in Int : s * x <= s * y => x <= y
OBVIOUS
LEMMA CancelLess == \A s \in Nat \ {0} : \A x, y \in Int : s * x < s * y => x < y
OBVIOUS

\* In a strict total order of 1..n, as many elements as there are places before the k-th
\* have fewer than k elements ahead of them.
LEMMA RankCounts ==
  ASSUME NEW n \in Nat, NEW ahead, NEW k \in 0..n,
         \A i \in 1..n : ahead[i] \in SUBSET (1..n),
         \A i \in 1..n : i \notin ahead[i],
         \A i \in 1..n : \A j \in ahead[i] : ahead[j] \subseteq ahead[i],
         \A i, j \in 1..n : i # j => i \in ahead[j] \/ j \in ahead[i]
  PROVE  Cardinality({i \in 1..n : Cardinality(ahead[i]) < k}) = k
<1> DEFINE rank == [i \in 1..n |-> Cardinality(ahead[i])]
           A == {i \in 1..n : rank[i] < k}
           B == (1..n) \ A
<1>1. IsFiniteSet(1..n) /\ Cardinality(1..n) = n
  BY FS_Interval
<1>2. \A i \in 1..n : IsFiniteSet(ahead[i])
  BY <1>1, FS_Subset
<1>3. \A i \in 1..n : rank[i] \in 0..(n - 1)
  <2> SUFFICES ASSUME NEW i \in 1..n PROVE rank[i] \in 0..(n - 1)
    OBVIOUS
  <2>1. IsFiniteSet((1..n) \ {i}) /\ Cardinality((1..n) \ {i}) = n - 1
    BY <1>1, FS_RemoveElement
  <2>2. ahead[i] \in SUBSET ((1..n) \ {i})
    OBVIOUS
  <2>3. Cardinality(ahead[i]) <= n - 1
    BY <2>1, <2>2, FS_Subset
  <2>4. Cardinality(ahead[i]) \in Nat
    BY <1>2, FS_CardinalityType
  <2>5. QED
    BY <2>3, <2>4
<1>4. \A i, j \in 1..n : i \in ahead[j] => rank[i] < rank[j]
  <2> SUFFICES ASSUME NEW i \in 1..n, NEW j \in 1..n, i \in ahead[j] PROVE rank[i] < rank[j]
    OBVIOUS
  <2>1. ahead[i] \cup {i} \in SUBSET ahead[j] /\ i \notin ahead[i]
    OBVIOUS
  <2>2. Cardinality(ahead[i] \cup {i}) = Cardinality(ahead[i]) + 1
    BY <1>2, <2>1, FS_AddElement
  <2>3. Cardinality(ahead[i] \cup {i}) <= Cardinality(ahead[j])
    BY <1>2, <2>1, FS_Subset
  <2>4. Cardinality(ahead[i]) \in Nat /\ Cardinality(ahead[j]) \in Nat
    BY <1>2, FS_CardinalityType
  <2>5. QED
    BY <2>2, <2>3, <2>4
<1>5. \A i, j \in 1..n : rank[i] = rank[j] => i = j
  <2>1. \A i, j \in 1..n : rank[i] \in Int /\ rank[j] \in Int
    BY <1>3
  <2> HIDE DEF rank
  <2>2. QED
    BY <1>4, <2>1
<1> HIDE DEF rank
<1>6. A \in SUBSET (1..n) /\ IsFiniteSet(A) /\ IsFiniteSet(B)
  BY <1>1, FS_Subset
<1>7. Cardinality(A) <= k
  <2>1. IsFiniteSet(0..(k - 1)) /\ Cardinality(0..(k - 1)) = k
    BY FS_Interval
  <2>2. [i \in A |-> rank[i]] \in Injection(A, 0..(k - 1))
    BY <1>3, <1>5 DEF Injection, IsInjective
  <2>3. QED
    BY <2>1, <2>2, FS_Injection
<1>8. Cardinality(B) <= n - k
  <2>1. IsFiniteSet(k..(n - 1)) /\ Cardinality(k..(n - 1)) = n - k
    BY FS_Interval
  <2>2. [i \in B |-> rank[i]] \in Injection(B, k..(n - 1))
    <3>1. \A i \in B : rank[i] \in k..(n - 1)
      BY <1>3
    <3>2. QED
      BY <1>5, <3>1 DEF Injection, IsInjective
  <2>3. QED
    BY <2>1, <2>2, FS_Injection
<1>9. Cardinality(B) = n - Cardinality(A)
  <2>1. (1..n) \cap A = A
    OBVIOUS
  <2>2. QED
    BY <1>1, <2>1, FS_Difference
<1>10. Cardinality(A) = k
  <2>1. Cardinality(A) \in Nat
    BY <1>6, FS_CardinalityType
  <2> HIDE DEF A, B
  <2>2. QED
    BY <1>7, <1>8, <1>9, <2>1
<1>11. QED
  BY <1>10 DEF rank
=============================================================================
