------------------------------ MODULE PortProofs ------------------------------
(***************************************************************************)
(* Theorems about sagas, and about what is written a second time: the      *)
(* sessions and the sagas of the Rust, Go and Python toolkits beside the   *)
(* TypeScript ones (PortAgents, PortSagas) and the rules of the            *)
(* conformance runner (Conformance).                                       *)
(***************************************************************************)
EXTENDS PortSagas, Conformance, SessionProofs

-----------------------------------------------------------------------------
(* What children are worth: summed with the unpriced ones counted as nothing, or     *)
(* over the priced ones alone.                                                       *)

Worth == [c \in Commitments |-> ChildAmount(c)]
Priced(kids) == {k \in kids : Committed[k] # NoMoney}

LEMMA WorthType == Worth \in [Commitments -> Nat]
BY MoneyAssumption DEF Worth, ChildAmount, Money

LEMMA WorthOfChildren ==
  ASSUME NEW S \in SUBSET Commitments
  PROVE  MapThenSumSet(ChildAmount, S) = SumFunctionOnSet(Worth, S)
<1> DEFINE Table(g) == g = [s \in SUBSET S |->
                              IF s = {} THEN 0 ELSE ChildAmount(Chosen(s)) + g[s \ {Chosen(s)}]]
           iter == CHOOSE g : Table(g)
<1>1. IsFiniteSet(S)
  BY CommitmentsAssumption, FS_Subset
<1>2. \A s \in SUBSET S : s # {} => Worth[Chosen(s)] = ChildAmount(Chosen(s))
  BY ChosenIn DEF Worth
<1>3. \A g : SumTable(g, Worth, S) <=> Table(g)
  <2> SUFFICES ASSUME NEW g PROVE SumTable(g, Worth, S) <=> Table(g)
    OBVIOUS
  <2>1. [s \in SUBSET S |-> IF s = {} THEN 0 ELSE Worth[Chosen(s)] + g[s \ {Chosen(s)}]]
          = [s \in SUBSET S |-> IF s = {} THEN 0 ELSE ChildAmount(Chosen(s)) + g[s \ {Chosen(s)}]]
    BY <1>2
  <2>2. QED
    BY <2>1 DEF SumTable
<1>4. Table(iter)
  BY <1>1, <1>3, SumTableExists
<1>5. MapThenSumSet(ChildAmount, S) = iter[S]
  BY DEF MapThenSumSet, MapThenFoldSet, Chosen
<1> HIDE DEF iter, Table
<1>6. PICK g : SumTable(g, Worth, S) /\ SumFunctionOnSet(Worth, S) = g[S]
  BY <1>1, SumIs
<1>7. iter[S] = g[S]
  BY <1>1, <1>3, <1>4, <1>6, SumTablesAgree
<1>8. QED
  BY <1>5, <1>6, <1>7

LEMMA WorthOfPriced ==
  ASSUME NEW S \in SUBSET Commitments, \A k \in S : Committed[k] # NoMoney
  PROVE  MapThenSumSet(LAMBDA k : Committed[k].amount, S) = SumFunctionOnSet(Worth, S)
<1> DEFINE Table(g) == g = [s \in SUBSET S |->
                              IF s = {} THEN 0 ELSE Committed[Chosen(s)].amount + g[s \ {Chosen(s)}]]
           iter == CHOOSE g : Table(g)
<1>1. IsFiniteSet(S)
  BY CommitmentsAssumption, FS_Subset
<1>2. \A s \in SUBSET S : s # {} => Worth[Chosen(s)] = Committed[Chosen(s)].amount
  BY ChosenIn DEF Worth, ChildAmount
<1>3. \A g : SumTable(g, Worth, S) <=> Table(g)
  <2> SUFFICES ASSUME NEW g PROVE SumTable(g, Worth, S) <=> Table(g)
    OBVIOUS
  <2>1. [s \in SUBSET S |-> IF s = {} THEN 0 ELSE Worth[Chosen(s)] + g[s \ {Chosen(s)}]]
          = [s \in SUBSET S |-> IF s = {} THEN 0 ELSE Committed[Chosen(s)].amount + g[s \ {Chosen(s)}]]
    BY <1>2
  <2>2. QED
    BY <2>1 DEF SumTable
<1>4. Table(iter)
  BY <1>1, <1>3, SumTableExists
<1>5. MapThenSumSet(LAMBDA k : Committed[k].amount, S) = iter[S]
  BY DEF MapThenSumSet, MapThenFoldSet, Chosen
<1> HIDE DEF iter, Table
<1>6. PICK g : SumTable(g, Worth, S) /\ SumFunctionOnSet(Worth, S) = g[S]
  BY <1>1, SumIs
<1>7. iter[S] = g[S]
  BY <1>1, <1>3, <1>4, <1>6, SumTablesAgree
<1>8. QED
  BY <1>5, <1>6, <1>7

LEMMA WorthOfPricedOnly ==
  ASSUME NEW S \in SUBSET Commitments
  PROVE  SumFunctionOnSet(Worth, S) = SumFunctionOnSet(Worth, Priced(S))
<1> DEFINE H == {T \in SUBSET S : SumFunctionOnSet(Worth, T) = SumFunctionOnSet(Worth, Priced(T))}
<1>1. IsFiniteSet(S) /\ \A T \in SUBSET S : IsFiniteSet(T)
  BY CommitmentsAssumption, FS_Subset
<1>2. ASSUME NEW T \in SUBSET S, \A U \in SUBSET T : U # T => U \in H
      PROVE  T \in H
  <2>1. CASE T = {}
    BY <2>1 DEF Priced
  <2>2. CASE T # {}
    <3> DEFINE x == Chosen(T)
               U == T \ {x}
    <3>1. x \in T /\ x \in Commitments /\ U \in SUBSET T /\ U # T
      BY <2>2, ChosenIn
    <3>2. SumFunctionOnSet(Worth, U) = SumFunctionOnSet(Worth, Priced(U))
      BY <1>2, <3>1
    <3>3. SumFunctionOnSet(Worth, T) = Worth[x] + SumFunctionOnSet(Worth, U)
      BY <1>1, <2>2, SumStep
    <3> HIDE DEF x, U
    <3>4. CASE Committed[x] = NoMoney
      <4>1. Worth[x] = 0
        BY <3>1, <3>4 DEF Worth, ChildAmount
      <4>2. Priced(U) = Priced(T)
        BY <3>1, <3>4 DEF Priced, U
      <4>3. SumFunctionOnSet(Worth, U) \in Int
        BY <1>1, <3>1, SumType, WorthType
      <4>4. QED
        BY <3>2, <3>3, <4>1, <4>2, <4>3
    <3>5. CASE Committed[x] # NoMoney
      <4>1. Priced(U) = Priced(T) \ {x} /\ x \in Priced(T) /\ Priced(T) \in SUBSET S
        BY <3>1, <3>5 DEF Priced, U
      <4>2. SumFunctionOnSet(Worth, Priced(T)) = Worth[x] + SumFunctionOnSet(Worth, Priced(U))
        <5>1. IsFiniteSet(Priced(T)) /\ \A y \in Priced(T) : Worth[y] \in Int
          BY <1>1, <4>1, WorthType
        <5>2. QED
          BY <4>1, <5>1, SumTakeOut
      <4>3. QED
        BY <3>2, <3>3, <4>2
    <3>6. QED
      BY <3>4, <3>5
  <2>3. QED
    BY <2>1, <2>2
<1> HIDE DEF H
<1>3. SUBSET S \subseteq H
  BY <1>1, <1>2, SubsetInduction
<1>4. QED
  BY <1>3 DEF H

\* Every audit of a parent sums alike.
LEMMA WorthAlike ==
  ASSUME NEW kids \in SUBSET Commitments
  PROVE  MapThenSumSet(LAMBDA k : Committed[k].amount, Priced(kids)) = MapThenSumSet(ChildAmount, kids)
<1>1. Priced(kids) \in SUBSET Commitments /\ \A k \in Priced(kids) : Committed[k] # NoMoney
  BY DEF Priced
<1>2. QED
  BY <1>1, WorthOfChildren, WorthOfPriced, WorthOfPricedOnly

-----------------------------------------------------------------------------
(* The audits.  Each port writes the rules in its own way; over a whole world they   *)
(* refuse the same.                                                                  *)

Worlds == [Commitments -> Commitment]

LEMMA WorldTypes ==
  ASSUME NEW w \in Worlds, NEW c \in Commitments
  PROVE  /\ DOMAIN w = Commitments
         /\ w[c].state \in States /\ w[c].history \in Seq(Entry)
         /\ w[c].state.type = "Refunded" => w[c].state.amount \in Money
         /\ DOMAIN w[c].history = 1..Len(w[c].history) /\ Len(w[c].history) \in Nat
         /\ \A i \in 1..Len(w[c].history) : w[c].history[i] \in Entry /\ w[c].history[i].at \in Nat
<1>1. w[c] \in Commitment
  BY DEF Worlds
<1>2. w[c].history \in Seq(Entry) /\ w[c].state \in States
  BY <1>1 DEF Commitment
<1>3. DOMAIN w[c].history = 1..Len(w[c].history) /\ Len(w[c].history) \in Nat
  BY <1>2, LenProperties
<1>4. \A i \in 1..Len(w[c].history) : w[c].history[i] \in Entry
  BY <1>2, ElementOfSeq
<1>5. QED
  BY <1>2, <1>3, <1>4 DEF Worlds, States, Entry

\* The stamp of a first acceptance is an instant.
LEMMA AcceptedAtType ==
  ASSUME NEW w \in Worlds, NEW c \in Commitments, WasAccepted(w[c])
  PROVE  AcceptedAt(w[c]) \in Nat
<1> DEFINE h == w[c].history
           P(i) == i \in DOMAIN h /\ h[i].to.type = "Accepted"
           S == {i \in Nat : P(i)}
<1>1. DOMAIN h = 1..Len(h) /\ Len(h) \in Nat /\ \A i \in 1..Len(h) : h[i].at \in Nat
  BY WorldTypes
<1>2. PICK i \in S : \A j \in S : i <= j
  <2>1. S # {} /\ S \subseteq Nat
    BY <1>1 DEF WasAccepted
  <2> HIDE DEF S
  <2>2. QED
    BY <2>1, LeastNatural
<1>3. FirstAccepted(w[c], i)
  BY <1>1, <1>2 DEF FirstAccepted
<1>4. w[c] \in Commitment /\ AcceptedAt(w[c]) = h[i].at
  BY <1>3, FirstIsChosen DEF Worlds
<1>5. QED
  BY <1>1, <1>2, <1>4

\* Time runs forward in a history, told by the entries or by the pairs.
LEMMA SteadyAlike ==
  ASSUME NEW w \in Worlds, NEW c \in Commitments, NEW h, h = w[c].history
  PROVE  (\E i \in DOMAIN h : i > 1 /\ h[i].at < h[i - 1].at)
           <=> ~(\A i \in 2..Len(h) : h[i].at >= h[i - 1].at)
<1>1. DOMAIN h = 1..Len(h) /\ Len(h) \in Nat /\ \A i \in 1..Len(h) : h[i].at \in Nat
  BY WorldTypes
<1>2. \A i \in 1..Len(h) : i > 1 <=> i \in 2..Len(h)
  BY <1>1
<1>3. \A i \in 2..Len(h) :
        i \in 1..Len(h) /\ i - 1 \in 1..Len(h) /\ (h[i].at >= h[i - 1].at <=> ~(h[i].at < h[i - 1].at))
  BY <1>1
<1>4. QED
  BY <1>1, <1>2, <1>3

LEMMA RustTreesAlike ==
  ASSUME NEW c \in Commitments, NEW kids \in SUBSET Commitments
  PROVE  RustBreaksTree(c, kids) <=> kids # {} /\ ~TreeConsistent(c, kids)
<1>1. MapThenSumSet(LAMBDA k : Committed[k].amount, Priced(kids)) = MapThenSumSet(ChildAmount, kids)
  BY WorthAlike
<1>2. QED
  BY <1>1 DEF RustBreaksTree, TreeConsistent, Priced

LEMMA RustAuditsAlike ==
  ASSUME NEW w \in Worlds
  PROVE  RustAuditScene(w, Fulfillments) = {} <=> AuditClean(w, Fulfillments)
<1> DEFINE F == Fulfillments
           b2(c) == \E i \in DOMAIN w[c].history :
                      LET h == w[c].history[i]
                      IN \/ ~RustIsValidTransition(h.from.type, h.to.type)
                         \/ i > 1 /\ h.at < w[c].history[i - 1].at
           breaks(c) ==
        [ I1 |-> w[c].state.type = "Refunded" /\ RustOverRefunds(c, w[c].state.amount),
          I2 |-> b2(c),
          I3 |-> c \notin MayBuy /\ RustReachedAccepted(w[c]),
          I4 |-> \E x \in DOMAIN F :
                   /\ F[x].commitment = c
                   /\ \/ F[x].state.type \in {"InProgress", "Completed"} /\ ~WasAccepted(w[c])
                      \/ /\ F[x].startedAt # None /\ WasAccepted(w[c])
                         /\ F[x].startedAt < AcceptedAt(w[c]),
          I6 |-> RustBreaksTree(c, Children[c] \cap DOMAIN w) ]
<1>1. RustAuditScene(w, F) = {i \in {"I1", "I2", "I3", "I4", "I6"} : \E c \in DOMAIN w : breaks(c)[i]}
  BY DEF RustAuditScene
<1>2. DOMAIN w = Commitments
  BY DEF Worlds
<1>3. ASSUME NEW c \in Commitments
      PROVE  /\ ~breaks(c).I1 <=> (w[c].state.type = "Refunded" =>
                  ~ExceedsCommitted(c, w[c].state.amount.amount, w[c].state.amount.currency))
             /\ ~breaks(c).I2 <=> CheckI2(w[c])
             /\ ~breaks(c).I3 <=> CheckI3(c, w[c])
             /\ ~breaks(c).I4 <=> CheckI4(c, w[c], F)
             /\ ~breaks(c).I6 <=> CheckI6(c)
  <2>1. ~breaks(c).I1 <=> (w[c].state.type = "Refunded" =>
          ~ExceedsCommitted(c, w[c].state.amount.amount, w[c].state.amount.currency))
    BY DEF RustOverRefunds, ExceedsCommitted
  <2>2. ~breaks(c).I2 <=> CheckI2(w[c])
    <3> DEFINE h == w[c].history
    <3>1. breaks(c).I2 <=> b2(c)
      <4> HIDE DEF b2
      <4>1. QED
        OBVIOUS
    <3>2. b2(c) <=> \E i \in DOMAIN h : \/ ~IsValidCommitmentTransition(h[i].from, h[i].to)
                                        \/ i > 1 /\ h[i].at < h[i - 1].at
      BY DEF RustIsValidTransition, IsValidCommitmentTransition
    <3>3. (\E i \in DOMAIN h : i > 1 /\ h[i].at < h[i - 1].at)
            <=> ~(\A i \in 2..Len(h) : h[i].at >= h[i - 1].at)
      BY <1>3, SteadyAlike
    <3>4. QED
      <4> HIDE DEF breaks
      <4>1. QED
        BY <3>1, <3>2, <3>3 DEF CheckI2
  <2>3. ~breaks(c).I3 <=> CheckI3(c, w[c])
    BY DEF RustReachedAccepted, CheckI3, WasAccepted
  <2>4. ~breaks(c).I4 <=> CheckI4(c, w[c], F)
    <3>1. \A x \in DOMAIN F : F[x].startedAt # None => F[x].startedAt \in Nat
      BY DeliveriesAssumption
    <3>2. WasAccepted(w[c]) => AcceptedAt(w[c]) \in Nat
      BY <1>3, AcceptedAtType
    <3>3. QED
      BY <3>1, <3>2 DEF CheckI4
  <2>5. ~breaks(c).I6 <=> CheckI6(c)
    BY <1>2, <1>3, RustTreesAlike DEF CheckI6
  <2>6. QED
    BY <2>1, <2>2, <2>3, <2>4, <2>5
<1>4. RustAuditScene(w, F) = {} <=>
        \A c \in Commitments : /\ ~breaks(c).I1 /\ ~breaks(c).I2 /\ ~breaks(c).I3
                               /\ ~breaks(c).I4 /\ ~breaks(c).I6
  <2> HIDE DEF breaks
  <2>1. QED
    BY <1>1, <1>2
<1> HIDE DEF breaks
<1>5. QED
  BY <1>2, <1>3, <1>4 DEF AuditClean, CheckI1

LEMMA GoAuditsAlike ==
  ASSUME NEW w \in Worlds
  PROVE  GoAuditScene(w, Fulfillments) = {} <=> AuditClean(w, Fulfillments)
<1> DEFINE F == Fulfillments
<1>1. DOMAIN w = Commitments
  BY DEF Worlds
<1>2. GoAuditScene(w, F) = {} <=>
        /\ GoOverRefunded(w) = {} /\ GoOutOfOrder(w) = {}
        /\ ~\E c \in Commitments \ MayBuy : GoReachedAccepted(w[c])
        /\ GoTooEarly(w, F) = {} /\ GoUnbalanced(w) = {}
  BY <1>1 DEF GoAuditScene
<1>3. GoOverRefunded(w) = {} <=> CheckI1(w)
  BY DEF GoOverRefunded, CheckI1, ExceedsCommitted
<1>4. ASSUME NEW c \in Commitments
      PROVE  /\ c \notin GoOutOfOrder(w) <=> CheckI2(w[c])
             /\ (c \in MayBuy \/ ~GoReachedAccepted(w[c])) <=> CheckI3(c, w[c])
             /\ c \notin GoTooEarly(w, F) <=> CheckI4(c, w[c], F)
             /\ c \notin GoUnbalanced(w) <=> CheckI6(c)
  <2>1. c \notin GoOutOfOrder(w) <=> CheckI2(w[c])
    <3> DEFINE h == w[c].history
    <3>1. \A from, to : GoAllows(from.type, to.type) <=> IsValidCommitmentTransition(from, to)
      BY DEF GoAllows, IsValidCommitmentTransition
    <3>2. (\E i \in DOMAIN h : i > 1 /\ h[i].at < h[i - 1].at)
            <=> ~(\A i \in 2..Len(h) : h[i].at >= h[i - 1].at)
      BY <1>4, SteadyAlike
    <3>3. QED
      BY <1>1, <3>1, <3>2 DEF GoOutOfOrder, CheckI2
  <2>2. (c \in MayBuy \/ ~GoReachedAccepted(w[c])) <=> CheckI3(c, w[c])
    BY DEF GoReachedAccepted, CheckI3, WasAccepted
  <2>3. c \notin GoTooEarly(w, F) <=> CheckI4(c, w[c], F)
    <3>1. \A x \in DOMAIN F : F[x].startedAt # None => F[x].startedAt \in Nat
      BY DeliveriesAssumption
    <3>2. WasAccepted(w[c]) => AcceptedAt(w[c]) \in Nat
      BY <1>4, AcceptedAtType
    <3>3. QED
      BY <1>1, <3>1, <3>2 DEF GoTooEarly, CheckI4
  <2>4. c \notin GoUnbalanced(w) <=> CheckI6(c)
    <3> DEFINE kids == Children[c] \cap DOMAIN w
    <3>1. MapThenSumSet(LAMBDA k : Committed[k].amount, Priced(kids)) = MapThenSumSet(ChildAmount, kids)
      BY <1>1, WorthAlike
    <3>2. QED
      BY <1>1, <3>1 DEF GoUnbalanced, CheckI6, TreeConsistent, Priced
  <2>5. QED
    BY <2>1, <2>2, <2>3, <2>4
<1>5. GoOutOfOrder(w) \subseteq Commitments /\ GoTooEarly(w, F) \subseteq Commitments
      /\ GoUnbalanced(w) \subseteq Commitments
  BY <1>1 DEF GoOutOfOrder, GoTooEarly, GoUnbalanced
<1>6. QED
  BY <1>1, <1>2, <1>3, <1>4, <1>5 DEF AuditClean

LEMMA PyTreesAlike ==
  ASSUME NEW c \in Commitments, NEW kids \in SUBSET Commitments
  PROVE  PyCheckI6(c, kids) <=> TreeConsistent(c, kids)
<1>1. MapThenSumSet(LAMBDA k : Committed[k].amount, Priced(kids)) = MapThenSumSet(ChildAmount, kids)
  BY WorthAlike
<1>2. QED
  BY <1>1 DEF PyCheckI6, TreeConsistent, Priced

LEMMA PyAuditsAlike ==
  ASSUME NEW w \in Worlds
  PROVE  PyAuditClean(w, Fulfillments) <=> AuditClean(w, Fulfillments)
<1> DEFINE F == Fulfillments
<1>1. DOMAIN w = Commitments
  BY DEF Worlds
<1>2. PyCheckI1(w) = {} <=> CheckI1(w)
  BY DEF PyCheckI1, CheckI1, ExceedsCommitted
<1>3. ASSUME NEW c \in Commitments
      PROVE  /\ PyCheckI2(w[c]) <=> CheckI2(w[c])
             /\ PyCheckI3(w[c], c \in MayBuy) <=> CheckI3(c, w[c])
             /\ PyCheckI4(c, w[c], F) <=> CheckI4(c, w[c], F)
             /\ (LET kids == Children[c] \cap DOMAIN w IN kids # {} => PyCheckI6(c, kids)) <=> CheckI6(c)
  <2>1. PyCheckI2(w[c]) <=> CheckI2(w[c])
    <3> DEFINE h == w[c].history
    <3>1. DOMAIN h = 1..Len(h) /\ Len(h) \in Nat /\ \A i \in 1..Len(h) : h[i].at \in Nat
      BY <1>3, WorldTypes
    <3>2. (\A i \in 1..(Len(h) - 1) : ~(h[i + 1].at < h[i].at))
            <=> (\A i \in 2..Len(h) : h[i].at >= h[i - 1].at)
      <4>1. ASSUME \A i \in 1..(Len(h) - 1) : ~(h[i + 1].at < h[i].at), NEW i \in 2..Len(h)
            PROVE  h[i].at >= h[i - 1].at
        <5>1. i - 1 \in 1..(Len(h) - 1) /\ (i - 1) + 1 = i
          BY <3>1
        <5>2. ~(h[i].at < h[i - 1].at)
          BY <4>1, <5>1
        <5>3. h[i].at \in Nat /\ h[i - 1].at \in Nat
          BY <3>1
        <5>4. QED
          BY <5>2, <5>3
      <4>2. ASSUME \A i \in 2..Len(h) : h[i].at >= h[i - 1].at, NEW i \in 1..(Len(h) - 1)
            PROVE  ~(h[i + 1].at < h[i].at)
        <5>1. i + 1 \in 2..Len(h) /\ (i + 1) - 1 = i
          BY <3>1
        <5>2. h[i + 1].at >= h[i].at
          BY <4>2, <5>1
        <5>3. h[i].at \in Nat /\ h[i + 1].at \in Nat
          BY <3>1
        <5>4. QED
          BY <5>2, <5>3
      <4>3. QED
        BY <4>1, <4>2
    <3>3. (\A e \in {h[i] : i \in DOMAIN h} : PyIsValidCommitmentTransition(e.from, e.to))
            <=> \A i \in DOMAIN h : IsValidCommitmentTransition(h[i].from, h[i].to)
      BY DEF PyIsValidCommitmentTransition, IsValidCommitmentTransition
    <3>4. QED
      BY <3>2, <3>3 DEF PyCheckI2, CheckI2
  <2>2. PyCheckI3(w[c], c \in MayBuy) <=> CheckI3(c, w[c])
    BY DEF PyCheckI3, PyReachedAccepted, CheckI3
  <2>3. PyCheckI4(c, w[c], F) <=> CheckI4(c, w[c], F)
    <3>1. \A x \in DOMAIN F : F[x].startedAt # None => F[x].startedAt \in Nat
      BY DeliveriesAssumption
    <3>2. WasAccepted(w[c]) => AcceptedAt(w[c]) \in Nat
      BY <1>3, AcceptedAtType
    <3>3. QED
      BY <3>1, <3>2 DEF PyCheckI4, CheckI4
  <2>4. (LET kids == Children[c] \cap DOMAIN w IN kids # {} => PyCheckI6(c, kids)) <=> CheckI6(c)
    BY <1>1, PyTreesAlike DEF CheckI6
  <2>5. QED
    BY <2>1, <2>2, <2>3, <2>4
<1>4. QED
  BY <1>1, <1>2, <1>3 DEF PyAuditClean, AuditClean

-----------------------------------------------------------------------------
(* The caps.  The ports read them off audits of parts of the world: of a probe that  *)
(* was refunded the total, and of a root with its children.                          *)

LEMMA RustProbesAlike ==
  ASSUME NEW w, NEW c \in Commitments, NEW total \in Money
  PROVE  RustIsCumulativeOverRefund(w, c, total) <=> ExceedsCommitted(c, total.amount, total.currency)
<1> DEFINE p == [k \in {c} |-> [state |-> [type |-> "Refunded", amount |-> total], history |-> <<>>]]
<1>1. /\ DOMAIN p = {c} /\ p[c].state.type = "Refunded" /\ p[c].state.amount = total
  OBVIOUS
<1> HIDE DEF p
<1>2. "I1" \in RustAuditScene(p, <<>>) <=> RustOverRefunds(c, total)
  BY <1>1 DEF RustAuditScene
<1>3. QED
  BY <1>2 DEF RustIsCumulativeOverRefund, RustOverRefunds, ExceedsCommitted, p

LEMMA GoProbesAlike ==
  ASSUME NEW c \in Commitments, NEW total, NEW currency
  PROVE  GoIsCumulativeOverRefund(c, total, currency) <=> ExceedsCommitted(c, total, currency)
<1> DEFINE refunded == [type |-> "Refunded", amount |-> [amount |-> total, currency |-> currency]]
           p == [k \in {c} |-> [state |-> refunded, history |-> <<>>]]
<1>1. /\ DOMAIN p = {c} /\ p[c].state.type = "Refunded"
      /\ p[c].state.amount.amount = total /\ p[c].state.amount.currency = currency
  OBVIOUS
<1> HIDE DEF p
<1>2. "I-1" \in GoAuditScene(p, <<>>) <=> GoOverRefunded(p) # {}
  BY DEF GoAuditScene
<1>3. GoOverRefunded(p) # {} <=> ExceedsCommitted(c, total, currency)
  BY <1>1 DEF GoOverRefunded, ExceedsCommitted
<1>4. QED
  BY <1>2, <1>3 DEF GoIsCumulativeOverRefund, p

LEMMA PyProbesAlike ==
  ASSUME NEW c \in Commitments, NEW total
  PROVE  PyIsCumulativeOverRefund(c, total) <=> ExceedsCommitted(c, total.amount, total.currency)
<1> DEFINE p == [k \in {c} |-> [state |-> [type |-> "Refunded", amount |-> total], history |-> <<>>]]
<1>1. /\ DOMAIN p = {c} /\ p[c].state.type = "Refunded" /\ p[c].state.amount = total
  OBVIOUS
<1> HIDE DEF p
<1>2. PyCheckI1(p) # {} <=> ExceedsCommitted(c, total.amount, total.currency)
  BY <1>1 DEF PyCheckI1, ExceedsCommitted
<1>3. QED
  BY <1>2 DEF PyIsCumulativeOverRefund, p

\* Among a root and its children only the root has children.
LEMMA OnlyTheRootHasChildren ==
  ASSUME TwoWayLinks, NEW r \in Commitments, Up(r) = r,
         NEW kids, kids = ChildrenByPointer(r), NEW c \in kids \cup {r}
  PROVE  Children[c] \cap (kids \cup {r}) = IF c = r THEN kids ELSE {}
<1>1. kids \subseteq Commitments /\ c \in Commitments
  BY DEF ChildrenByPointer
<1>2. Children[c] \cap Commitments = {k \in Commitments : Parent[k] = c}
  BY <1>1 DEF TwoWayLinks, ChildrenByPointer
<1>3. CASE c = r
  BY <1>1, <1>2, <1>3 DEF ChildrenByPointer
<1>4. CASE c # r
  <2>1. \A k \in kids : Parent[k] = r
    BY DEF ChildrenByPointer
  <2>2. Parent[r] # c
    BY <1>1, <1>4 DEF Up
  <2>3. QED
    BY <1>1, <1>2, <1>4, <2>1, <2>2
<1>5. QED
  BY <1>3, <1>4

LEMMA RustConsistencyAlike ==
  ASSUME TwoWayLinks, NEW w \in Worlds, NEW r \in Commitments, Up(r) = r, ChildrenByPointer(r) # {}
  PROVE  RustTreeIsConsistent(w, r) <=> TreeConsistent(r, ChildrenByPointer(r))
<1> DEFINE kids == ChildrenByPointer(r)
           subset == [k \in kids \cup {r} |-> w[k]]
<1>1. kids = {k \in DOMAIN w : Parent[k] = r} /\ kids \subseteq Commitments
  BY DEF ChildrenByPointer, Worlds
<1>2. DOMAIN subset = kids \cup {r}
  OBVIOUS
<1> HIDE DEF subset
<1>3. "I6" \in RustAuditScene(subset, <<>>) <=>
        \E c \in kids \cup {r} : RustBreaksTree(c, Children[c] \cap (kids \cup {r}))
  BY <1>2 DEF RustAuditScene
<1>4. \A c \in kids \cup {r} : Children[c] \cap (kids \cup {r}) = IF c = r THEN kids ELSE {}
  BY OnlyTheRootHasChildren
<1>5. \A c : ~RustBreaksTree(c, {})
  BY DEF RustBreaksTree
<1>6. "I6" \in RustAuditScene(subset, <<>>) <=> RustBreaksTree(r, kids)
  BY <1>3, <1>4, <1>5
<1>7. RustBreaksTree(r, kids) <=> ~TreeConsistent(r, kids)
  BY <1>1, RustTreesAlike
<1>8. RustTreeIsConsistent(w, r) <=> "I6" \notin RustAuditScene(subset, <<>>)
  BY <1>1 DEF RustTreeIsConsistent, subset
<1>9. QED
  BY <1>6, <1>7, <1>8

LEMMA GoConsistencyAlike ==
  ASSUME TwoWayLinks, NEW w \in Worlds, NEW r \in Commitments, Up(r) = r, ChildrenByPointer(r) # {}
  PROVE  GoTreeIsConsistent(w, r) <=> TreeConsistent(r, ChildrenByPointer(r))
<1> DEFINE kids == ChildrenByPointer(r)
           subset == {r} \cup {c \in DOMAIN w : Parent[c] = r}
           p == [c \in subset |-> w[c]]
<1>1. subset = kids \cup {r} /\ kids \subseteq Commitments
  BY DEF ChildrenByPointer, Worlds
<1>2. DOMAIN p = kids \cup {r}
  BY <1>1
<1> HIDE DEF p
<1>3. MapThenSumSet(LAMBDA k : Committed[k].amount, Priced(kids)) = MapThenSumSet(ChildAmount, kids)
  BY <1>1, WorthAlike
<1>4. \A c \in kids \cup {r} : Children[c] \cap DOMAIN p = IF c = r THEN kids ELSE {}
  BY <1>2, OnlyTheRootHasChildren
<1>5. GoUnbalanced(p) # {} <=> ~TreeConsistent(r, kids)
  <2>1. ASSUME NEW c \in GoUnbalanced(p) PROVE c = r
    BY <1>2, <1>4, <2>1 DEF GoUnbalanced
  <2>2. r \in GoUnbalanced(p) <=> ~TreeConsistent(r, kids)
    <3>1. r \in DOMAIN p /\ Children[r] \cap DOMAIN p = kids
      BY <1>2, <1>4
    <3> HIDE DEF kids
    <3>2. QED
      BY <1>3, <3>1 DEF GoUnbalanced, TreeConsistent, Priced, kids
  <2>3. QED
    BY <2>1, <2>2
<1>6. "I-6" \in GoAuditScene(p, <<>>) <=> GoUnbalanced(p) # {}
  BY DEF GoAuditScene
<1>7. GoTreeIsConsistent(w, r) <=> (subset = {r} \/ "I-6" \notin GoAuditScene(p, <<>>))
  BY DEF GoTreeIsConsistent, p
<1>8. subset = {r} => TreeConsistent(r, kids)   \* a root that points to itself
  <2>1. SUFFICES ASSUME subset = {r} PROVE TreeConsistent(r, kids)
    OBVIOUS
  <2>2. kids = {r}
    BY <1>1, <2>1
  <2>3. SumFunctionOnSet(Worth, {r}) = Worth[r]
    BY SumSingleton, WorthType
  <2>4. MapThenSumSet(ChildAmount, kids) = ChildAmount(r) /\ ChildAmount(r) \in Nat
    BY <2>2, <2>3, WorthOfChildren, WorthType DEF Worth
  <2>5. Committed[r] # NoMoney => Committed[r].amount - Committed[r].amount < Eps
    BY MoneyAssumption DEF Money
  <2>6. QED
    BY <2>2, <2>4, <2>5 DEF TreeConsistent, ChildAmount, MoneyEquals
<1>9. QED
  BY <1>5, <1>6, <1>7, <1>8

-----------------------------------------------------------------------------
(* The keys.  A port spells a fingerprint out, the state in its parts; the keys tell *)
(* the same actions apart.                                                           *)

LEMMA Spelled ==
  ASSUME NEW x1, NEW x2, NEW x3, NEW x4, NEW x5, NEW x6
  PROVE  /\ <<x1, x2, x3, x4>> \o <<x5, x6>> = <<x1, x2, x3, x4, x5, x6>>
         /\ <<x1, x2, x3, x4>> \o <<>> = <<x1, x2, x3, x4>>
<1> DEFINE S == {x1, x2, x3, x4, x5, x6}
           s == <<x1, x2, x3, x4>>
           t == <<x5, x6>>
           u == <<x1, x2, x3, x4, x5, x6>>
<1>1. s \in Seq(S) /\ t \in Seq(S) /\ u \in Seq(S) /\ Len(s) = 4 /\ Len(t) = 2 /\ Len(u) = 6
  OBVIOUS
<1>2. /\ s \o t \in Seq(S) /\ Len(s \o t) = 6
      /\ \A i \in 1..6 : (s \o t)[i] = IF i <= 4 THEN s[i] ELSE t[i - 4]
  <2>1. s \o t \in Seq(S) /\ Len(s \o t) = Len(s) + Len(t)
        /\ \A i \in 1..(Len(s) + Len(t)) : (s \o t)[i] = IF i <= Len(s) THEN s[i] ELSE t[i - Len(s)]
    <3> HIDE DEF s, t
    <3>1. QED
      BY <1>1, ConcatProperties
  <2> HIDE DEF s, t
  <2>2. QED
    BY <1>1, <2>1
<1>3. \A i \in 1..6 : (IF i <= 4 THEN s[i] ELSE t[i - 4]) = u[i]
  OBVIOUS
<1>4. s \o t = u
  <2> HIDE DEF s, t, u
  <2>1. QED
    BY <1>1, <1>2, <1>3, SeqEqual
<1>5. s \o <<>> = s
  <2> HIDE DEF s
  <2>1. QED
    BY <1>1, ConcatEmptySeq
<1>6. QED
  BY <1>4, <1>5

\* What is proposed to a session: what callers ask for, and compensations.
Askable == Requests \cup Actions(CompensationKeys)

LEMMA AskableType == ASSUME NEW a \in Askable PROVE Proposable(a)
BY RequestType DEF Askable, Actions, Proposable

LEMMA KeysSpelledAlike ==
  ASSUME NEW a \in Askable
  PROVE  RustKey(a) = GoKey(a) /\ PyActionKey(a) = GoKey(a)
<1> DEFINE fp == <<"fp", a.commitment, a.to.type, a.actor>>
           amount == <<a.to.amount.amount, a.to.amount.currency>>
           full == <<"fp", a.commitment, a.to.type, a.actor, a.to.amount.amount, a.to.amount.currency>>
<1>1. fp \o amount = full /\ fp \o <<>> = fp
  BY Spelled
<1>2. RustKey(a) = IF a.key # None THEN <<"key", a.key>>
                   ELSE fp \o (IF a.to.type = "Refunded" THEN amount ELSE <<>>)
  BY DEF RustKey
<1>3. PyActionKey(a) = IF a.key # None THEN <<"key", a.key>>
                       ELSE fp \o (IF a.to.type # "Refunded" THEN <<>> ELSE amount)
  BY DEF PyActionKey
<1>4. GoKey(a) = IF a.key # None THEN <<"key", a.key>> ELSE IF a.to.type = "Refunded" THEN full ELSE fp
  BY DEF GoKey
<1> HIDE DEF fp, amount, full
<1>5. CASE a.key # None
  BY <1>2, <1>3, <1>4, <1>5
<1>6. CASE a.key = None /\ a.to.type = "Refunded"
  BY <1>1, <1>2, <1>3, <1>4, <1>6
<1>7. CASE a.key = None /\ a.to.type # "Refunded"
  BY <1>1, <1>2, <1>3, <1>4, <1>7
<1>8. QED
  BY <1>5, <1>6, <1>7

\* A fingerprint tells what the key of a session tells.
LEMMA KeysTellAlike ==
  ASSUME NEW a \in Askable, NEW b \in Askable
  PROVE  GoKey(a) = GoKey(b) <=> ActionKey(a) = ActionKey(b)
<1>1. /\ a.to \in States /\ b.to \in States
      /\ (a.to.type = "Refunded") <=> (a.to.amount \in Money)
      /\ (b.to.type = "Refunded") <=> (b.to.amount \in Money)
  BY AskableType, ProposableType
<1>2. a.to = b.to <=> a.to.type = b.to.type /\ a.to.amount = b.to.amount
  BY <1>1 DEF States
<1>3. a.to.type # "Refunded" => a.to.amount = NoMoney
  BY <1>1 DEF States
<1>4. b.to.type # "Refunded" => b.to.amount = NoMoney
  BY <1>1 DEF States
<1>5. a.to.type = "Refunded" /\ b.to.type = "Refunded" =>
        (a.to.amount = b.to.amount <=> /\ a.to.amount.amount = b.to.amount.amount
                                       /\ a.to.amount.currency = b.to.amount.currency)
  BY <1>1 DEF Money
<1>6. CASE a.key # None /\ b.key # None
  BY <1>6 DEF GoKey, ActionKey
<1>7. CASE a.key # None /\ b.key = None
  BY <1>7 DEF GoKey, ActionKey
<1>8. CASE a.key = None /\ b.key # None
  BY <1>8 DEF GoKey, ActionKey
<1>9. CASE a.key = None /\ b.key = None
  BY <1>2, <1>3, <1>4, <1>5, <1>9 DEF GoKey, ActionKey
<1>10. QED
  BY <1>6, <1>7, <1>8, <1>9

-----------------------------------------------------------------------------
(* Histories.  Rust and Go keep the history a commitment came with; an audit says    *)
(* the same of both worlds as long as what was accepted since then may be accepted   *)
(* and no delivery rests on it.                                                      *)

BareOf(v) == [c \in Commitments |-> [state |-> v[c].state, history |-> InitialWorld[c].history]]

Continues(v) ==
  \A c \in Commitments :
    LET first == InitialWorld[c].history
    IN /\ Len(first) <= Len(v[c].history)
       /\ \A i \in 1..Len(first) : v[c].history[i] = first[i]

AcceptedRightly(v) ==
  \A c \in Commitments : WasAccepted(v[c]) /\ ~WasAccepted(InitialWorld[c]) => c \in MayBuy

LEMMA OpeningIsLegal ==
  ASSUME NEW c \in Commitments
  PROVE  CheckI2(InitialWorld[c])
<1> DEFINE target == Initially[c]
           actor == CHOOSE p \in Actors : TRUE
           path == CommitmentPath[target.type]
           n == Len(path)
           visited(i) == IF i = 0 THEN Plain("Draft")
                         ELSE IF i = Len(path) THEN target ELSE Plain(path[i])
           h == InitialWorld[c].history
<1>1. actor \in Actors /\ target \in States /\ InitialWorld[c] = Synthesized(target, actor)
  BY RequestsAssumption DEF InitialWorld
<1>2. /\ target.type \in StateTypes /\ n \in Nat /\ path \in Seq(StateTypes)
      /\ (target.type = "Draft") <=> (n = 0)
  BY <1>1, CommitmentPathType DEF States
<1> HIDE DEF actor
<1>3. h = [i \in 1..n |-> [from |-> visited(i - 1), to |-> visited(i), at |-> 0, actor |-> actor]]
  BY <1>1 DEF Synthesized
<1>4. h \in Seq(Entry) /\ Len(h) = n
  <2>1. h \in Seq(Entry)
    BY <1>1, SynthesizedType DEF Commitment
  <2>2. QED
    BY <1>2, <1>3, <2>1, LenProperties
<1>5. /\ \A i \in 1..n : path[i] \in CommitmentTransitions[IF i = 1 THEN "Draft" ELSE path[i - 1]]
      /\ n # 0 => path[n] = target.type
  <2>1. path # <<>> <=> n # 0
    BY <1>2, EmptySeq
  <2> HIDE DEF n
  <2>2. QED
    BY <1>2, <2>1, PathsAreLegal DEF n
<1> HIDE DEF path, target, h
<1>6. \A i \in 1..n : visited(i).type = path[i] /\ visited(0).type = "Draft"
  BY <1>2, <1>5 DEF Plain
<1>7. \A i \in 1..n : IsValidCommitmentTransition(visited(i - 1), visited(i))
  <2> SUFFICES ASSUME NEW i \in 1..n
               PROVE  IsValidCommitmentTransition(visited(i - 1), visited(i))
    OBVIOUS
  <2>1. visited(i - 1).type = IF i = 1 THEN "Draft" ELSE path[i - 1]
    <3>1. CASE i = 1
      BY <1>6, <3>1
    <3>2. CASE i # 1
      <4>1. i - 1 \in 1..n
        BY <1>2, <3>2
      <4> HIDE DEF visited
      <4>2. QED
        BY <1>6, <3>2, <4>1
    <3>3. QED
      BY <3>1, <3>2
  <2> HIDE DEF visited
  <2>2. QED
    BY <1>5, <1>6, <2>1 DEF IsValidCommitmentTransition
<1> HIDE DEF visited
<1>8. \A i \in 1..n : h[i].from = visited(i - 1) /\ h[i].to = visited(i) /\ h[i].at = 0
  BY <1>3
<1>9. \A i \in 2..n : i \in 1..n /\ i - 1 \in 1..n
  BY <1>2
<1>10. QED
  <2>1. DOMAIN h = 1..n
    BY <1>3
  <2>2. QED
    BY <1>4, <1>7, <1>8, <1>9, <2>1 DEF CheckI2, h

LEMMA BareType ==
  ASSUME NEW v \in Worlds
  PROVE  /\ BareOf(v) \in Worlds
         /\ \A c \in Commitments : BareOf(v)[c].state = v[c].state
                                   /\ BareOf(v)[c].history = InitialWorld[c].history
BY InitialWorldType DEF BareOf, Worlds, Commitment

\* An acceptance the world came with stays the first one, and its instant 0.
LEMMA FirstAcceptanceStays ==
  ASSUME NEW v \in Worlds, Continues(v), NEW c \in Commitments, Initially[c].type \in AcceptedOrLater
  PROVE  /\ WasAccepted(v[c]) /\ WasAccepted(InitialWorld[c])
         /\ AcceptedAt(v[c]) = AcceptedAt(InitialWorld[c])
<1> DEFINE x == InitialWorld[c]
<1>1. x \in Commitment /\ x = Synthesized(Initially[c], CHOOSE p \in Actors : TRUE)
  BY InitialWorldType DEF InitialWorld
<1>2. 2 \in 1..Len(x.history) /\ FirstAccepted(x, 2)
  <2>1. Initially[c] \in States /\ (CHOOSE p \in Actors : TRUE) \in Actors
    BY RequestsAssumption
  <2> HIDE DEF x
  <2>2. QED
    BY <1>1, <2>1, SynthesizedStamps
<1>3. /\ DOMAIN v[c].history = 1..Len(v[c].history) /\ Len(v[c].history) \in Nat /\ v[c] \in Commitment
      /\ Len(x.history) \in Nat
  BY <1>1, WorldTypes, LenProperties DEF Worlds, Commitment
<1>4. /\ 1 \in 1..Len(x.history) /\ 2 \in 1..Len(v[c].history)
      /\ v[c].history[1] = x.history[1] /\ v[c].history[2] = x.history[2]
  BY <1>2, <1>3 DEF Continues
<1>5. FirstAccepted(v[c], 2)
  <2>1. \A j \in 1..(2 - 1) : j = 1
    OBVIOUS
  <2>2. 1 \in 1..(2 - 1)
    OBVIOUS
  <2> HIDE DEF x
  <2>3. QED
    BY <1>2, <1>3, <1>4, <2>1, <2>2 DEF FirstAccepted
<1>6. QED
  BY <1>1, <1>2, <1>3, <1>4, <1>5, FirstIsChosen

LEMMA AcceptanceStays ==
  ASSUME NEW v \in Worlds, Continues(v), NEW c \in Commitments, WasAccepted(InitialWorld[c])
  PROVE  WasAccepted(v[c])
<1>1. /\ DOMAIN v[c].history = 1..Len(v[c].history) /\ Len(v[c].history) \in Nat
      /\ DOMAIN InitialWorld[c].history = 1..Len(InitialWorld[c].history)
      /\ Len(InitialWorld[c].history) \in Nat
  BY InitialWorldType, WorldTypes DEF Worlds
<1>2. PICK i \in 1..Len(InitialWorld[c].history) : InitialWorld[c].history[i].to.type = "Accepted"
  BY <1>1 DEF WasAccepted
<1>3. i \in DOMAIN v[c].history /\ v[c].history[i] = InitialWorld[c].history[i]
  BY <1>1, <1>2 DEF Continues
<1>4. QED
  BY <1>2, <1>3 DEF WasAccepted

LEMMA BareAuditsAlike ==
  ASSUME AgreedDeliveries, NEW v \in Worlds, Continues(v), \A c \in Commitments : CheckI2(v[c]),
         \A c \in Commitments : WasAccepted(v[c]) /\ ~WasAccepted(InitialWorld[c]) =>
                                  c \in MayBuy \/ v[c].state.type \in AcceptedOrLater
  PROVE  AuditClean(BareOf(v), Fulfillments) <=> AuditClean(v, Fulfillments)
<1> DEFINE b == BareOf(v)
           F == Fulfillments
<1>1. /\ b \in Worlds /\ DOMAIN b = Commitments /\ DOMAIN v = Commitments
      /\ \A c \in Commitments : b[c].state = v[c].state /\ b[c].history = InitialWorld[c].history
  BY BareType DEF Worlds
<1> HIDE DEF b
<1>2. CheckI1(b) <=> CheckI1(v)
  BY <1>1 DEF CheckI1
<1>3. ASSUME NEW c \in Commitments
      PROVE  /\ CheckI2(b[c]) <=> CheckI2(v[c])
             /\ CheckI3(c, b[c]) <=> CheckI3(c, v[c])
             /\ CheckI4(c, b[c], F) <=> CheckI4(c, v[c], F)
  <2>1. CheckI2(b[c]) <=> CheckI2(v[c])
    BY <1>1, <1>3, OpeningIsLegal DEF CheckI2
  <2>2. WasAccepted(b[c]) <=> WasAccepted(InitialWorld[c])
    BY <1>1 DEF WasAccepted
  <2>3. AcceptedAt(b[c]) = AcceptedAt(InitialWorld[c])
    BY <1>1 DEF AcceptedAt
  <2>4. CheckI3(c, b[c]) <=> CheckI3(c, v[c])
    BY <1>1, <1>3, <2>2, AcceptanceStays DEF CheckI3
  <2>5. ASSUME NEW x \in DOMAIN F, F[x].commitment = c
        PROVE  \/ F[x].startedAt = None /\ F[x].state.type \notin {"InProgress", "Completed"}
               \/ WasAccepted(b[c]) /\ WasAccepted(v[c]) /\ AcceptedAt(b[c]) = AcceptedAt(v[c])
    <3>1. F[x].startedAt # None \/ F[x].state.type \in {"InProgress", "Completed"}
            => Initially[c].type \in AcceptedOrLater
      BY <1>3, <2>5 DEF AgreedDeliveries
    <3>2. QED
      BY <1>3, <2>2, <2>3, <3>1, FirstAcceptanceStays
  <2>6. CheckI4(c, b[c], F) <=> CheckI4(c, v[c], F)
    BY <2>5 DEF CheckI4
  <2>7. QED
    BY <2>1, <2>4, <2>6
<1>4. QED
  BY <1>1, <1>2, <1>3 DEF AuditClean, b

-----------------------------------------------------------------------------
(* One proposal, made to all.                                                        *)

\* The keys applied, as a port spells them.
FlatKeys == {GoKey(a) : a \in {r \in Askable : ActionKey(r) \in applied}}

\* A port in step with the session, over a world w.
Port(w, l, t, keys, v) == [world |-> w, ledger |-> l, tree |-> t, applied |-> keys, verdict |-> v]
InStep(w, was) == Port(w, ledger, treeLedger, FlatKeys, was)

LockStep == rust = InStep(BareOf(world), answer) /\ golang = InStep(BareOf(world), answer) /\ python = InStep(world, answer)

\* What the ports have read of the world stays true of it: it only grew, by legal moves
\* of commitments that may be accepted.
Grown ==
  /\ Continues(world) /\ AcceptedRightly(world)
  /\ \A c \in Commitments : CheckI2(world[c])

LEMMA FlatKeysTell ==
  ASSUME NEW a \in Askable
  PROVE  GoKey(a) \in FlatKeys <=> IsReplay(a)
<1>1. GoKey(a) \in FlatKeys <=> \E r \in Askable : ActionKey(r) \in applied /\ GoKey(a) = GoKey(r)
  BY DEF FlatKeys
<1>2. QED
  BY <1>1, KeysTellAlike DEF IsReplay

LEMMA FlatKeysGrow ==
  ASSUME NEW a \in Askable, RecordKey(a)
  PROVE  FlatKeys' = FlatKeys \cup {GoKey(a)}
<1>1. {r \in Askable : ActionKey(r) \in applied'}
        = {r \in Askable : ActionKey(r) \in applied} \cup {r \in Askable : ActionKey(r) = ActionKey(a)}
  BY DEF RecordKey
<1>2. \A r \in Askable : ActionKey(r) = ActionKey(a) => GoKey(r) = GoKey(a)
  BY KeysTellAlike
<1>3. QED
  BY <1>1, <1>2 DEF FlatKeys

\* The move of a guard that appends nothing is the same move of the bare world.
LEMMA BareMoves ==
  ASSUME Typed, NEW a \in Askable, Known(a), NEW at \in Times
  PROVE  /\ MoveIn(world, a, at) \in Worlds
         /\ BareOf(MoveIn(world, a, at)) = [BareOf(world) EXCEPT ![a.commitment].state = a.to]
         /\ BareOf(MoveIn(world, a, at)) = GoNext(BareOf(world), a)
<1> DEFINE m == MoveIn(world, a, at)
           c == a.commitment
<1>1. /\ c \in Commitments /\ a.to \in States /\ a.actor \in Actors /\ at \in Nat
      /\ world \in [Commitments -> Commitment]
  BY AskableType, RequestsAssumption DEF Known, Proposable, Typed
<1>2. Transitioned(world[c], a.to, a.actor, at) \in Commitment
      /\ Transitioned(world[c], a.to, a.actor, at).state = a.to
  BY <1>1, TransitionedType
<1>3. /\ m \in Worlds /\ m[c].state = a.to
      /\ \A d \in Commitments \ {c} : m[d] = world[d]
  BY <1>1, <1>2 DEF MoveIn, Worlds
<1> HIDE DEF m
<1>4. BareOf(m) = [d \in Commitments |-> IF d = c THEN [BareOf(world)[d] EXCEPT !.state = a.to] ELSE BareOf(world)[d]]
  BY <1>1, <1>3 DEF BareOf
<1>5. DOMAIN BareOf(world) = Commitments
  BY DEF BareOf
<1>6. QED
  BY <1>1, <1>3, <1>4, <1>5 DEF GoNext, m

\* The world a move leads to is as good a ground for the ports as the one it leaves.
LEMMA MoveGrows ==
  ASSUME Typed, Grown, NEW a \in Askable, Known(a), NEW at \in Times,
         IsValidCommitmentTransition(world[a.commitment].state, a.to), at >= LastAt(world[a.commitment])
  PROVE  LET v == MoveIn(world, a, at)
         IN /\ Continues(v) /\ \A c \in Commitments : CheckI2(v[c])
            /\ \A c \in Commitments : WasAccepted(v[c]) /\ ~WasAccepted(InitialWorld[c]) =>
                                         c \in MayBuy \/ v[c].state.type \in AcceptedOrLater
<1> DEFINE v == MoveIn(world, a, at)
           c == a.commitment
           h == world[c].history
           n == Len(h)
           e == [from |-> world[c].state, to |-> a.to, at |-> at, actor |-> a.actor]
<1>1. /\ c \in Commitments /\ a.to \in States /\ a.actor \in Actors /\ at \in Nat
      /\ world \in [Commitments -> Commitment] /\ world[c] \in Commitment
  BY AskableType, RequestsAssumption DEF Known, Proposable, Typed
<1>2. /\ v[c] = Transitioned(world[c], a.to, a.actor, at)
      /\ \A d \in Commitments \ {c} : v[d] = world[d]
  BY <1>1 DEF MoveIn
<1>3. /\ v[c] \in Commitment /\ v[c].state = a.to /\ v[c].history = Append(h, e)
      /\ h \in Seq(Entry) /\ n \in Nat /\ DOMAIN h = 1..n
  BY <1>1, <1>2, TransitionedType, LenProperties DEF Commitment, Transitioned
<1>4. /\ Len(v[c].history) = n + 1 /\ DOMAIN v[c].history = 1..(n + 1)
      /\ \A i \in 1..n : v[c].history[i] = h[i]
      /\ v[c].history[n + 1] = e
  BY <1>1, <1>2, <1>3, TransitionedEntries, LenProperties DEF Commitment
<1> HIDE DEF v, n
<1>5. Continues(v)
  <2>1. ASSUME NEW d \in Commitments
        PROVE  /\ Len(InitialWorld[d].history) <= Len(v[d].history)
               /\ \A i \in 1..Len(InitialWorld[d].history) : v[d].history[i] = InitialWorld[d].history[i]
    <3>1. CASE d # c
      BY <1>2, <3>1 DEF Grown, Continues
    <3>2. CASE d = c
      <4>1. Len(InitialWorld[c].history) \in Nat
        BY <1>1, InitialWorldType, LenProperties DEF Commitment
      <4>2. Len(InitialWorld[c].history) <= n
            /\ \A i \in 1..Len(InitialWorld[c].history) : h[i] = InitialWorld[c].history[i]
        BY <1>1 DEF Grown, Continues, n
      <4>3. \A i \in 1..Len(InitialWorld[c].history) : i \in 1..n
        BY <1>3, <4>1, <4>2
      <4>4. Len(InitialWorld[c].history) <= n + 1
        BY <1>3, <4>1, <4>2
      <4>5. QED
        BY <1>4, <3>2, <4>2, <4>3, <4>4
    <3>3. QED
      BY <3>1, <3>2
  <2>2. QED
    BY <2>1 DEF Continues
<1>6. ASSUME NEW d \in Commitments PROVE CheckI2(v[d])
  <2>1. CASE d # c
    BY <1>2, <2>1 DEF Grown
  <2>2. CASE d = c
    <3>1. /\ \A i \in 1..n : IsValidCommitmentTransition(h[i].from, h[i].to)
          /\ \A i \in 2..n : h[i].at >= h[i - 1].at
      BY <1>1, <1>3 DEF Grown, CheckI2, n
    <3>2. ASSUME NEW i \in 1..(n + 1)
          PROVE  IsValidCommitmentTransition(v[c].history[i].from, v[c].history[i].to)
      <4>1. CASE i = n + 1
        BY <1>4, <4>1
      <4>2. CASE i # n + 1
        BY <1>3, <1>4, <3>1, <4>2
      <4>3. QED
        BY <4>1, <4>2
    <3>3. ASSUME NEW i \in 2..(n + 1) PROVE v[c].history[i].at >= v[c].history[i - 1].at
      <4>1. CASE i = n + 1
        <5>1. n \in 1..n /\ i - 1 = n /\ h # <<>>
          BY <1>3, <4>1 DEF n
        <5>2. at >= h[n].at
          BY <5>1 DEF LastAt, n
        <5>3. QED
          BY <1>4, <4>1, <5>1, <5>2
      <4>2. CASE i # n + 1
        <5>1. i \in 2..n /\ i \in 1..n /\ i - 1 \in 1..n
          BY <1>3, <4>2
        <5>2. QED
          BY <1>4, <3>1, <5>1
      <4>3. QED
        BY <4>1, <4>2
    <3>4. QED
      BY <1>4, <2>2, <3>2, <3>3 DEF CheckI2
  <2>3. QED
    BY <2>1, <2>2
<1>7. ASSUME NEW d \in Commitments, WasAccepted(v[d]), ~WasAccepted(InitialWorld[d])
      PROVE  d \in MayBuy \/ v[d].state.type \in AcceptedOrLater
  <2>1. CASE WasAccepted(world[d])
    BY <1>7, <2>1 DEF Grown, AcceptedRightly
  <2>2. CASE ~WasAccepted(world[d])
    <3>1. d = c
      BY <1>2, <1>7, <2>2
    <3>2. PICK i \in 1..(n + 1) : v[c].history[i].to.type = "Accepted"
      BY <1>4, <1>7, <3>1 DEF WasAccepted
    <3>3. i \notin 1..n
      BY <1>3, <1>4, <2>2, <3>1, <3>2 DEF WasAccepted
    <3>4. i = n + 1
      BY <1>3, <3>3
    <3>5. QED
      BY <1>3, <1>4, <3>1, <3>2, <3>4 DEF AcceptedOrLater
  <2>3. QED
    BY <2>1, <2>2
<1>8. QED
  BY <1>5, <1>6, <1>7 DEF v

\* What a session that is in step knows of a: the guards decide alike.
LEMMA GuardsAlike ==
  ASSUME NEW a \in Askable, NEW at \in Times, OnTime(a, at)
  PROVE  Accepting(a, None, at) <=>
           /\ Known(a) /\ IsValidCommitmentTransition(world[a.commitment].state, a.to)
           /\ AuditClean(MoveIn(world, a, at), Fulfillments)
<1>1. ~VersionConflict(world[a.commitment], None)
  BY DEF VersionConflict
<1>2. QED
  BY <1>1 DEF Accepting, GuardAccepts, TransitionOk, OnTime, Known

LEMMA BareGuardsAlike ==
  ASSUME AgreedDeliveries, Typed, Grown, NEW a \in Askable, NEW at \in Times, OnTime(a, at),
         Known(a), IsValidCommitmentTransition(world[a.commitment].state, a.to)
  PROVE  /\ BareOf(MoveIn(world, a, at)) \in Worlds
         /\ AuditClean(BareOf(MoveIn(world, a, at)), Fulfillments) <=> Accepting(a, None, at)
<1> DEFINE v == MoveIn(world, a, at)
<1>1. at >= LastAt(world[a.commitment])
  BY DEF OnTime
<1>2. v \in Worlds
  BY BareMoves
<1>3. /\ Continues(v) /\ \A c \in Commitments : CheckI2(v[c])
      /\ \A c \in Commitments : WasAccepted(v[c]) /\ ~WasAccepted(InitialWorld[c]) =>
                                   c \in MayBuy \/ v[c].state.type \in AcceptedOrLater
  BY <1>1, MoveGrows
<1> HIDE DEF v
<1>4. AuditClean(BareOf(v), Fulfillments) <=> AuditClean(v, Fulfillments)
  BY <1>2, <1>3, BareAuditsAlike
<1>5. QED
  BY <1>2, <1>4, BareType, GuardsAlike DEF v

\* Of an unknown commitment every port reads what the session does: nothing.
LEMMA BareStates ==
  ASSUME Typed
  PROVE  /\ BareOf(world) \in Worlds /\ world \in Worlds
         /\ DOMAIN BareOf(world) = Commitments /\ DOMAIN world = Commitments
         /\ \A c \in Commitments : BareOf(world)[c].state = world[c].state
BY BareType DEF Typed, Worlds

LEMMA TracksAlike ==
  ASSUME Typed, NEW was, NEW a \in Askable
  PROVE  /\ RustTracks(InStep(BareOf(world), was), a) <=> Tracked(a)
         /\ PyTracks(InStep(world, was), a) <=> Tracked(a)
<1>1. RustTracks(InStep(BareOf(world), was), a) <=> Tracked(a)
  <2>1. InStep(BareOf(world), was).world = BareOf(world)
    BY DEF InStep, Port
  <2>2. QED
    BY <2>1, BareStates DEF RustTracks, RustIsValidTransition, Tracked, Known, IsValidCommitmentTransition
<1>2. PyTracks(InStep(world, was), a) <=> Tracked(a)
  <2>1. InStep(world, was).world = world
    BY DEF InStep, Port
  <2>2. QED
    BY <2>1, BareStates DEF PyTracks, PyIsValidCommitmentTransition, Tracked, Known, IsValidCommitmentTransition
<1>3. QED
  BY <1>1, <1>2

LEMMA RootInTree ==
  ASSUME TwoWayLinks, NEW c \in Commitments
  PROVE  /\ TreeRoot[c] \in Commitments /\ Up(TreeRoot[c]) = TreeRoot[c]
         /\ IsInTree(c) => ChildrenByPointer(TreeRoot[c]) # {}
<1>1. TreeRoot[c] \in Commitments /\ Up(TreeRoot[c]) = TreeRoot[c]
  BY RootType, ForestAssumption DEF TreeRoot
<1>2. QED
  BY <1>1, RootHasChild DEF IsInTree, TwoWayLinks

\* What a tracked refund brings the ledger and the tally to, in every port's words.
LEMMA CapsAlike ==
  ASSUME TwoWayLinks, Typed, NEW was, NEW a \in Askable, Tracked(a),
         NEW w \in Worlds
  PROVE  LET c == a.commitment
             root == TreeRoot[c]
         IN /\ RustIsCumulativeOverRefund(w, c, [a.to.amount EXCEPT !.amount = Cumulative(a)]) <=> ~WithinOrder(a)
            /\ GoIsCumulativeOverRefund(c, Cumulative(a), a.to.amount.currency) <=> ~WithinOrder(a)
            /\ PyIsCumulativeOverRefund(c, [a.to.amount EXCEPT !.amount = Cumulative(a)]) <=> ~WithinOrder(a)
            /\ RustTreeAllows(InStep(w, was), c, a.to.amount) <=> WithinTree(a)
            /\ GoIsInTree(c) /\ (\/ ~GoTreeIsConsistent(w, root)
                                 \/ /\ Committed[root] # NoMoney /\ Committed[root].currency = a.to.amount.currency
                                    /\ GoIsCumulativeOverRefund(root, GoTally(treeLedger[root]) + a.to.amount.amount,
                                                                a.to.amount.currency))
                 <=> ~WithinTree(a)
            /\ PyIsInTree(c) /\ (\/ ~PyCheckI6(root, ChildrenByPointer(root))
                                 \/ PyIsCumulativeOverRefund(root,
                                      [a.to.amount EXCEPT !.amount = a.to.amount.amount + TreeSoFar(root)]))
                 <=> ~WithinTree(a)
<1> DEFINE c == a.commitment
           root == TreeRoot[c]
           m == a.to.amount
           total == [m EXCEPT !.amount = Cumulative(a)]
           sum == TreeSoFar(root) + m.amount
           treeTotal == [m EXCEPT !.amount = sum]
<1>1. /\ c \in Commitments /\ m \in Money /\ m.amount \in Nat /\ m.currency \in Currencies
      /\ Cumulative(a) \in Nat
  BY AskableType, TrackedType
<1>2. total \in Money /\ total.amount = Cumulative(a) /\ total.currency = m.currency
  BY <1>1 DEF Money
<1>3. root \in Commitments /\ Up(root) = root /\ (IsInTree(c) => ChildrenByPointer(root) # {})
  BY <1>1, RootInTree
<1>4. TreeSoFar(root) \in Nat /\ GoTally(treeLedger[root]) = TreeSoFar(root)
  BY <1>3, MoneyAssumption DEF Typed, Money, TreeSoFar, GoTally
<1>5. treeTotal \in Money /\ treeTotal.amount = sum /\ treeTotal.currency = m.currency
      /\ m.amount + TreeSoFar(root) = sum
  BY <1>1, <1>4 DEF Money
<1>6. /\ RustIsInTree(c) <=> IsInTree(c)
      /\ GoIsInTree(c) <=> IsInTree(c)
      /\ PyIsInTree(c) <=> IsInTree(c)
      /\ RustTreeRoot(c) = root
  BY DEF RustIsInTree, RustTreeRoot, GoIsInTree, GoRootOf, PyIsInTree, PyTreeRootOf, IsInTree
<1>7. /\ InStep(w, was).world = w
      /\ (IF InStep(w, was).tree[root] = NoMoney THEN 0 ELSE InStep(w, was).tree[root].amount) = TreeSoFar(root)
  BY DEF InStep, Port, TreeSoFar
<1>8. IsInTree(c) => /\ RustTreeIsConsistent(w, root) <=> TreeConsistent(root, ChildrenByPointer(root))
                     /\ GoTreeIsConsistent(w, root) <=> TreeConsistent(root, ChildrenByPointer(root))
                     /\ PyCheckI6(root, ChildrenByPointer(root)) <=> TreeConsistent(root, ChildrenByPointer(root))
  <2>1. ChildrenByPointer(root) \in SUBSET Commitments
    BY DEF ChildrenByPointer
  <2>2. QED
    BY <1>3, <2>1, RustConsistencyAlike, GoConsistencyAlike, PyTreesAlike
<1>9. WithinTree(a) <=> (IsInTree(c) => /\ TreeConsistent(root, ChildrenByPointer(root))
                                        /\ ~ExceedsCommitted(root, sum, m.currency))
  BY DEF WithinTree
<1>10. WithinOrder(a) <=> ~ExceedsCommitted(c, Cumulative(a), m.currency)
  BY DEF WithinOrder
<1>11. ExceedsCommitted(root, sum, m.currency) => Committed[root] # NoMoney /\ Committed[root].currency = m.currency
  BY DEF ExceedsCommitted
<1>12. RustTreeAllows(InStep(w, was), c, m) <=>
         (RustIsInTree(c) => /\ RustTreeIsConsistent(w, root)
                             /\ Committed[root] # NoMoney /\ Committed[root].currency = m.currency =>
                                  ~RustIsCumulativeOverRefund(w, root, [m EXCEPT !.amount = @ + TreeSoFar(root)]))
  BY <1>6, <1>7 DEF RustTreeAllows
<1>13. [m EXCEPT !.amount = @ + TreeSoFar(root)] = treeTotal
  BY <1>1, <1>5 DEF Money
<1> HIDE DEF c, root, m, total, sum, treeTotal
<1>14. /\ RustIsCumulativeOverRefund(w, c, total) <=> ExceedsCommitted(c, Cumulative(a), m.currency)
       /\ RustIsCumulativeOverRefund(w, root, treeTotal) <=> ExceedsCommitted(root, sum, m.currency)
  BY <1>1, <1>2, <1>3, <1>5, RustProbesAlike
<1>15. /\ GoIsCumulativeOverRefund(c, Cumulative(a), m.currency) <=> ExceedsCommitted(c, Cumulative(a), m.currency)
       /\ GoIsCumulativeOverRefund(root, sum, m.currency) <=> ExceedsCommitted(root, sum, m.currency)
  BY <1>1, <1>3, GoProbesAlike
<1>16. /\ PyIsCumulativeOverRefund(c, total) <=> ExceedsCommitted(c, Cumulative(a), m.currency)
       /\ PyIsCumulativeOverRefund(root, treeTotal) <=> ExceedsCommitted(root, sum, m.currency)
  BY <1>1, <1>2, <1>3, <1>5, PyProbesAlike
<1>17. RustTreeAllows(InStep(w, was), c, m) <=> WithinTree(a)
  BY <1>6, <1>8, <1>9, <1>11, <1>12, <1>13, <1>14
<1>18. GoIsInTree(c) /\ (\/ ~GoTreeIsConsistent(w, root)
                         \/ /\ Committed[root] # NoMoney /\ Committed[root].currency = m.currency
                            /\ GoIsCumulativeOverRefund(root, GoTally(treeLedger[root]) + m.amount, m.currency))
         <=> ~WithinTree(a)
  <2>1. GoTally(treeLedger[root]) + m.amount = sum
    BY <1>4 DEF sum
  <2>2. QED
    BY <1>6, <1>8, <1>9, <1>11, <1>15, <2>1
<1>19. PyIsInTree(c) /\ (\/ ~PyCheckI6(root, ChildrenByPointer(root))
                         \/ PyIsCumulativeOverRefund(root, [m EXCEPT !.amount = m.amount + TreeSoFar(root)]))
         <=> ~WithinTree(a)
  <2>1. [m EXCEPT !.amount = m.amount + TreeSoFar(root)] = treeTotal
    BY <1>5 DEF treeTotal
  <2>2. QED
    BY <1>6, <1>8, <1>9, <1>16, <2>1
<1>20. QED
  BY <1>10, <1>14, <1>15, <1>16, <1>17, <1>18, <1>19 DEF c, root, m, total

-----------------------------------------------------------------------------
(* The verdicts.  What the session makes of a proposal is what each port makes of    *)
(* it: Followed(a, at, w, next) for a port that keeps the world w, which the move    *)
(* would turn into next.                                                             *)

LedgerAfter(a) == [ledger EXCEPT ![a.commitment] = Cumulative(a)]

TallyAfter(a) ==
  LET root == TreeRoot[a.commitment]
  IN IF IsInTree(a.commitment)
     THEN [treeLedger EXCEPT ![root] = [amount   |-> TreeSoFar(root) + a.to.amount.amount,
                                        currency |-> a.to.amount.currency]]
     ELSE treeLedger

KeptPort(w, v) == Port(w, ledger, treeLedger, FlatKeys, v)
MovedPort(a, w) == Port(w, ledger, treeLedger, FlatKeys \cup {GoKey(a)}, "accepted")
RefundedPort(a, w) == Port(w, LedgerAfter(a), TallyAfter(a), FlatKeys \cup {GoKey(a)}, "accepted")

Followed(a, at, w, next) ==
  IF IsReplay(a) THEN KeptPort(w, "replay")
  ELSE IF Rejected(a, None, at) THEN KeptPort(w, "rejected")
  ELSE IF Tracked(a) THEN RefundedPort(a, IF SettlesInFull(a) THEN next ELSE w)
  ELSE MovedPort(a, next)

LEMMA NoVersionPlanned ==
  ASSUME NEW a, NEW at
  PROVE  /\ Fresh(a, None) <=> ~IsReplay(a)
         /\ Rejected(a, None, at) <=> /\ ~IsReplay(a)
                                      /\ IF Tracked(a) THEN ~Refundable(a) \/ (SettlesInFull(a) /\ ~Accepting(a, None, at))
                                         ELSE ~Accepting(a, None, at)
BY DEF Fresh, Conflicts, VersionConflict, Rejected

\* A verdict alone changes nothing else of a port.
LEMMA KeptAlike ==
  ASSUME NEW was, NEW w, NEW v
  PROVE  [InStep(w, was) EXCEPT !.verdict = v] = KeptPort(w, v)
BY DEF InStep, KeptPort, Port

\* What is recorded of a refund, in the order of the assignments.
LEMMA RefundedAlike ==
  ASSUME NEW a, NEW w, NEW keys, NEW l, l = LedgerAfter(a), NEW t, t = TallyAfter(a),
         keys \cup {GoKey(a)} = FlatKeys \cup {GoKey(a)}
  PROVE  [Port(w, ledger, treeLedger, keys, "accepted") EXCEPT !.ledger = l, !.tree = t, !.applied = @ \cup {GoKey(a)}]
           = RefundedPort(a, w)
<1>1. [Port(w, ledger, treeLedger, keys, "accepted") EXCEPT !.ledger = l] = Port(w, l, treeLedger, keys, "accepted")
  BY DEF Port
<1>2. [Port(w, l, treeLedger, keys, "accepted") EXCEPT !.tree = t] = Port(w, l, t, keys, "accepted")
  BY DEF Port
<1>3. [Port(w, l, t, keys, "accepted") EXCEPT !.applied = keys \cup {GoKey(a)}]
        = Port(w, l, t, keys \cup {GoKey(a)}, "accepted")
  BY DEF Port
<1>4. Port(w, ledger, treeLedger, keys, "accepted").applied = keys
  BY DEF Port
<1>5. [Port(w, ledger, treeLedger, keys, "accepted") EXCEPT !.ledger = l, !.tree = t, !.applied = @ \cup {GoKey(a)}]
        = Port(w, l, t, keys \cup {GoKey(a)}, "accepted")
  BY <1>1, <1>2, <1>3, <1>4
<1>6. RefundedPort(a, w) = Port(w, l, t, keys \cup {GoKey(a)}, "accepted")
  BY DEF RefundedPort
<1>7. QED
  BY <1>5, <1>6

LEMMA RustFollows ==
  ASSUME TwoWayLinks, AgreedDeliveries, Typed, Grown, NEW was, NEW a \in Askable, NEW at \in Times, OnTime(a, at)
  PROVE  RustPropose(InStep(BareOf(world), was), Fulfillments, a)
           = Followed(a, at, BareOf(world), BareOf(MoveIn(world, a, at)))
<1> DEFINE F == Fulfillments
           w == BareOf(world)
           s == InStep(w, was)
           next == BareOf(MoveIn(world, a, at))
           c == a.commitment
           root == TreeRoot[c]
<1>1. RustKey(a) \in s.applied <=> IsReplay(a)
  BY FlatKeysTell, KeysSpelledAlike DEF InStep, Port
<1>2. RustGuard(s, F, a) = IF Accepting(a, None, at) THEN MovedPort(a, next) ELSE KeptPort(w, "rejected")
  <2>1. /\ w \in Worlds /\ DOMAIN w = Commitments /\ s.world = w
        /\ \A d \in Commitments : w[d].state = world[d].state
    BY BareStates DEF InStep, Port
  <2>2. CASE Known(a) /\ IsValidCommitmentTransition(world[c].state, a.to)
    <3>1. /\ next = [w EXCEPT ![c].state = a.to] /\ next \in Worlds
          /\ AuditClean(next, F) <=> Accepting(a, None, at)
      BY <2>2, BareMoves, BareGuardsAlike
    <3>2. RustAuditScene(next, F) = {} <=> Accepting(a, None, at)
      BY <3>1, RustAuditsAlike
    <3>3. RustIsValidTransition(w[c].state.type, a.to.type) /\ c \in DOMAIN w
      BY <2>1, <2>2 DEF Known, RustIsValidTransition, IsValidCommitmentTransition
    <3> HIDE DEF next, w
    <3>4. RustGuard(s, F, a) = IF Accepting(a, None, at)
                               THEN [s EXCEPT !.world = next, !.verdict = "accepted", !.applied = @ \cup {RustKey(a)}]
                               ELSE [s EXCEPT !.verdict = "rejected"]
      BY <2>1, <3>1, <3>2, <3>3 DEF RustGuard
    <3>5. [s EXCEPT !.world = next, !.verdict = "accepted", !.applied = @ \cup {RustKey(a)}] = MovedPort(a, next)
      <4>1. RustKey(a) = GoKey(a)
        BY KeysSpelledAlike
      <4> DEFINE keys == FlatKeys \cup {GoKey(a)}
      <4>2. s = Port(w, ledger, treeLedger, FlatKeys, was) /\ s.applied = FlatKeys
        BY DEF InStep, Port
      <4>3. [Port(w, ledger, treeLedger, FlatKeys, was) EXCEPT !.world = next]
              = Port(next, ledger, treeLedger, FlatKeys, was)
        BY DEF Port
      <4>4. [Port(next, ledger, treeLedger, FlatKeys, was) EXCEPT !.verdict = "accepted"]
              = Port(next, ledger, treeLedger, FlatKeys, "accepted")
        BY DEF Port
      <4>5. [Port(next, ledger, treeLedger, FlatKeys, "accepted") EXCEPT !.applied = keys]
              = Port(next, ledger, treeLedger, keys, "accepted")
        BY DEF Port
      <4> HIDE DEF s, keys
      <4>6. [s EXCEPT !.world = next, !.verdict = "accepted", !.applied = keys] = Port(next, ledger, treeLedger, keys, "accepted")
        BY <4>2, <4>3, <4>4, <4>5
      <4>7. QED
        BY <4>1, <4>2, <4>6 DEF MovedPort, keys
    <3>6. QED
      BY <3>4, <3>5, KeptAlike
  <2>3. CASE ~(Known(a) /\ IsValidCommitmentTransition(world[c].state, a.to))
    <3>1. ~Accepting(a, None, at)
      BY <2>3, GuardsAlike
    <3>2. ~(c \in DOMAIN w /\ RustIsValidTransition(w[c].state.type, a.to.type))
      BY <2>1, <2>3 DEF Known, RustIsValidTransition, IsValidCommitmentTransition
    <3> HIDE DEF next, w
    <3>3. RustGuard(s, F, a) = [s EXCEPT !.verdict = "rejected"]
      BY <2>1, <3>2 DEF RustGuard
    <3>4. QED
      BY <3>1, <3>3, KeptAlike
  <2>4. QED
    BY <2>2, <2>3
<1>3. RustTracks(s, a) <=> Tracked(a)
  BY TracksAlike
<1>4. ASSUME Tracked(a)
      PROVE  RustRefund(s, F, a) =
               IF ~Refundable(a) \/ (SettlesInFull(a) /\ ~Accepting(a, None, at)) THEN KeptPort(w, "rejected")
               ELSE RefundedPort(a, IF SettlesInFull(a) THEN next ELSE w)
  <2>1. /\ c \in Commitments /\ root \in Commitments /\ a.to.amount \in Money /\ w \in Worlds
        /\ s.world = w /\ s.ledger[c] + a.to.amount.amount = Cumulative(a)
    BY <1>4, AskableType, TrackedType, RootType, BareStates DEF InStep, Port, Cumulative
  <2>2. /\ RustIsCumulativeOverRefund(w, c, [a.to.amount EXCEPT !.amount = Cumulative(a)]) <=> ~WithinOrder(a)
        /\ RustTreeAllows(s, c, a.to.amount) <=> WithinTree(a)
    BY <1>4, <2>1, CapsAlike
  <2>3. ASSUME NEW v, NEW keys, keys \cup {GoKey(a)} = FlatKeys \cup {GoKey(a)}
        PROVE  RustRecord(Port(v, ledger, treeLedger, keys, "accepted"), a, Cumulative(a)) = RefundedPort(a, v)
    <3> DEFINE x == Port(v, ledger, treeLedger, keys, "accepted")
               t == TallyAfter(a)
               l == LedgerAfter(a)
    <3>1. x.ledger = ledger /\ x.tree = treeLedger /\ RustKey(a) = GoKey(a)
      BY KeysSpelledAlike DEF Port
    <3>2. [treeLedger EXCEPT ![root] = IF RustIsInTree(c)
             THEN [a.to.amount EXCEPT !.amount = @ + (IF treeLedger[root] = NoMoney THEN 0 ELSE treeLedger[root].amount)]
             ELSE @] = t
      <4>1. [a.to.amount EXCEPT !.amount = @ + TreeSoFar(root)]
              = [amount |-> TreeSoFar(root) + a.to.amount.amount, currency |-> a.to.amount.currency]
        <5>1. TreeSoFar(root) \in Nat
          BY <2>1, MoneyAssumption DEF TreeSoFar, Typed, Money
        <5>2. QED
          BY <2>1, <5>1 DEF Money
      <4>2. [treeLedger EXCEPT ![root] = @] = treeLedger
        BY <2>1 DEF Typed
      <4>3. RustIsInTree(c) <=> IsInTree(c)
        BY DEF RustIsInTree, RustTreeRoot, IsInTree
      <4>4. QED
        BY <4>1, <4>2, <4>3 DEF TallyAfter, TreeSoFar
    <3>3. l = [ledger EXCEPT ![c] = Cumulative(a)] /\ RustTreeRoot(c) = root
      BY DEF LedgerAfter, RustTreeRoot
    <3> HIDE DEF x
    <3>4. RustRecord(x, a, Cumulative(a)) = [x EXCEPT !.ledger = l, !.tree = t, !.applied = @ \cup {GoKey(a)}]
      <4> HIDE DEF t, l
      <4>1. QED
        BY <3>1, <3>2, <3>3 DEF RustRecord
    <3>5. [x EXCEPT !.ledger = l, !.tree = t, !.applied = @ \cup {GoKey(a)}] = RefundedPort(a, v)
      BY <2>3, RefundedAlike DEF x
    <3>6. QED
      BY <3>1, <3>4, <3>5 DEF x
  <2>4. /\ RustRecord(KeptPort(w, "accepted"), a, Cumulative(a)) = RefundedPort(a, w)
        /\ RustRecord(MovedPort(a, next), a, Cumulative(a)) = RefundedPort(a, next)
    BY <2>3 DEF KeptPort, MovedPort
  <2>5. /\ KeptPort(w, "rejected").verdict = "rejected" /\ MovedPort(a, next).verdict = "accepted"
        /\ [s EXCEPT !.verdict = "accepted"] = KeptPort(w, "accepted")
        /\ [s EXCEPT !.verdict = "rejected"] = KeptPort(w, "rejected")
    BY KeptAlike DEF KeptPort, MovedPort, Port
  <2>6. Refundable(a) <=> WithinOrder(a) /\ WithinTree(a)
    BY <1>4 DEF Refundable
  <2>7. MoneyEquals(Cumulative(a), Committed[c].amount) <=> SettlesInFull(a)
    BY DEF SettlesInFull
  <2> HIDE DEF s, w, next, root
  <2>8. QED
    BY <1>2, <2>1, <2>2, <2>4, <2>5, <2>6, <2>7 DEF RustRefund
<1>5. [s EXCEPT !.verdict = "replay"] = KeptPort(w, "replay")
  BY KeptAlike
<1> HIDE DEF s, w, next
<1>6. RustPropose(s, F, a) = Followed(a, at, w, next)
  BY <1>1, <1>2, <1>3, <1>4, <1>5, NoVersionPlanned DEF RustPropose, Followed
<1>7. QED
  BY <1>6 DEF s, w, next

LEMMA GoFollows ==
  ASSUME TwoWayLinks, AgreedDeliveries, Typed, Grown, NEW was, NEW a \in Askable, NEW at \in Times, OnTime(a, at)
  PROVE  GoPropose(InStep(BareOf(world), was), Fulfillments, a)
           = Followed(a, at, BareOf(world), BareOf(MoveIn(world, a, at)))
<1> DEFINE F == Fulfillments
           w == BareOf(world)
           s == InStep(w, was)
           next == BareOf(MoveIn(world, a, at))
           c == a.commitment
           root == TreeRoot[c]
           keys == FlatKeys \cup {GoKey(a)}
<1>1. /\ w \in Worlds /\ DOMAIN w = Commitments
      /\ \A d \in Commitments : w[d].state = world[d].state
  BY BareStates
<1>2. s = Port(w, ledger, treeLedger, FlatKeys, was)
  BY DEF InStep
<1>3. s.world = w /\ s.ledger = ledger /\ s.tree = treeLedger /\ s.applied = FlatKeys
  BY DEF InStep, Port
<1>4. GoKey(a) \in s.applied <=> IsReplay(a)
  BY <1>3, FlatKeysTell
<1>5. Known(a) => GoNext(w, a) = next
  BY BareMoves
<1>6. GoGuardOk(w, F, a) <=> Accepting(a, None, at)
  <2>1. \A from, to : GoAllows(from.type, to.type) <=> IsValidCommitmentTransition(from, to)
    BY DEF GoAllows, IsValidCommitmentTransition
  <2>2. CASE Known(a) /\ IsValidCommitmentTransition(world[c].state, a.to)
    <3>1. next \in Worlds /\ (AuditClean(next, F) <=> Accepting(a, None, at))
      BY <2>2, BareGuardsAlike
    <3>2. GoAuditScene(next, F) = {} <=> Accepting(a, None, at)
      BY <3>1, GoAuditsAlike
    <3> HIDE DEF next, w
    <3>3. QED
      BY <1>1, <1>5, <2>1, <2>2, <3>2 DEF GoGuardOk, Known
  <2>3. CASE ~(Known(a) /\ IsValidCommitmentTransition(world[c].state, a.to))
    <3>1. ~Accepting(a, None, at)
      BY <2>3, GuardsAlike
    <3> HIDE DEF w
    <3>2. QED
      BY <1>1, <2>1, <2>3, <3>1 DEF GoGuardOk, Known
  <2>4. QED
    BY <2>2, <2>3
<1>7. Tracked(a) <=> /\ a.to.type = "Refunded" /\ c \in DOMAIN w
                     /\ GoAllows(w[c].state.type, "Refunded")
                     /\ Committed[c] # NoMoney /\ Committed[c].currency = a.to.amount.currency
  BY <1>1 DEF Tracked, Known, GoAllows, IsValidCommitmentTransition
<1>8. /\ [s EXCEPT !.verdict = "rejected"] = KeptPort(w, "rejected")
      /\ [s EXCEPT !.verdict = "replay"] = KeptPort(w, "replay")
  BY KeptAlike
<1>9. ASSUME Tracked(a)
      PROVE  GoRefund(s, F, a) =
               IF ~Refundable(a) \/ (SettlesInFull(a) /\ ~Accepting(a, None, at)) THEN KeptPort(w, "rejected")
               ELSE RefundedPort(a, IF SettlesInFull(a) THEN next ELSE w)
  <2> DEFINE m == a.to.amount
             refused == \/ GoIsCumulativeOverRefund(c, Cumulative(a), m.currency)
                        \/ GoIsInTree(c) /\ (\/ ~GoTreeIsConsistent(w, root)
                                             \/ /\ Committed[root] # NoMoney /\ Committed[root].currency = m.currency
                                                /\ GoIsCumulativeOverRefund(root, GoTally(treeLedger[root]) + m.amount, m.currency))
                        \/ SettlesInFull(a) /\ ~GoGuardOk(w, F, a)
             w2 == IF SettlesInFull(a) THEN next ELSE w
             l2 == LedgerAfter(a)
             t2 == TallyAfter(a)
  <2>1. c \in Commitments /\ root \in Commitments /\ Known(a)
    BY <1>9, TrackedType, AskableType, RootType DEF Known
  <2>2. refused <=> ~Refundable(a) \/ (SettlesInFull(a) /\ ~Accepting(a, None, at))
    BY <1>1, <1>6, <1>9, CapsAlike DEF Refundable
  <2>3. /\ l2 = [ledger EXCEPT ![c] = Cumulative(a)]
        /\ t2 = [treeLedger EXCEPT ![root] = IF GoIsInTree(c)
                   THEN [amount |-> GoTally(treeLedger[root]) + m.amount, currency |-> m.currency] ELSE @]
        /\ w2 = IF SettlesInFull(a) THEN GoNext(w, a) ELSE w
    <3>1. [treeLedger EXCEPT ![root] = @] = treeLedger
      BY <2>1 DEF Typed
    <3>2. GoIsInTree(c) <=> IsInTree(c)
      BY DEF GoIsInTree, GoRootOf, IsInTree
    <3>3. GoTally(treeLedger[root]) = TreeSoFar(root)
      BY DEF GoTally, TreeSoFar
    <3>4. w2 = IF SettlesInFull(a) THEN GoNext(w, a) ELSE w
      BY <1>5, <2>1
    <3> HIDE DEF w2, root
    <3>5. QED
      BY <3>1, <3>2, <3>3, <3>4 DEF LedgerAfter, TallyAfter, root
  <2>4. [s EXCEPT !.world = w2, !.ledger = l2, !.tree = t2, !.applied = keys, !.verdict = "accepted"]
          = Port(w2, l2, t2, keys, "accepted")
    <3> HIDE DEF s, w2, l2, t2, keys
    <3>1. [Port(w, ledger, treeLedger, FlatKeys, was) EXCEPT !.world = w2, !.ledger = l2]
            = Port(w2, l2, treeLedger, FlatKeys, was)
      <4>1. [Port(w, ledger, treeLedger, FlatKeys, was) EXCEPT !.world = w2]
              = Port(w2, ledger, treeLedger, FlatKeys, was)
        BY DEF Port
      <4>2. [Port(w2, ledger, treeLedger, FlatKeys, was) EXCEPT !.ledger = l2]
              = Port(w2, l2, treeLedger, FlatKeys, was)
        BY DEF Port
      <4>3. QED
        BY <4>1, <4>2
    <3>2. [Port(w2, l2, treeLedger, FlatKeys, was) EXCEPT !.tree = t2] = Port(w2, l2, t2, FlatKeys, was)
      BY DEF Port
    <3>3. [Port(w2, l2, t2, FlatKeys, was) EXCEPT !.applied = keys] = Port(w2, l2, t2, keys, was)
      BY DEF Port
    <3>4. [Port(w2, l2, t2, keys, was) EXCEPT !.verdict = "accepted"] = Port(w2, l2, t2, keys, "accepted")
      BY DEF Port
    <3>5. [s EXCEPT !.world = w2, !.ledger = l2, !.tree = t2] = Port(w2, l2, t2, FlatKeys, was)
      BY <1>2, <3>1, <3>2
    <3>6. [s EXCEPT !.world = w2, !.ledger = l2, !.tree = t2, !.applied = keys] = Port(w2, l2, t2, keys, was)
      BY <3>3, <3>5
    <3>7. QED
      BY <3>4, <3>6
  <2>5. Port(w2, l2, t2, keys, "accepted") = RefundedPort(a, w2)
    BY DEF RefundedPort
  <2>6. GoRefund(s, F, a) =
          IF refused THEN [s EXCEPT !.verdict = "rejected"]
          ELSE [s EXCEPT !.world = w2, !.ledger = l2, !.tree = t2, !.applied = keys, !.verdict = "accepted"]
    <3>1. s.ledger[c] + m.amount = Cumulative(a) /\ GoRootOf(c) = root
      BY <1>3 DEF Cumulative, GoRootOf
    <3> HIDE DEF s, w, w2, l2, t2
    <3>2. QED
      BY <1>3, <2>3, <3>1 DEF GoRefund, SettlesInFull
  <2> HIDE DEF refused, w2
  <2>7. QED
    BY <1>8, <2>2, <2>4, <2>5, <2>6 DEF w2
<1>10. Known(a) => [s EXCEPT !.world = GoNext(@, a), !.applied = @ \cup {GoKey(a)}, !.verdict = "accepted"] = MovedPort(a, next)
  <2> SUFFICES ASSUME Known(a)
               PROVE  [s EXCEPT !.world = next, !.applied = keys, !.verdict = "accepted"] = MovedPort(a, next)
    <3> HIDE DEF s, next, w
    <3>1. QED
      BY <1>3, <1>5
  <2>1. [Port(w, ledger, treeLedger, FlatKeys, was) EXCEPT !.world = next] = Port(next, ledger, treeLedger, FlatKeys, was)
    BY DEF Port
  <2>2. [Port(next, ledger, treeLedger, FlatKeys, was) EXCEPT !.applied = keys] = Port(next, ledger, treeLedger, keys, was)
    BY DEF Port
  <2>3. [Port(next, ledger, treeLedger, keys, was) EXCEPT !.verdict = "accepted"] = Port(next, ledger, treeLedger, keys, "accepted")
    BY DEF Port
  <2> HIDE DEF s, next, w
  <2>4. QED
    BY <1>2, <2>1, <2>2, <2>3 DEF MovedPort
<1>11. Accepting(a, None, at) => Known(a)
  BY GuardsAlike
<1> HIDE DEF s, w, next
<1>12. GoPropose(s, F, a) = Followed(a, at, w, next)
  BY <1>3, <1>4, <1>6, <1>7, <1>8, <1>9, <1>10, <1>11, NoVersionPlanned DEF GoPropose, Followed
<1>13. QED
  BY <1>12 DEF s, w, next

LEMMA PyGuardsAlike ==
  ASSUME AgreedDeliveries, Typed, Grown, NEW a \in Askable, NEW at \in Times, OnTime(a, at)
  PROVE  /\ PyGuard(world, Fulfillments, a, at).ok <=> Accepting(a, None, at)
         /\ Accepting(a, None, at) => PyGuard(world, Fulfillments, a, at).next = MoveIn(world, a, at)
<1> DEFINE F == Fulfillments
           c == a.commitment
           from == world[c]
           m == PyTransition(from, a.to, a.actor, at)
           next == MoveIn(world, a, at)
           Result(ok, w) == [ok |-> ok, next |-> w]
<1>1. DOMAIN world = Commitments
  BY BareStates
<1>2. \A ok, w : Result(ok, w).ok = ok /\ Result(ok, w).next = w
  OBVIOUS
<1>3. PyGuard(world, F, a, at) =
        IF ~Known(a) THEN Result(FALSE, world)
        ELSE IF m.error # None \/ ~PyAuditClean([world EXCEPT ![c] = m.value], F) THEN Result(FALSE, world)
        ELSE Result(TRUE, [world EXCEPT ![c] = m.value])
  BY <1>1 DEF PyGuard, Known
<1>4. CASE Known(a) /\ IsValidCommitmentTransition(from.state, a.to)
  <2>1. /\ from \in Commitment /\ from.history \in Seq(Entry) /\ at >= LastAt(from) /\ LastAt(from) \in Nat /\ at \in Nat
    BY <1>4, LastAtType, RequestsAssumption DEF Known, Typed, OnTime, Commitment
  <2>2. ~(from.history # <<>> /\ at < from.history[Len(from.history)].at)
    BY <2>1 DEF LastAt
  <2>3. [from EXCEPT !.state = a.to,
                     !.history = Append(@, [from |-> from.state, to |-> a.to, at |-> at, actor |-> a.actor])]
          = Transitioned(from, a.to, a.actor, at)
    <3> DEFINE h == Append(from.history, [from |-> from.state, to |-> a.to, at |-> at, actor |-> a.actor])
    <3>1. Transitioned(from, a.to, a.actor, at) = [state |-> a.to, history |-> h]
      BY DEF Transitioned
    <3> HIDE DEF h
    <3>2. [from EXCEPT !.state = a.to] = [state |-> a.to, history |-> from.history]
      BY <2>1 DEF Commitment
    <3>3. [[state |-> a.to, history |-> from.history] EXCEPT !.history = h] = [state |-> a.to, history |-> h]
      OBVIOUS
    <3> HIDE DEF from
    <3>4. [from EXCEPT !.state = a.to, !.history = h] = [state |-> a.to, history |-> h]
      BY <3>2, <3>3
    <3>5. QED
      BY <3>1, <3>4 DEF h
  <2>4. m = [error |-> None, value |-> Transitioned(from, a.to, a.actor, at)]
    <3> HIDE DEF from
    <3>1. QED
      BY <1>4, <2>2, <2>3 DEF PyTransition, PyIsValidCommitmentTransition, IsValidCommitmentTransition
  <2>5. m.error = None /\ [world EXCEPT ![c] = m.value] = next
    BY <2>4 DEF MoveIn
  <2>6. next \in Worlds
    BY <1>4, BareMoves
  <2> HIDE DEF next, m, Result
  <2>7. PyAuditClean(next, F) <=> AuditClean(next, F)
    BY <2>6, PyAuditsAlike
  <2>8. Accepting(a, None, at) <=> AuditClean(next, F)
    BY <1>4, GuardsAlike DEF next
  <2>9. PyGuard(world, F, a, at) = IF Accepting(a, None, at) THEN Result(TRUE, next) ELSE Result(FALSE, world)
    BY <1>3, <1>4, <2>5, <2>7, <2>8
  <2>10. QED
    BY <1>2, <2>9 DEF next
<1>5. CASE Known(a) /\ ~IsValidCommitmentTransition(from.state, a.to)
  <2>1. m = [error |-> "I-2", value |-> from]
    BY <1>5 DEF PyTransition, PyIsValidCommitmentTransition, IsValidCommitmentTransition
  <2>2. m.error # None
    BY <2>1, ErrorsAssumption
  <2>3. ~Accepting(a, None, at)
    BY <1>5, GuardsAlike
  <2> HIDE DEF m, Result
  <2>4. QED
    BY <1>2, <1>3, <1>5, <2>2, <2>3
<1>6. CASE ~Known(a)
  <2>1. ~Accepting(a, None, at)
    BY <1>6, GuardsAlike
  <2> HIDE DEF m, Result
  <2>2. QED
    BY <1>2, <1>3, <1>6, <2>1
<1>7. QED
  BY <1>4, <1>5, <1>6

LEMMA PyRecordsAlike ==
  ASSUME Typed, NEW was, NEW a \in Askable, Tracked(a), ~TallyClashes(a), NEW w
  PROVE  PyRecord(InStep(world, was), w, a, Cumulative(a)) = RefundedPort(a, w)
<1> DEFINE s == InStep(world, was)
           c == a.commitment
           root == TreeRoot[c]
           m == a.to.amount
           sum == PyAdd(treeLedger[root], m)
           l == LedgerAfter(a)
           t == TallyAfter(a)
           keys == FlatKeys \cup {GoKey(a)}
           kept == Port(w, l, treeLedger, FlatKeys, was)
<1>1. /\ root \in Commitments /\ m \in Money /\ PyActionKey(a) = GoKey(a)
      /\ treeLedger[root] # NoMoney => treeLedger[root] \in Money
  BY AskableType, TrackedType, RootType, KeysSpelledAlike DEF Typed
<1>2. s.ledger = ledger /\ s.tree = treeLedger /\ s = Port(world, ledger, treeLedger, FlatKeys, was)
  BY DEF InStep, Port
<1>3. [s EXCEPT !.world = w, !.ledger = l] = kept
  <2>1. [Port(world, ledger, treeLedger, FlatKeys, was) EXCEPT !.world = w] = Port(w, ledger, treeLedger, FlatKeys, was)
    BY DEF Port
  <2>2. [Port(w, ledger, treeLedger, FlatKeys, was) EXCEPT !.ledger = l] = kept
    BY DEF Port
  <2> HIDE DEF kept, s
  <2>3. QED
    BY <1>2, <2>1, <2>2
<1>4. kept.applied = FlatKeys /\ kept.tree = treeLedger
  BY DEF Port
<1>5. PyIsInTree(c) <=> IsInTree(c)
  BY DEF PyIsInTree, PyTreeRootOf, IsInTree
<1>6. PyRecord(s, w, a, Cumulative(a)) =
        IF ~IsInTree(c) THEN [kept EXCEPT !.applied = keys, !.verdict = "accepted"]
        ELSE IF sum = NoMoney THEN [kept EXCEPT !.verdict = "raised"]
        ELSE [kept EXCEPT !.tree = [treeLedger EXCEPT ![root] = sum], !.applied = keys, !.verdict = "accepted"]
  <2>1. [ledger EXCEPT ![c] = Cumulative(a)] = l /\ PyTreeRootOf(c) = root
    BY DEF LedgerAfter, PyTreeRootOf
  <2> HIDE DEF s, kept, l, root
  <2>2. QED
    BY <1>1, <1>2, <1>3, <1>4, <1>5, <2>1 DEF PyRecord
<1>7. RefundedPort(a, w) = Port(w, l, t, keys, "accepted")
  BY DEF RefundedPort
<1>8. CASE ~IsInTree(c)
  <2>1. t = treeLedger
    BY <1>8 DEF TallyAfter
  <2>2. [kept EXCEPT !.applied = keys] = Port(w, l, treeLedger, keys, was)
    BY DEF Port
  <2>3. [Port(w, l, treeLedger, keys, was) EXCEPT !.verdict = "accepted"] = Port(w, l, treeLedger, keys, "accepted")
    BY DEF Port
  <2> HIDE DEF s, kept, l, t, keys
  <2>4. [kept EXCEPT !.applied = keys, !.verdict = "accepted"] = Port(w, l, treeLedger, keys, "accepted")
    BY <2>2, <2>3
  <2>5. QED
    BY <1>6, <1>7, <1>8, <2>1, <2>4 DEF s
<1>9. CASE IsInTree(c)
  <2>1. sum = [amount |-> TreeSoFar(root) + m.amount, currency |-> m.currency]
    <3>1. treeLedger[root] # NoMoney => treeLedger[root].currency = m.currency
      BY <1>9 DEF TallyClashes
    <3>2. CASE treeLedger[root] = NoMoney
      BY <1>1, <3>2 DEF PyAdd, TreeSoFar, Money
    <3>3. CASE treeLedger[root] # NoMoney
      BY <1>1, <3>1, <3>3 DEF PyAdd, TreeSoFar, Money
    <3>4. QED
      BY <3>2, <3>3
  <2>2. sum # NoMoney
    <3>1. TreeSoFar(root) \in Nat /\ m.amount \in Nat /\ m.currency \in Currencies
      BY <1>1, MoneyAssumption DEF TreeSoFar, Money
    <3>2. [amount |-> TreeSoFar(root) + m.amount, currency |-> m.currency] \in Money
      BY <3>1 DEF Money
    <3> HIDE DEF sum
    <3>3. QED
      BY <2>1, <3>2, MoneyAssumption
  <2>3. t = [treeLedger EXCEPT ![root] = sum]
    BY <1>9, <2>1 DEF TallyAfter
  <2> HIDE DEF l, t, keys
  <2>4. [kept EXCEPT !.tree = t] = Port(w, l, t, FlatKeys, was)
    BY DEF Port
  <2>5. [Port(w, l, t, FlatKeys, was) EXCEPT !.applied = keys] = Port(w, l, t, keys, was)
    BY DEF Port
  <2>6. [Port(w, l, t, keys, was) EXCEPT !.verdict = "accepted"] = Port(w, l, t, keys, "accepted")
    BY DEF Port
  <2> HIDE DEF s, kept, sum
  <2>7. PyRecord(s, w, a, Cumulative(a)) = [kept EXCEPT !.tree = t, !.applied = keys, !.verdict = "accepted"]
    BY <1>6, <1>9, <2>2, <2>3
  <2>8. [kept EXCEPT !.tree = t, !.applied = keys] = Port(w, l, t, keys, was)
    BY <2>4, <2>5
  <2>9. [kept EXCEPT !.tree = t, !.applied = keys, !.verdict = "accepted"] = Port(w, l, t, keys, "accepted")
    BY <2>6, <2>8
  <2>10. QED
    BY <1>7, <2>7, <2>9 DEF s
<1>10. QED
  BY <1>8, <1>9

LEMMA PyFollows ==
  ASSUME TwoWayLinks, AgreedDeliveries, Typed, Grown, NEW was, NEW a \in Askable, NEW at \in Times, OnTime(a, at),
         Tracked(a) => ~TallyClashes(a)
  PROVE  PyPropose(InStep(world, was), Fulfillments, a, at) = Followed(a, at, world, MoveIn(world, a, at))
<1> DEFINE F == Fulfillments
           s == InStep(world, was)
           next == MoveIn(world, a, at)
           c == a.commitment
           root == TreeRoot[c]
           guard == PyGuard(world, F, a, at)
           keys == FlatKeys \cup {GoKey(a)}
<1>1. /\ s.world = world /\ s.ledger = ledger /\ s.tree = treeLedger /\ s.applied = FlatKeys
      /\ s = Port(world, ledger, treeLedger, FlatKeys, was)
  BY DEF InStep, Port
<1>2. PyActionKey(a) \in s.applied <=> IsReplay(a)
  BY <1>1, FlatKeysTell, KeysSpelledAlike
<1>3. /\ guard.ok <=> Accepting(a, None, at)
      /\ Accepting(a, None, at) => guard.next = next
  BY PyGuardsAlike
<1>4. PyTracks(s, a) <=> Tracked(a)
  BY TracksAlike
<1>5. /\ [s EXCEPT !.verdict = "rejected"] = KeptPort(world, "rejected")
      /\ [s EXCEPT !.verdict = "replay"] = KeptPort(world, "replay")
  BY KeptAlike
<1>6. ASSUME Tracked(a)
      PROVE  PyRefund(s, F, a, at) =
               IF ~Refundable(a) \/ (SettlesInFull(a) /\ ~Accepting(a, None, at)) THEN KeptPort(world, "rejected")
               ELSE RefundedPort(a, IF SettlesInFull(a) THEN next ELSE world)
  <2> DEFINE m == a.to.amount
             treeTotal == m.amount + TreeSoFar(root)
             capped == \/ PyIsCumulativeOverRefund(c, [m EXCEPT !.amount = Cumulative(a)])
                       \/ PyIsInTree(c) /\ (\/ ~PyCheckI6(root, ChildrenByPointer(root))
                                            \/ PyIsCumulativeOverRefund(root, [m EXCEPT !.amount = treeTotal]))
  <2>1. capped <=> ~Refundable(a)
    BY <1>6, BareStates, CapsAlike DEF Refundable
  <2>2. PyRefund(s, F, a, at) =
          IF capped THEN [s EXCEPT !.verdict = "rejected"]
          ELSE IF ~SettlesInFull(a) THEN PyRecord(s, world, a, Cumulative(a))
          ELSE IF guard.ok THEN PyRecord(s, guard.next, a, Cumulative(a))
          ELSE [s EXCEPT !.verdict = "rejected"]
    <3>1. /\ s.ledger[c] + m.amount = Cumulative(a) /\ PyTreeRootOf(c) = root
          /\ {k \in DOMAIN world : Parent[k] = root} = ChildrenByPointer(root)
          /\ (IF s.tree[root] = NoMoney THEN 0 ELSE s.tree[root].amount) = TreeSoFar(root)
      BY <1>1, BareStates DEF Cumulative, PyTreeRootOf, ChildrenByPointer, TreeSoFar
    <3> HIDE DEF s, root, guard
    <3>2. QED
      BY <1>1, <3>1 DEF PyRefund, SettlesInFull, guard
  <2>3. \A w : PyRecord(s, w, a, Cumulative(a)) = RefundedPort(a, w)
    BY <1>6, PyRecordsAlike
  <2> HIDE DEF capped, s, guard, next
  <2>4. QED
    BY <1>3, <1>5, <2>1, <2>2, <2>3
<1>7. [s EXCEPT !.world = next, !.applied = @ \cup {PyActionKey(a)}, !.verdict = "accepted"] = MovedPort(a, next)
  <2>1. [Port(world, ledger, treeLedger, FlatKeys, was) EXCEPT !.world = next] = Port(next, ledger, treeLedger, FlatKeys, was)
    BY DEF Port
  <2>2. [Port(next, ledger, treeLedger, FlatKeys, was) EXCEPT !.applied = keys] = Port(next, ledger, treeLedger, keys, was)
    BY DEF Port
  <2>3. [Port(next, ledger, treeLedger, keys, was) EXCEPT !.verdict = "accepted"] = Port(next, ledger, treeLedger, keys, "accepted")
    BY DEF Port
  <2>4. s.applied \cup {PyActionKey(a)} = keys
    BY <1>1, KeysSpelledAlike
  <2> HIDE DEF s, next, keys
  <2>5. [s EXCEPT !.world = next, !.applied = keys] = Port(next, ledger, treeLedger, keys, was)
    BY <1>1, <2>1, <2>2
  <2>6. [s EXCEPT !.world = next, !.applied = keys, !.verdict = "accepted"] = Port(next, ledger, treeLedger, keys, "accepted")
    BY <2>3, <2>5
  <2>7. QED
    BY <2>4, <2>6 DEF MovedPort, keys
<1> HIDE DEF s, next, guard
<1>8. PyPropose(s, F, a, at) = Followed(a, at, world, next)
  BY <1>1, <1>2, <1>3, <1>4, <1>5, <1>6, <1>7, NoVersionPlanned DEF PyPropose, Followed, guard
<1>9. QED
  BY <1>8 DEF s, next

\* The verdict of the session, as the ports are held to it.
Answer(a, at) ==
  IF IsReplay(a) THEN "replay"
  ELSE IF Accepted(a, None, at) THEN "accepted"
  ELSE IF Rejected(a, None, at) THEN "rejected" ELSE "raised"

\* The session, told in the same words.
LEMMA SessionFollows ==
  ASSUME UniformTrees, Typed, TallyCurrency, Grown, NEW a \in Askable, NEW at \in Times, OnTime(a, at),
         Propose(a, None, at),
         NEW v, v = Answer(a, at)
  PROVE  /\ v \in {"replay", "accepted", "rejected"}
         /\ v # "accepted" => UNCHANGED vars
         /\ v = "accepted" => ~IsReplay(a) /\ RecordKey(a)
         /\ world' = world \/ (Accepting(a, None, at) /\ world' = MoveIn(world, a, at))
         /\ Port(world', ledger', treeLedger', FlatKeys', v) = Followed(a, at, world, MoveIn(world, a, at))
         /\ Port(BareOf(world'), ledger', treeLedger', FlatKeys', v)
              = Followed(a, at, BareOf(world), BareOf(MoveIn(world, a, at)))
<1> DEFINE next == MoveIn(world, a, at)
<1>1. Proposable(a) /\ ~Conflict(a, None) /\ (Fresh(a, None) <=> ~IsReplay(a))
  BY AskableType, NoVersionPlanned DEF Conflict, Conflicts, VersionConflict
<1>2. ~RefundThrows(a, None, at)
  BY <1>1, NoClash DEF RefundThrows, Refundable
<1>3. /\ RecordInLedger(a) <=> ledger' = LedgerAfter(a)
      /\ RecordTree(a) <=> treeLedger' = TallyAfter(a)
      /\ RecordKey(a) => FlatKeys' = FlatKeys \cup {GoKey(a)}
  BY FlatKeysGrow DEF RecordInLedger, LedgerAfter, RecordTree, TallyAfter
<1>4. CASE Replay(a)
  <2>1. v = "replay" /\ UNCHANGED vars /\ IsReplay(a)
    BY <1>4 DEF Replay, Answer
  <2>2. QED
    BY <2>1 DEF Followed, KeptPort, FlatKeys, vars
<1>5. CASE Reject(a, None, at)
  <2>1. /\ Rejected(a, None, at) /\ UNCHANGED vars /\ ~IsReplay(a) /\ ~Accepted(a, None, at)
        /\ v = "rejected"
    BY <1>1, <1>5 DEF Reject, Rejected, Accepted, Answer
  <2>2. QED
    BY <2>1 DEF Followed, KeptPort, FlatKeys, vars
<1>6. CASE RefundInPart(a, None)
  <2>1. /\ Tracked(a) /\ ~SettlesInFull(a) /\ ~IsReplay(a) /\ Accepted(a, None, at) /\ ~Rejected(a, None, at)
        /\ v = "accepted" /\ RecordKey(a) /\ world' = world
        /\ ledger' = LedgerAfter(a) /\ treeLedger' = TallyAfter(a) /\ FlatKeys' = FlatKeys \cup {GoKey(a)}
    BY <1>1, <1>3, <1>6 DEF RefundInPart, Refundable, Accepted, Rejected, Answer
  <2>2. QED
    BY <2>1 DEF Followed, RefundedPort
<1>7. CASE RefundInFull(a, None, at)
  <2>1. /\ Tracked(a) /\ SettlesInFull(a) /\ ~IsReplay(a) /\ Accepted(a, None, at) /\ ~Rejected(a, None, at)
        /\ v = "accepted" /\ RecordKey(a) /\ Accepting(a, None, at) /\ world' = next
        /\ ledger' = LedgerAfter(a) /\ treeLedger' = TallyAfter(a) /\ FlatKeys' = FlatKeys \cup {GoKey(a)}
    BY <1>1, <1>3, <1>7 DEF RefundInFull, Refundable, Accepted, Rejected, Answer
  <2> HIDE DEF next
  <2>2. QED
    BY <2>1 DEF Followed, RefundedPort, next
<1>8. CASE Advance(a, None, at)
  <2>1. /\ ~Tracked(a) /\ ~IsReplay(a) /\ Accepted(a, None, at) /\ ~Rejected(a, None, at)
        /\ v = "accepted" /\ RecordKey(a) /\ Accepting(a, None, at) /\ world' = next
        /\ ledger' = ledger /\ treeLedger' = treeLedger /\ FlatKeys' = FlatKeys \cup {GoKey(a)}
    BY <1>1, <1>3, <1>8 DEF Advance, Accepted, Rejected, Answer
  <2> HIDE DEF next
  <2>2. QED
    BY <2>1 DEF Followed, MovedPort, next
<1>9. QED
  BY <1>1, <1>2, <1>4, <1>5, <1>6, <1>7, <1>8 DEF Propose

SessionInv ==
  /\ Typed /\ TallyCurrency /\ Grown
  /\ IsFiniteSet(applied) /\ IsFiniteSet(FlatKeys) /\ Cardinality(FlatKeys) = Cardinality(applied)

\* What the ports have read stays true over a proposal.
LEMMA SessionGoesOn ==
  ASSUME UniformTrees, SessionInv,
         NEW a \in Askable, NEW at \in Times, OnTime(a, at), Propose(a, None, at)
  PROVE  SessionInv'
<1> DEFINE next == MoveIn(world, a, at)
           F == Fulfillments
           v == Answer(a, at)
<1>1. Typed /\ TallyCurrency /\ Grown /\ Proposable(a)
  BY AskableType DEF SessionInv
<1>2. /\ v # "accepted" => UNCHANGED vars
      /\ v = "accepted" => ~IsReplay(a) /\ RecordKey(a)
      /\ world' = world \/ (Accepting(a, None, at) /\ world' = next)
  BY <1>1, SessionFollows
<1> HIDE DEF v
<1>3. Typed'
  BY <1>1, NextType DEF Proposes
<1>4. TallyCurrency'
  <2>1. CASE treeLedger' = treeLedger
    BY <1>1, <2>1 DEF TallyCurrency
  <2>2. CASE Tracked(a) /\ RecordTree(a)
    BY <1>1, <2>2, RecordTallyCurrency
  <2>3. ~RefundThrows(a, None, at)
    BY <1>1, NoClash DEF RefundThrows, Refundable
  <2>4. QED
    BY <1>1, <2>1, <2>2, <2>3
    DEF Propose, Replay, Conflict, RefundInPart, RefundInFull, Refundable, Advance, Reject, vars
<1>5. Grown'
  <2>1. CASE world' = world
    BY <1>1, <2>1 DEF Grown, Continues, AcceptedRightly
  <2>2. CASE Accepting(a, None, at) /\ world' = next
    <3>1. /\ Known(a) /\ IsValidCommitmentTransition(world[a.commitment].state, a.to)
          /\ AuditClean(next, F) /\ next \in Worlds
      BY <1>1, <2>2, GuardsAlike, BareMoves
    <3>2. Continues(next) /\ \A c \in Commitments : CheckI2(next[c])
      BY <1>1, <3>1, MoveGrows DEF OnTime
    <3>3. AcceptedRightly(next)
      BY <3>1 DEF AcceptedRightly, AuditClean, CheckI3, Worlds
    <3> HIDE DEF next
    <3>4. QED
      BY <2>2, <3>2, <3>3 DEF Grown, Continues, AcceptedRightly
  <2>3. QED
    BY <1>2, <2>1, <2>2
<1>6. (IsFiniteSet(applied) /\ IsFiniteSet(FlatKeys) /\ Cardinality(FlatKeys) = Cardinality(applied))'
  <2>1. CASE v # "accepted"
    BY <1>2, <2>1 DEF SessionInv, vars, FlatKeys
  <2>2. CASE v = "accepted"
    <3>1. ActionKey(a) \notin applied /\ GoKey(a) \notin FlatKeys
      BY <1>2, <2>2, FlatKeysTell DEF IsReplay
    <3>2. applied' = applied \cup {ActionKey(a)} /\ FlatKeys' = FlatKeys \cup {GoKey(a)}
      BY <1>2, <2>2, FlatKeysGrow DEF RecordKey
    <3>3. /\ IsFiniteSet(applied) /\ IsFiniteSet(FlatKeys) /\ Cardinality(FlatKeys) = Cardinality(applied)
          /\ IsFiniteSet(applied \cup {ActionKey(a)})
          /\ Cardinality(applied \cup {ActionKey(a)}) = Cardinality(applied) + 1
      BY <3>1, FS_AddElement DEF SessionInv
    <3>4. /\ IsFiniteSet(FlatKeys \cup {GoKey(a)})
          /\ Cardinality(FlatKeys \cup {GoKey(a)}) = Cardinality(FlatKeys) + 1
      BY <3>1, <3>3, FS_AddElement
    <3>5. QED
      BY <3>2, <3>3, <3>4
  <2>3. QED
    BY <2>1, <2>2
<1>7. QED
  BY <1>3, <1>4, <1>5, <1>6 DEF SessionInv

LEMMA InitSession == ToolkitsInit => SessionInv /\ LockStep
<1> SUFFICES ASSUME ToolkitsInit PROVE SessionInv /\ LockStep
  OBVIOUS
<1>1. Init /\ world = InitialWorld /\ applied = {}
  BY DEF ToolkitsInit, Init
<1>2. Typed /\ TallyCurrency
  BY <1>1, InitUniform DEF UniformInv
<1>3. Grown
  <2>1. \A c \in Commitments : Len(InitialWorld[c].history) \in Nat
    BY InitialWorldType, LenProperties DEF Commitment
  <2>2. QED
    BY <1>1, <2>1, OpeningIsLegal DEF Grown, Continues, AcceptedRightly
<1>4. FlatKeys = {}
  BY <1>1 DEF FlatKeys
<1>5. BareOf(world) = InitialWorld /\ DOMAIN InitialWorld = Commitments
  BY <1>1, InitialWorldType DEF BareOf, Commitment
<1>6. LockStep
  <2>1. InStep(InitialWorld, "none")
          = Port(InitialWorld, [c \in Commitments |-> 0], [c \in Commitments |-> NoMoney], {}, "none")
    BY <1>1, <1>4 DEF Init, InStep, ToolkitsInit
  <2>2. /\ rust = InStep(InitialWorld, "none") /\ golang = InStep(InitialWorld, "none") /\ python = InStep(InitialWorld, "none")
    BY <1>5, <2>1 DEF ToolkitsInit, RustSession, GoSession, PySession, Port
  <2>3. answer = "none"
    BY DEF ToolkitsInit
  <2>4. QED
    BY <1>1, <1>5, <2>2, <2>3 DEF LockStep
<1>7. QED
  BY <1>1, <1>2, <1>3, <1>4, <1>6, FS_EmptySet DEF SessionInv

LEMMA SessionStays ==
  ASSUME SessionInv, UNCHANGED vars
  PROVE  SessionInv' /\ FlatKeys' = FlatKeys /\ UNCHANGED <<world, ledger, treeLedger, applied>>
<1>1. UNCHANGED <<world, ledger, treeLedger, applied, paid>>
  BY DEF vars
<1>2. Typed' /\ TallyCurrency'
  BY <1>1 DEF SessionInv, Typed, TallyCurrency
<1>3. Grown'
  BY <1>1 DEF SessionInv, Grown, Continues, AcceptedRightly
<1>4. FlatKeys' = FlatKeys
  BY <1>1 DEF FlatKeys
<1>5. QED
  BY <1>1, <1>2, <1>3, <1>4 DEF SessionInv

\* Each port where the session is, whatever it was asked last.
Evenly ==
  /\ \E was : rust = InStep(BareOf(world), was)
  /\ \E was : golang = InStep(BareOf(world), was)
  /\ \E was : python = InStep(world, was)

LEMMA PortsGoOn ==
  ASSUME TwoWayLinks, UniformTrees, AgreedDeliveries, SessionInv, Evenly,
         NEW a \in Askable, NEW at \in Times, OnTime(a, at), Propose(a, None, at), PortsPropose(a, at)
  PROVE  LockStep' /\ answer' \in {"replay", "accepted", "rejected"}
<1> DEFINE next == MoveIn(world, a, at)
<1>1. Typed /\ TallyCurrency /\ Grown /\ Proposable(a)
  BY AskableType DEF SessionInv
<1>2. /\ answer' \in {"replay", "accepted", "rejected"}
      /\ Port(world', ledger', treeLedger', FlatKeys', answer') = Followed(a, at, world, next)
      /\ Port(BareOf(world'), ledger', treeLedger', FlatKeys', answer')
           = Followed(a, at, BareOf(world), BareOf(next))
  <2>1. answer' = Answer(a, at)
    BY DEF PortsPropose, Answer
  <2>2. QED
    BY <1>1, <2>1, SessionFollows
<1>3. Tracked(a) => ~TallyClashes(a)
  BY <1>1, NoClash
<1>4. /\ rust' = Followed(a, at, BareOf(world), BareOf(next))
      /\ golang' = Followed(a, at, BareOf(world), BareOf(next))
      /\ python' = Followed(a, at, world, next)
  BY <1>1, <1>3, RustFollows, GoFollows, PyFollows DEF PortsPropose, Evenly
<1> HIDE DEF next
<1>5. QED
  BY <1>2, <1>4 DEF LockStep, InStep, BareOf

-----------------------------------------------------------------------------
(* The attributions.                                                                 *)

LogEntries == [actor : Actors, commitment : Ids, to : StateTypes]
Attributions == {r \in [log : Seq(LogEntries), blame : {None} \cup [actor : Actors, after : SUBSET Actors]] :
                   r.blame # None => r.blame.actor \notin r.blame.after}

LEMMA AttributedAlike ==
  ASSUME NEW r \in Attributions, NEW a \in Requests, NEW v \in {"replay", "accepted", "rejected"}
  PROVE  /\ TsAttributed(r, v, a) \in Attributions
         /\ RustAttributed(r, v, a) = TsAttributed(r, v, a)
         /\ GoAttributed(r, v, a) = TsAttributed(r, v, a)
         /\ PyAttributed(r, v, a) = TsAttributed(r, v, a)
<1> DEFINE log == r.log
           e == AgentAction(a)
           others == {log[i].actor : i \in DOMAIN log} \ {a.actor}
           blamed == [actor |-> a.actor, after |-> others]
           Attributed(l, b) == [log |-> l, blame |-> b]
<1>1. /\ log \in Seq(LogEntries) /\ r = Attributed(log, r.blame)
      /\ r.blame \in {None} \cup [actor : Actors, after : SUBSET Actors]
  BY DEF Attributions
<1>2. e \in LogEntries /\ a.actor \in Actors
  BY RequestType DEF Proposable, AgentAction, LogEntries, States
<1>3. \A i \in DOMAIN log : log[i] \in LogEntries /\ log[i].actor \in Actors
  <2>1. DOMAIN log = 1..Len(log) /\ \A i \in 1..Len(log) : log[i] \in LogEntries
    BY <1>1, ElementOfSeq, LenProperties
  <2>2. \A x \in LogEntries : x.actor \in Actors
    BY DEF LogEntries
  <2>3. QED
    BY <2>1, <2>2
<1>4. others \subseteq Actors /\ a.actor \notin others
  BY <1>3
<1>5. /\ {p \in {x.actor : x \in {log[i] : i \in DOMAIN log}} : p # a.actor} = others
      /\ {p \in Actors \ {a.actor} : \E i \in DOMAIN log : log[i].actor = p} = others
  BY <1>3
<1>6. /\ log \o <<>> = log /\ log \o <<e>> = Append(log, e) /\ Append(log, e) \in Seq(LogEntries)
  <2> HIDE DEF e
  <2>1. QED
    BY <1>1, <1>2, ConcatEmptySeq, AppendIsConcat, AppendProperties
<1>7. ASSUME NEW b, NEW l
      PROVE  /\ [r EXCEPT !.blame = b] = Attributed(log, b)
             /\ [Attributed(log, b) EXCEPT !.log = l] = Attributed(l, b)
             /\ Attributed(log, b).log = log
  <2>1. \A x : [Attributed(log, x) EXCEPT !.blame = b] = Attributed(log, b)
    OBVIOUS
  <2>2. [r EXCEPT !.blame = b] = Attributed(log, b)
    <3> HIDE DEF Attributed
    <3>1. [Attributed(log, r.blame) EXCEPT !.blame = b] = Attributed(log, b)
      BY <2>1
    <3>2. QED
      BY <1>1, <3>1
  <2>3. QED
    BY <2>2
<1>8. /\ [r EXCEPT !.blame = None] = Attributed(log, None)
      /\ [r EXCEPT !.blame = blamed] = Attributed(log, blamed)
      /\ [Attributed(log, None) EXCEPT !.log = Append(log, e)] = Attributed(Append(log, e), None)
      /\ Attributed(log, None).log = log
  <2> HIDE DEF Attributed, blamed, e, log
  <2>1. QED
    BY <1>7
<1>9. blamed \in [actor : Actors, after : SUBSET Actors] /\ blamed.actor \notin blamed.after
  BY <1>2, <1>4
<1>10. \A l \in Seq(LogEntries) : Attributed(l, None) \in Attributions /\ Attributed(l, blamed) \in Attributions
  <2> HIDE DEF blamed
  <2>1. QED
    BY <1>9 DEF Attributions
<1>11. CASE v = "accepted"
  <2>1. TsAttributed(r, v, a) = Attributed(Append(log, e), None)
    BY <1>11 DEF TsAttributed
  <2>2. RustAttributed(r, v, a) = Attributed(Append(log, e), None)
    BY <1>11 DEF RustAttributed
  <2>3. GoAttributed(r, v, a) = Attributed(Append(log, e), None)
    BY <1>6, <1>11 DEF GoAttributed
  <2>4. PyAttributed(r, v, a) = Attributed(Append(log, e), None)
    <3> HIDE DEF Attributed, e
    <3>1. QED
      BY <1>8, <1>11 DEF PyAttributed, e
  <2> HIDE DEF Attributed
  <2>5. QED
    BY <1>6, <1>10, <2>1, <2>2, <2>3, <2>4
<1>12. CASE v = "replay"
  <2>1. TsAttributed(r, v, a) = Attributed(log, None)
    <3> HIDE DEF Attributed
    <3>1. QED
      BY <1>8, <1>12 DEF TsAttributed
  <2>2. RustAttributed(r, v, a) = Attributed(log, None)
    BY <1>12 DEF RustAttributed
  <2>3. GoAttributed(r, v, a) = Attributed(log, None)
    BY <1>6, <1>12 DEF GoAttributed
  <2>4. PyAttributed(r, v, a) = Attributed(log, None)
    <3> HIDE DEF Attributed
    <3>1. QED
      BY <1>8, <1>12 DEF PyAttributed
  <2> HIDE DEF Attributed
  <2>5. QED
    BY <1>1, <1>10, <2>1, <2>2, <2>3, <2>4
<1>13. CASE v = "rejected"
  <2>1. TsAttributed(r, v, a) = Attributed(log, blamed)
    <3> HIDE DEF Attributed
    <3>1. QED
      BY <1>8, <1>13 DEF TsAttributed
  <2>2. RustAttributed(r, v, a) = Attributed(log, blamed)
    <3> HIDE DEF Attributed
    <3>1. QED
      BY <1>5, <1>8, <1>13 DEF RustAttributed
  <2>3. GoAttributed(r, v, a) = Attributed(log, blamed)
    <3> HIDE DEF Attributed
    <3>1. QED
      BY <1>5, <1>8, <1>13 DEF GoAttributed
  <2>4. PyAttributed(r, v, a) = Attributed(log, blamed)
    <3> HIDE DEF Attributed
    <3>1. QED
      BY <1>8, <1>13 DEF PyAttributed
  <2> HIDE DEF Attributed
  <2>5. QED
    BY <1>1, <1>10, <2>1, <2>2, <2>3, <2>4
<1>14. QED
  BY <1>11, <1>12, <1>13

-----------------------------------------------------------------------------
(* The toolkits in lockstep.                                                         *)

PortInv ==
  /\ SessionInv /\ LockStep
  /\ DOMAIN records = {"ts", "rust", "golang", "python"}
  /\ \A port \in DOMAIN records : records[port] = records.ts
  /\ records.ts \in Attributions

LEMMA InitPorts == PortAgentsInit => PortInv
<1> SUFFICES ASSUME PortAgentsInit PROVE PortInv
  OBVIOUS
<1>1. SessionInv /\ LockStep
  BY InitSession DEF PortAgentsInit
<1>2. /\ DOMAIN records = {"ts", "rust", "golang", "python"}
      /\ \A port \in DOMAIN records : records[port] = records.ts
      /\ records.ts \in Attributions
  <2>1. Nobody \in Attributions
    <3>1. <<>> \in Seq(LogEntries)
      BY EmptySeq
    <3>2. QED
      BY <3>1 DEF Nobody, Attributions
  <2>2. QED
    BY <2>1 DEF PortAgentsInit
<1>3. QED
  BY <1>1, <1>2 DEF PortInv

LEMMA StepPorts ==
  ASSUME TwoWayLinks, UniformTrees, AgreedDeliveries, PortInv,
         NEW a \in Requests, NEW at \in Times, OnTime(a, at), ProposeAttributed(a, at)
  PROVE  PortInv'
<1>1. SessionInv /\ Evenly /\ Propose(a, None, at) /\ PortsPropose(a, at) /\ a \in Askable
  BY DEF PortInv, ProposeAttributed, ProposeToAll, LockStep, Evenly, Askable
<1>2. SessionInv'
  BY <1>1, SessionGoesOn
<1>3. LockStep' /\ answer' \in {"replay", "accepted", "rejected"}
  BY <1>1, PortsGoOn
<1>4. rust'.verdict = answer' /\ golang'.verdict = answer' /\ python'.verdict = answer'
  BY <1>3 DEF LockStep, InStep, Port
<1>5. /\ (DOMAIN records = {"ts", "rust", "golang", "python"})'
       /\ (\A port \in DOMAIN records : records[port] = records.ts)'
       /\ (records.ts \in Attributions)'
  <2>1. /\ records.rust = records.ts /\ records.golang = records.ts /\ records.python = records.ts
        /\ records.ts \in Attributions
    BY DEF PortInv
  <2>2. /\ TsAttributed(records.ts, answer', a) \in Attributions
        /\ RustAttributed(records.ts, answer', a) = TsAttributed(records.ts, answer', a)
        /\ GoAttributed(records.ts, answer', a) = TsAttributed(records.ts, answer', a)
        /\ PyAttributed(records.ts, answer', a) = TsAttributed(records.ts, answer', a)
    BY <1>3, <2>1, AttributedAlike
  <2> DEFINE r == TsAttributed(records.ts, answer', a)
  <2>3. records' = [ts |-> r, rust |-> r, golang |-> r, python |-> r]
    BY <1>4, <2>1, <2>2 DEF ProposeAttributed
  <2>4. r \in Attributions
    BY <2>2
  <2> HIDE DEF r
  <2>5. QED
    BY <2>3, <2>4
<1>6. QED
  BY <1>2, <1>3, <1>5 DEF PortInv

LEMMA NextPorts ==
  ASSUME TwoWayLinks, UniformTrees, AgreedDeliveries
  PROVE  PortInv /\ [PortAgentsNext]_portAgentsVars => PortInv'
<1> SUFFICES ASSUME PortInv, [PortAgentsNext]_portAgentsVars PROVE PortInv'
  OBVIOUS
<1>1. CASE PortAgentsNext
  BY <1>1, StepPorts DEF PortAgentsNext
<1>2. CASE UNCHANGED portAgentsVars
  <2>1. UNCHANGED <<vars, rust, golang, python, answer, records>>
    BY <1>2 DEF portAgentsVars, toolkitVars
  <2>2. SessionInv' /\ FlatKeys' = FlatKeys /\ UNCHANGED <<world, ledger, treeLedger, applied>>
    BY <2>1, SessionStays DEF PortInv
  <2>3. LockStep'
    BY <2>1, <2>2 DEF PortInv, LockStep, InStep, BareOf
  <2>4. QED
    BY <2>1, <2>2, <2>3 DEF PortInv
<1>3. QED
  BY <1>1, <1>2

LEMMA PortInvAgrees == PortInv => PortsAgree
<1> SUFFICES ASSUME PortInv PROVE PortsAgree
  OBVIOUS
<1>1. \A c \in Commitments : BareOf(world)[c].state = world[c].state
  BY DEF BareOf
<1>2. \A port \in {rust, golang, python} :
        /\ port.verdict = answer /\ port.ledger = ledger /\ port.tree = treeLedger /\ port.applied = FlatKeys
        /\ \A c \in Commitments : port.world[c].state = world[c].state
  BY <1>1 DEF PortInv, LockStep, InStep, Port
<1>3. records.ts.blame # None => records.ts.blame.actor \notin records.ts.blame.after
  BY DEF PortInv, Attributions
<1>4. QED
  BY <1>2, <1>3 DEF PortInv, SessionInv, PortsAgree, ToolkitsAgree

\* For every world whose trees are linked both ways and priced in one currency, and
\* whose deliveries began before the session did, the four toolkits give every proposal
\* one verdict and keep one ledger, one log and one culprit: a session of Rust, Go or
\* Python is the TypeScript one, read without the histories it appends.
THEOREM ToolkitsInLockstep == PortAgentsSpec => []PortsAgree
<1>1. CASE TwoWayLinks /\ UniformTrees /\ AgreedDeliveries
  <2>1. PortAgentsInit => PortInv
    BY InitPorts
  <2>2. PortInv /\ [PortAgentsNext]_portAgentsVars => PortInv'
    BY <1>1, NextPorts
  <2>3. PortInv => PortsAgree
    BY PortInvAgrees
  <2>4. QED
    BY <2>1, <2>2, <2>3, PTL DEF PortAgentsSpec
<1>2. CASE ~(TwoWayLinks /\ UniformTrees /\ AgreedDeliveries)
  <2>1. PortsAgree
    BY <1>2 DEF PortsAgree, ToolkitsAgree
  <2>2. QED
    BY <2>1, PTL
<1>3. QED
  BY <1>1, <1>2

-----------------------------------------------------------------------------
(* Saga: what the forward flow and the plans are made of, and how they touch the *)
(* session.                                                                      *)

ForwardSteps == [commitment : Ids, to : States, actor : Actors, override : States \cup {None}]

PlanSteps ==
  [forward : ForwardSteps,
   action  : {NoAction} \cup {Compensating(f, to) : f \in ForwardSteps, to \in States}]

SagaType ==
  /\ Typed
  /\ forward \in Seq(ForwardSteps)
  /\ plan \in Seq(PlanSteps)
  /\ step \in Nat \ {0}

LEMMA ForwardStepType == ASSUME NEW r \in Requests PROVE ForwardStep(r) \in ForwardSteps
BY RequestType, OverridesAssumption DEF ForwardStep, ForwardSteps, Proposable

LEMMA CompensatingType ==
  ASSUME NEW f \in ForwardSteps, NEW to \in States
  PROVE  Proposable(Compensating(f, to))
BY DEF Compensating, ForwardSteps, Proposable

LEMMA CompensationType ==
  ASSUME NEW f \in ForwardSteps
  PROVE  CompensationOf(f) = NoAction \/ \E to \in States : CompensationOf(f) = Compensating(f, to)
<1>1. Plain("Cancelled") \in States
  BY PlainIsState DEF StateTypes, CommitmentTransitions
<1>2. ASSUME NEW c \in Commitments, Committed[c] # NoMoney
      PROVE  [type |-> "Refunded", amount |-> Committed[c]] \in States
  BY <1>2, MoneyAssumption DEF States, StateTypes, CommitmentTransitions
<1>3. f.override = None \/ f.override \in States
  BY DEF ForwardSteps
<1>4. CASE f.commitment \notin Commitments
  BY <1>4 DEF CompensationOf
<1>5. CASE f.commitment \in Commitments /\ f.override # None
  BY <1>3, <1>5 DEF CompensationOf
<1>6. CASE f.commitment \in Commitments /\ f.override = None
  <2>1. CompensationOf(f) = DefaultCompensation(f)
    BY <1>6 DEF CompensationOf
  <2>2. QED
    BY <1>1, <1>2, <1>6, <2>1 DEF DefaultCompensation
<1>7. QED
  BY <1>4, <1>5, <1>6

\* A plan is the forward steps, newest first, each with its compensation.
LEMMA PlanIs ==
  ASSUME SagaType, NEW n, n = Len(forward), NEW p, p = PlanCompensation(forward)
  PROVE  /\ n \in Nat /\ DOMAIN forward = 1..n
         /\ p \in Seq(PlanSteps) /\ DOMAIN p = 1..n
         /\ \A j \in 1..n : /\ (n - j) + 1 \in 1..n
                            /\ p[j] = [forward |-> forward[(n - j) + 1],
                                       action  |-> CompensationOf(forward[(n - j) + 1])]
<1>1. n \in Nat /\ DOMAIN forward = 1..n
  BY LenProperties DEF SagaType
<1>2. \A j \in 1..n : (n - j) + 1 \in 1..n
  BY <1>1
<1>3. DOMAIN Reverse(forward) = 1..n /\ \A j \in 1..n : Reverse(forward)[j] = forward[(n - j) + 1]
  BY DEF Reverse
<1>4. /\ p = [j \in 1..n |-> [forward |-> Reverse(forward)[j],
                              action  |-> CompensationOf(Reverse(forward)[j])]]
  BY <1>3 DEF PlanCompensation
<1>5. ASSUME NEW j \in 1..n
      PROVE  /\ p[j] = [forward |-> forward[(n - j) + 1],
                        action  |-> CompensationOf(forward[(n - j) + 1])]
             /\ p[j] \in PlanSteps
  <2> PICK f : f = forward[(n - j) + 1]
    OBVIOUS
  <2>1. f \in ForwardSteps
    BY <1>1, <1>2, ElementOfSeq DEF SagaType
  <2>2. p[j] = [forward |-> f, action |-> CompensationOf(f)]
    BY <1>3, <1>4
  <2>3. CompensationOf(f) \in {NoAction} \cup {Compensating(g, to) : g \in ForwardSteps, to \in States}
    BY <2>1, CompensationType
  <2>4. p[j] \in PlanSteps
    BY <2>1, <2>2, <2>3 DEF PlanSteps
  <2>5. QED
    BY <2>2, <2>4
<1>6. p \in Seq(PlanSteps)
  <2>1. DOMAIN p = 1..n /\ p = [j \in 1..n |-> p[j]]
    BY <1>4
  <2>2. \A j \in 1..n : p[j] \in PlanSteps
    BY <1>5
  <2>3. [j \in 1..n |-> p[j]] \in Seq(PlanSteps)
    BY <1>1, <2>2, IsASeq
  <2>4. QED
    BY <2>1, <2>3
<1>7. QED
  BY <1>1, <1>2, <1>4, <1>5, <1>6

LEMMA PlannedType ==
  ASSUME SagaType, NEW j \in DOMAIN plan
  PROVE  /\ plan[j].forward \in ForwardSteps /\ j \in 1..Len(plan) /\ Len(plan) \in Nat
         /\ plan[j].action # NoAction => Proposable(plan[j].action)
<1>1. j \in 1..Len(plan) /\ Len(plan) \in Nat
  BY LenProperties DEF SagaType
<1>2. plan[j] \in PlanSteps
  BY <1>1, ElementOfSeq DEF SagaType
<1>3. QED
  BY <1>1, <1>2, CompensatingType DEF PlanSteps

\* compensate() forgets what the session remembered, and nothing else.
StartsAfresh ==
  /\ UNCHANGED <<world, paid>>
  /\ ledger' = [c \in Commitments |-> 0]
  /\ treeLedger' = [c \in Commitments |-> NoMoney]
  /\ applied' = {}
  /\ afresh'

\* A step of a saga proposes something to the session, or leaves it alone, or starts
\* a new one.
LEMMA SagaStep ==
  ASSUME SagaType, [PortSagasNext]_portSagasVars
  PROVE  \/ [Proposes]_vars /\ afresh' = afresh
         \/ StartsAfresh
<1>1. CASE UNCHANGED portSagasVars
  BY <1>1 DEF portSagasVars, sagaVars
<1>2. ASSUME NEW a \in Requests, NEW at \in Times, ForwardAll(a, at)
      PROVE  [Proposes]_vars /\ afresh' = afresh
  BY <1>2, RequestType DEF ForwardAll, Forward, Proposes
<1>3. CASE CompensateSession
  BY <1>3 DEF CompensateSession, Start, vars
<1>4. CASE Compensate
  BY <1>4 DEF Compensate, Start, StartsAfresh
<1>5. ASSUME NEW at \in Times, Unwind(at) PROVE [Proposes]_vars /\ afresh' = afresh
  <2>1. RunStep(at) => Proposes
    BY PlannedType DEF RunStep, Unwinding, Proposes
  <2>2. QED
    BY <1>5, <2>1 DEF Unwind, ValidateCompensation, SkipStep, Finish
<1>6. QED
  BY <1>1, <1>2, <1>3, <1>4, <1>5 DEF PortSagasNext, CompensateAll

LEMMA NextSagaType ==
  ASSUME SagaType, [PortSagasNext]_portSagasVars
  PROVE  SagaType'
<1>1. Typed'
  <2>1. CASE StartsAfresh
    BY <2>1 DEF StartsAfresh, SagaType, Typed
  <2>2. QED
    BY <2>1, SagaStep, NextType DEF SagaType
<1>2. ASSUME UNCHANGED <<forward, plan, step>> PROVE SagaType'
  BY <1>1, <1>2 DEF SagaType
<1>3. CASE UNCHANGED portSagasVars
  BY <1>2, <1>3 DEF portSagasVars, sagaVars
<1>4. ASSUME NEW a \in Requests, NEW at \in Times, ForwardAll(a, at) PROVE SagaType'
  <2>1. forward' \in Seq(ForwardSteps)
    BY <1>4, ForwardStepType, AppendProperties DEF ForwardAll, Forward, SagaType
  <2>2. plan' \in Seq(PlanSteps) /\ step' \in Nat \ {0}
    BY <1>4, EmptySeq DEF ForwardAll, Forward
  <2>3. QED
    BY <1>1, <2>1, <2>2 DEF SagaType
<1>5. CASE Start
  <2>1. plan' \in Seq(PlanSteps) /\ forward' = forward /\ step' = 1
    BY <1>5, PlanIs DEF Start
  <2>2. QED
    BY <1>1, <2>1 DEF SagaType
<1>6. ASSUME NEW at \in Times, Unwind(at) PROVE SagaType'
  <2>1. step' = step \/ step' = step + 1
    BY <1>6 DEF Unwind, ValidateCompensation, SkipStep, Finish, RunStep, Verdict
  <2>2. QED
    BY <1>1, <1>6, <2>1 DEF Unwind, ValidateCompensation, SagaType
<1>7. QED
  BY <1>3, <1>4, <1>5, <1>6 DEF PortSagasNext, CompensateAll, Compensate, CompensateSession

LEMMA InitSagaType == PortSagasInit => SagaType
BY InitType, EmptySeq DEF PortSagasInit, SagaInit, SagaType

\* What was paid back stays covered by the tallies until they are given up.
MoneyInv == SagaType /\ TallyBounds /\ (~afresh => LedgerBounds /\ TreeCovered)

\* Reversals are refunds like others: with the refunds before them they stay within
\* what the tree committed, while the flow's session is the one that unwinds it.
THEOREM SagaConserves == PortSagasSpec => []SagaPaysWithinTree
<1>1. PortSagasInit => MoneyInv
  BY InitSagaType, InitBounds, InitCovered
  DEF PortSagasInit, SagaInit, MoneyInv, Init, TallyBounds
<1>2. ASSUME MoneyInv, [PortSagasNext]_portSagasVars PROVE MoneyInv'
  <2>1. SagaType'
    BY <1>2, NextSagaType DEF MoneyInv
  <2>2. CASE [Proposes]_vars /\ afresh' = afresh
    BY <1>2, <2>1, <2>2, NextTally, NextBounds, NextCovered DEF MoneyInv, SagaType
  <2>3. CASE StartsAfresh
    BY <2>1, <2>3 DEF StartsAfresh, MoneyInv, TallyBounds
  <2>4. QED
    BY <1>2, <2>2, <2>3, SagaStep DEF MoneyInv
<1>3. MoneyInv => SagaPaysWithinTree
  BY CoveredIsWithin DEF MoneyInv, SagaType, SagaPaysWithinTree
<1>4. QED
  BY <1>1, <1>2, <1>3, PTL DEF PortSagasSpec

-----------------------------------------------------------------------------
(* Saga: a compensation that succeeds leaves no step standing.  The plan is made   *)
(* from one snapshot, so the invariant says what is still to be reversed at every  *)
(* point of the unwinding, and what the keys of earlier compensations tell.        *)

Agreed == {"Accepted", "Active", "Modified", "PartiallyFulfilled"}
Delivered == {"Fulfilled", "Disputed"}
Closed == {"Cancelled", "Refunded"}

\* The flow has driven c to an agreed or delivered state.
Taken(c) ==
  \E i \in DOMAIN forward :
    forward[i].commitment = c /\ forward[i].to.type \in Agreed \cup {"Fulfilled"}

TakenTo(c, t) == \E i \in DOMAIN forward : forward[i].commitment = c /\ forward[i].to.type = t

\* Where a commitment of the flow can be, whose steps reverse by default.
FlowReaches ==
  \A i \in DOMAIN forward :
    LET c == forward[i].commitment
        s == world[c].state.type
    IN /\ c \in Commitments
       /\ ByDefault(c) =>
            /\ forward[i].to.type = "Fulfilled" => s \in Delivered \cup Closed
            /\ (forward[i].to.type \in Agreed) =>
                 /\ s \in Agreed \cup Delivered \cup Closed
                 /\ s = "Fulfilled" => TakenTo(c, "Fulfilled")

\* A compensation that was applied under its key has closed its commitment.
KeysTell ==
  \A c \in Commitments, t \in StateTypes :
    ByDefault(c) /\ <<"key", <<"comp", c, t>>>> \in applied => world[c].state.type \in Closed

\* While a plan runs, what is not closed yet is still to come.
LeftToReverse ==
  phase = "unwinding" =>
    \A c \in Commitments :
      ByDefault(c) /\ Committed[c] # NoMoney /\ Taken(c) =>
        \/ world[c].state.type \in Closed
        \/ \E j \in DOMAIN plan :
             j >= step /\ plan[j].action # NoAction /\ plan[j].forward.commitment = c

\* A default compensation cancels, or refunds all that was committed.
Undoes(f, a) ==
  \E to \in States :
    /\ a = Compensating(f, to)
    /\ f.override = None =>
         \/ to = Plain("Cancelled")
         \/ Committed[f.commitment] # NoMoney
            /\ to = [type |-> "Refunded", amount |-> Committed[f.commitment]]

PlanUndoes ==
  \A j \in DOMAIN plan :
    /\ \E i \in DOMAIN forward : forward[i] = plan[j].forward
    /\ plan[j].action # NoAction => Undoes(plan[j].forward, plan[j].action)

FlowInv ==
  /\ SagaType /\ FlowReaches /\ KeysTell /\ LeftToReverse /\ PlanUndoes
  /\ UnwoundMeansReversed

\* Nothing leaves Cancelled or Refunded; what was agreed stays agreed or is delivered
\* or closed; what was delivered stays so or is closed.
LEMMA TransitionsLead ==
  ASSUME NEW s \in StateTypes
  PROVE  /\ \A t \in CommitmentTransitions[s] :
              /\ s \notin Closed
              /\ s \in Delivered => t \in Delivered \cup Closed
              /\ s \in Agreed \cup Delivered => t \in Agreed \cup Delivered \cup Closed
         /\ s \in Delivered => "Refunded" \in CommitmentTransitions[s]
         /\ s \in Agreed \cup {"Disputed"} => "Cancelled" \in CommitmentTransitions[s]
BY DEF StateTypes, CommitmentTransitions, Closed, Delivered, Agreed

\* A proposal moves the commitment it names, along a transition, or no commitment;
\* and it records its own key or none.
LEMMA ProposalMoves ==
  ASSUME Typed, NEW a, Proposable(a), NEW at \in Times, Propose(a, None, at)
  PROVE  /\ \/ world' = world
            \/ /\ a.commitment \in Commitments
               /\ world'[a.commitment].state = a.to
               /\ a.to.type \in CommitmentTransitions[world[a.commitment].state.type]
               /\ \A d \in Commitments \ {a.commitment} : world'[d] = world[d]
         /\ applied \subseteq applied' /\ applied' \subseteq applied \cup {ActionKey(a)}
<1>1. ASSUME Accepting(a, None, at), world' = MoveIn(world, a, at)
      PROVE  /\ a.commitment \in Commitments
             /\ world'[a.commitment].state = a.to
             /\ a.to.type \in CommitmentTransitions[world[a.commitment].state.type]
             /\ \A d \in Commitments \ {a.commitment} : world'[d] = world[d]
  BY <1>1, MoveInType DEF TransitionOk, IsValidCommitmentTransition
<1>2. \/ world' = world
      \/ Accepting(a, None, at) /\ world' = MoveIn(world, a, at)
  BY DEF Propose, Replay, Conflict, RefundInPart, RefundInFull, RefundThrows, Advance, Reject, vars
<1>3. applied' = applied \/ applied' = applied \cup {ActionKey(a)}
  BY DEF Propose, Replay, Conflict, RefundInPart, RefundInFull, RefundThrows, Advance, Reject,
         RecordKey, vars
<1>4. QED
  BY <1>1, <1>2, <1>3

\* A refund of all that was committed is the last one: what passes the ledger check
\* settles the commitment.
LEMMA WholeRefundSettles ==
  ASSUME Typed, NEW a, Proposable(a), Tracked(a), WithinOrder(a),
         a.to.amount = Committed[a.commitment]
  PROVE  SettlesInFull(a)
<1>1. /\ a.commitment \in Commitments /\ ledger[a.commitment] \in Nat
      /\ Committed[a.commitment] # NoMoney /\ Committed[a.commitment].amount \in Nat
      /\ Eps \in Nat \ {0}
  BY TrackedType, MoneyAssumption DEF Typed, Money
<1>2. Cumulative(a) = ledger[a.commitment] + Committed[a.commitment].amount
  BY DEF Cumulative
<1>3. \/ ~(Cumulative(a) > Committed[a.commitment].amount)
      \/ MoneyEquals(Cumulative(a), Committed[a.commitment].amount)
  BY <1>1 DEF WithinOrder, ExceedsCommitted
<1>4. QED
  BY <1>1, <1>2, <1>3 DEF SettlesInFull, MoneyEquals

\* A default compensation that a session accepts, now or before, closes its commitment.
LEMMA DefaultCloses ==
  ASSUME Typed, NEW f \in ForwardSteps, f.override = None, NEW a, Undoes(f, a),
         NEW at \in Times, Propose(a, None, at)
  PROVE  /\ a.commitment = f.commitment /\ a.to.type \in Closed
         /\ ActionKey(a) \in applied' \ applied => world'[f.commitment].state.type \in Closed
         /\ Accepted(a, None, at) => world'[f.commitment].state.type \in Closed
<1>1. /\ Proposable(a) /\ a.commitment = f.commitment /\ a.to.type \in Closed
      /\ a.to.type = "Refunded" => a.to.amount = Committed[a.commitment]
  BY CompensatingType DEF Undoes, Compensating, Plain, Closed
<1>2. ~RefundInPart(a, None)
  BY <1>1, WholeRefundSettles DEF RefundInPart, Refundable, Tracked
<1>3. RefundInFull(a, None, at) \/ Advance(a, None, at)
        => world'[f.commitment].state.type \in Closed
  BY <1>1, MoveInType DEF RefundInFull, Advance
<1>4. ActionKey(a) \in applied' \ applied => RefundInFull(a, None, at) \/ Advance(a, None, at)
  BY <1>2 DEF Propose, Replay, Conflict, Reject, RefundThrows, vars
<1>5. Accepted(a, None, at) => RefundInFull(a, None, at) \/ Advance(a, None, at)
  BY <1>2 DEF Propose, Replay, Conflict, Reject, RefundThrows, Accepted, Rejected, Fresh, Refundable
<1>6. QED
  BY <1>1, <1>3, <1>4, <1>5

\* The flow keeps the step that moved a commitment, after the steps it had.
LEMMA ForwardGrows ==
  ASSUME SagaType, NEW a \in Requests, NEW at, Forward(a, at)
  PROVE  /\ \A i \in DOMAIN forward : i \in DOMAIN forward' /\ forward'[i] = forward[i]
         /\ \/ world' = world /\ forward' = forward
            \/ \E k \in DOMAIN forward' :
                 /\ DOMAIN forward' = DOMAIN forward \cup {k}
                 /\ forward'[k] = ForwardStep(a)
<1>1. CASE world' = world
  BY <1>1 DEF Forward
<1>2. CASE world' # world
  <2> DEFINE k == Len(forward) + 1
             f == ForwardStep(a)
  <2>1. forward' = Append(forward, f) /\ f \in ForwardSteps /\ forward \in Seq(ForwardSteps)
    BY <1>2, ForwardStepType DEF Forward, SagaType
  <2> HIDE DEF f
  <2>2. /\ forward' \in Seq(ForwardSteps) /\ Len(forward') = k /\ forward'[k] = f
        /\ \A i \in 1..Len(forward) : forward'[i] = forward[i]
    BY <2>1, AppendProperties
  <2>3. Len(forward) \in Nat /\ DOMAIN forward = 1..Len(forward) /\ DOMAIN forward' = 1..k
    BY <2>1, <2>2, LenProperties
  <2>4. DOMAIN forward' = DOMAIN forward \cup {k} /\ k \in DOMAIN forward'
    BY <2>3
  <2>5. QED
    BY <2>2, <2>3, <2>4 DEF f
<1>3. QED
  BY <1>1, <1>2

\* What a commitment of the flow may become in a step that moves it or leaves it.
LEMMA ReachKept ==
  ASSUME SagaType, FlowReaches, NEW i \in DOMAIN forward,
         NEW c, c = forward[i].commitment,
         \A k \in DOMAIN forward : k \in DOMAIN forward' /\ forward'[k] = forward[k],
         ByDefault(c)',
         \/ world'[c] = world[c]
         \/ /\ world'[c].state.type \in CommitmentTransitions[world[c].state.type]
            /\ world'[c].state.type = "Fulfilled" => TakenTo(c, "Fulfilled")'
  PROVE  LET s == world'[c].state.type
         IN /\ c \in Commitments
            /\ forward'[i].to.type = "Fulfilled" => s \in Delivered \cup Closed
            /\ (forward'[i].to.type \in Agreed) =>
                 /\ s \in Agreed \cup Delivered \cup Closed
                 /\ s = "Fulfilled" => TakenTo(c, "Fulfilled")'
<1>1. ByDefault(c) /\ (TakenTo(c, "Fulfilled") => TakenTo(c, "Fulfilled")')
  BY DEF ByDefault, TakenTo
<1>2. c \in Commitments /\ forward'[i] = forward[i] /\ world[c].state.type \in StateTypes
  BY DEF FlowReaches, SagaType, Typed, Commitment, States
<1>3. /\ forward[i].to.type = "Fulfilled" => world[c].state.type \in Delivered \cup Closed
      /\ (forward[i].to.type \in Agreed) =>
           /\ world[c].state.type \in Agreed \cup Delivered \cup Closed
           /\ world[c].state.type = "Fulfilled" => TakenTo(c, "Fulfilled")
  BY <1>1 DEF FlowReaches
<1>4. CASE world'[c] = world[c]
  BY <1>1, <1>2, <1>3, <1>4
<1>5. CASE /\ world'[c].state.type \in CommitmentTransitions[world[c].state.type]
           /\ world'[c].state.type = "Fulfilled" => TakenTo(c, "Fulfilled")'
  <2>1. /\ world[c].state.type \notin Closed
        /\ world[c].state.type \in Delivered => world'[c].state.type \in Delivered \cup Closed
        /\ world[c].state.type \in Agreed \cup Delivered
             => world'[c].state.type \in Agreed \cup Delivered \cup Closed
    BY <1>2, <1>5, TransitionsLead
  <2>2. QED
    BY <1>2, <1>3, <1>5, <2>1
<1>6. QED
  BY <1>4, <1>5

LEMMA ForwardReaches ==
  ASSUME SagaType, FlowReaches, NEW a \in Requests, NEW at \in Times, Forward(a, at)
  PROVE  FlowReaches'
<1>1. Propose(a, None, at) /\ Proposable(a)
  BY RequestType DEF Forward
<1>2. CASE world' = world /\ forward' = forward
  BY <1>2 DEF FlowReaches, TakenTo, ByDefault
<1>3. ASSUME NEW k \in DOMAIN forward', DOMAIN forward' = DOMAIN forward \cup {k},
             forward'[k] = ForwardStep(a), world' # world
      PROVE  FlowReaches'
  <2>1. /\ a.commitment \in Commitments /\ world'[a.commitment].state = a.to
        /\ a.to.type \in CommitmentTransitions[world[a.commitment].state.type]
        /\ \A d \in Commitments \ {a.commitment} : world'[d] = world[d]
    BY <1>1, <1>3, ProposalMoves DEF SagaType
  <2>2. forward'[k].commitment = a.commitment /\ forward'[k].to = a.to
    BY <1>3 DEF ForwardStep
  <2>3. a.to.type = "Fulfilled" => TakenTo(a.commitment, "Fulfilled")'
    BY <2>2 DEF TakenTo
  <2>4. \A i \in DOMAIN forward : i \in DOMAIN forward' /\ forward'[i] = forward[i]
    BY ForwardGrows
  <2> SUFFICES ASSUME NEW i \in DOMAIN forward', NEW c, c = forward'[i].commitment
               PROVE  /\ c \in Commitments
                      /\ ByDefault(c)' =>
                           /\ forward'[i].to.type = "Fulfilled"
                                => world'[c].state.type \in Delivered \cup Closed
                           /\ (forward'[i].to.type \in Agreed) =>
                                /\ world'[c].state.type \in Agreed \cup Delivered \cup Closed
                                /\ world'[c].state.type = "Fulfilled" => TakenTo(c, "Fulfilled")'
    BY DEF FlowReaches, ByDefault, TakenTo
  <2>5. CASE i = k
    BY <2>1, <2>2, <2>3, <2>5 DEF Agreed, Delivered
  <2>6. CASE i \in DOMAIN forward
    <3>1. c = forward[i].commitment /\ c \in Commitments
      BY <2>4, <2>6 DEF FlowReaches
    <3>2. \/ world'[c] = world[c]
          \/ /\ world'[c].state.type \in CommitmentTransitions[world[c].state.type]
             /\ world'[c].state.type = "Fulfilled" => TakenTo(c, "Fulfilled")'
      BY <2>1, <2>3, <3>1
    <3>3. QED
      BY <2>4, <2>6, <3>1, <3>2, ReachKept
  <2>7. QED
    BY <1>3, <2>5, <2>6
<1>4. world' = world => forward' = forward
  BY DEF Forward
<1>5. QED
  BY <1>2, <1>3, <1>4, ForwardGrows

\* A step of a plan moves the commitment of its forward step, and if that reverses by
\* default, closes it.
LEMMA RunStepMoves ==
  ASSUME FlowInv, NEW at \in Times, RunStep(at), UNCHANGED forward,
         NEW f, f = plan[step].forward, NEW a, a = plan[step].action
  PROVE  /\ Propose(a, None, at) /\ Proposable(a) /\ a # NoAction
         /\ a.commitment = f.commitment /\ f \in ForwardSteps
         /\ ActionKey(a) = <<"key", <<"comp", f.commitment, a.to.type>>>> \/ None \in CompensationKeys
         /\ Undoes(f, a)
         /\ ByDefault(f.commitment) =>
              /\ f.override = None
              /\ a.to.type \in Closed
<1>1. step \in DOMAIN plan /\ a # NoAction /\ Propose(a, None, at)
  BY DEF RunStep, Unwinding
<1>2. Undoes(f, a) /\ \E i \in DOMAIN forward : forward[i] = f
  BY <1>1 DEF FlowInv, PlanUndoes
<1>3. f \in ForwardSteps /\ Proposable(a)
  BY <1>1, PlannedType DEF FlowInv
<1>4. PICK to \in States : a = Compensating(f, to)
  BY <1>2 DEF Undoes
<1>5. a.commitment = f.commitment /\ a.key = <<"comp", f.commitment, a.to.type>> /\ a.to = to
  BY <1>4 DEF Compensating
<1>6. a.key \in CompensationKeys
  BY <1>3, <1>5 DEF CompensationKeys, ForwardSteps, States
<1>7. ByDefault(f.commitment) => f.override = None
  BY <1>2 DEF ByDefault
<1>8. f.override = None => a.to.type \in Closed
  BY <1>2, <1>5 DEF Undoes, Compensating, Plain, Closed
<1>9. QED
  BY <1>1, <1>2, <1>3, <1>5, <1>6, <1>7, <1>8 DEF ActionKey

LEMMA RunStepReaches ==
  ASSUME FlowInv, NEW at \in Times, RunStep(at), UNCHANGED forward
  PROVE  FlowReaches'
<1> PICK f, a : f = plan[step].forward /\ a = plan[step].action
  OBVIOUS
<1>1. /\ Propose(a, None, at) /\ Proposable(a) /\ a.commitment = f.commitment
      /\ ByDefault(f.commitment) => a.to.type \in Closed
  BY RunStepMoves
<1>2. ASSUME NEW i \in DOMAIN forward, NEW c, c = forward[i].commitment
      PROVE  /\ c \in Commitments
             /\ ByDefault(c)' =>
                  /\ forward'[i].to.type = "Fulfilled"
                       => world'[c].state.type \in Delivered \cup Closed
                  /\ (forward'[i].to.type \in Agreed) =>
                       /\ world'[c].state.type \in Agreed \cup Delivered \cup Closed
                       /\ world'[c].state.type = "Fulfilled" => TakenTo(c, "Fulfilled")'
  <2>1. c \in Commitments
    BY <1>2 DEF FlowInv, FlowReaches
  <2>2. ASSUME ByDefault(c)'
        PROVE  \/ world'[c] = world[c]
               \/ /\ world'[c].state.type \in CommitmentTransitions[world[c].state.type]
                  /\ world'[c].state.type # "Fulfilled"
    <3>1. ByDefault(c)
      BY <2>2 DEF ByDefault
    <3>2. QED
      BY <1>1, <2>1, <3>1, ProposalMoves DEF FlowInv, SagaType, Closed
  <2>3. QED
    BY <1>2, <2>1, <2>2, ReachKept DEF FlowInv
<1>3. QED
  BY <1>2 DEF FlowReaches, ByDefault, TakenTo

\* What is closed stays as it is.
LEMMA ClosedStays ==
  ASSUME Typed, NEW a, Proposable(a), NEW at \in Times, Propose(a, None, at),
         NEW c \in Commitments, world[c].state.type \in Closed
  PROVE  world'[c] = world[c]
<1>1. world[c].state.type \in StateTypes
  BY DEF Typed, Commitment, States
<1>2. world[c].state.type \notin Delivered \cup Agreed /\ CommitmentTransitions[world[c].state.type] = {}
  BY <1>1, TransitionsLead DEF Closed, Delivered, Agreed
<1>3. QED
  BY <1>2, ProposalMoves

LEMMA ForwardTells ==
  ASSUME CompensationKeysApart, FlowInv, NEW a \in Requests, NEW at \in Times, Forward(a, at)
  PROVE  KeysTell'
<1> SUFFICES ASSUME NEW c \in Commitments, NEW t \in StateTypes, ByDefault(c)',
                    <<"key", <<"comp", c, t>>>> \in applied'
             PROVE  world'[c].state.type \in Closed
  BY DEF KeysTell, ByDefault
<1> DEFINE k == <<"comp", c, t>>
<1>1. Propose(a, None, at) /\ Proposable(a) /\ Typed
  BY RequestType DEF Forward, FlowInv, SagaType
<1>2. ByDefault(c)
  BY ForwardGrows DEF ByDefault, FlowInv
<1>3. ActionKey(a) # <<"key", k>>
  <2>1. a.key = None \/ a.key \in Keys
    BY DEF Keys
  <2>2. k \in CompensationKeys
    BY CommitmentsAssumption DEF CompensationKeys
  <2> HIDE DEF k
  <2>3. a.key # k
    BY <2>1, <2>2 DEF CompensationKeysApart
  <2>4. QED
    BY <2>3 DEF ActionKey
<1>4. <<"key", k>> \in applied
  BY <1>1, <1>3, ProposalMoves
<1>5. world[c].state.type \in Closed
  BY <1>2, <1>4 DEF FlowInv, KeysTell
<1>6. QED
  BY <1>1, <1>5, ClosedStays

\* What a running plan's next step does to what is known of c.
LEMMA RunStepTells ==
  ASSUME CompensationKeysApart, FlowInv, NEW at \in Times, RunStep(at), UNCHANGED forward,
         NEW c \in Commitments, ByDefault(c)
  PROVE  /\ world[c].state.type \in Closed => world'[c].state.type \in Closed
         /\ \A t \in StateTypes :
              <<"key", <<"comp", c, t>>>> \in applied' => world'[c].state.type \in Closed
         /\ plan[step].forward.commitment = c /\ phase' = "unwinding"
              => world'[c].state.type \in Closed
<1> PICK f, a : f = plan[step].forward /\ a = plan[step].action
  OBVIOUS
<1>1. /\ Propose(a, None, at) /\ Proposable(a) /\ a.commitment = f.commitment /\ f \in ForwardSteps
      /\ ActionKey(a) = <<"key", <<"comp", f.commitment, a.to.type>>>>
      /\ Undoes(f, a) /\ (f.commitment = c => f.override = None)
  BY RunStepMoves DEF CompensationKeysApart
<1>2. Typed
  BY DEF FlowInv, SagaType
<1>3. world[c].state.type \in Closed => world'[c].state.type \in Closed
  BY <1>1, <1>2, ClosedStays
<1>4. f.commitment = c =>
        /\ ActionKey(a) \in applied' \ applied => world'[c].state.type \in Closed
        /\ Accepted(a, None, at) => world'[c].state.type \in Closed
  BY <1>1, <1>2, DefaultCloses
<1>5. applied' \subseteq applied \cup {ActionKey(a)}
  BY <1>1, <1>2, ProposalMoves
<1>6. ASSUME NEW t \in StateTypes, <<"key", <<"comp", c, t>>>> \in applied'
      PROVE  world'[c].state.type \in Closed
  <2>1. CASE <<"key", <<"comp", c, t>>>> \in applied
    BY <1>3, <2>1 DEF FlowInv, KeysTell
  <2>2. CASE <<"key", <<"comp", c, t>>>> = ActionKey(a) /\ ActionKey(a) \notin applied
    <3>1. f.commitment = c
      BY <1>1, <2>2
    <3>2. QED
      BY <1>4, <1>6, <2>2, <3>1
  <2>3. QED
    BY <1>5, <1>6, <2>1, <2>2
<1>7. ASSUME f.commitment = c, phase' = "unwinding" PROVE world'[c].state.type \in Closed
  <2>1. IsReplay(a) \/ Accepted(a, None, at)
    BY <1>7 DEF RunStep, Verdict
  <2>2. CASE IsReplay(a)
    <3>1. <<"key", <<"comp", c, a.to.type>>>> \in applied /\ a.to.type \in StateTypes
      BY <1>1, <1>7, <2>2 DEF IsReplay, Proposable, States
    <3>2. QED
      BY <1>3, <3>1 DEF FlowInv, KeysTell
  <2>3. QED
    BY <1>4, <1>7, <2>1, <2>2
<1>8. QED
  BY <1>3, <1>6, <1>7

\* A default compensation of what can be reversed now is not the absence of one.
LEMMA Reversible ==
  ASSUME NEW f \in ForwardSteps, f.override = None, f.commitment \in Commitments,
         Committed[f.commitment] # NoMoney,
         \/ f.to.type = "Fulfilled" /\ Legal(f, "Refunded")
         \/ f.to.type \in Agreed /\ Legal(f, "Cancelled")
  PROVE  CompensationOf(f) # NoAction
<1>1. \A to \in States : Compensating(f, to) # NoAction
  <2> SUFFICES ASSUME NEW to \in States PROVE Compensating(f, to) \in Actions(CompensationKeys)
    BY NoActionAssumption
  <2>1. <<"comp", f.commitment, to.type>> \in CompensationKeys
    BY DEF CompensationKeys, ForwardSteps, States
  <2>2. QED
    BY <2>1 DEF Compensating, Actions, ForwardSteps
<1>2. /\ Plain("Cancelled") \in States
      /\ [type |-> "Refunded", amount |-> Committed[f.commitment]] \in States
  <2>1. Plain("Cancelled") \in States
    BY PlainIsState DEF StateTypes, CommitmentTransitions
  <2>2. QED
    BY <2>1, MoneyAssumption DEF States, StateTypes, CommitmentTransitions
<1>3. CompensationOf(f) = DefaultCompensation(f)
  BY DEF CompensationOf
<1>4. CASE f.to.type = "Fulfilled" /\ Legal(f, "Refunded")
  BY <1>1, <1>2, <1>3, <1>4 DEF DefaultCompensation
<1>5. CASE f.to.type \in Agreed /\ Legal(f, "Cancelled")
  BY <1>1, <1>2, <1>3, <1>5 DEF DefaultCompensation, Agreed
<1>6. QED
  BY <1>4, <1>5

\* A plan made of the whole flow has a step for every commitment it has to close.
LEMMA StartLeaves ==
  ASSUME SagaType, FlowReaches, Start PROVE LeftToReverse'
<1>1. world' = world /\ forward' = forward /\ plan' = PlanCompensation(forward) /\ step' = 1
  BY DEF Start
<1> PICK n : n = Len(forward)
  OBVIOUS
<1>2. /\ n \in Nat /\ DOMAIN forward = 1..n /\ DOMAIN plan' = 1..n
      /\ \A j \in 1..n : /\ (n - j) + 1 \in 1..n
                         /\ plan'[j] = [forward |-> forward[(n - j) + 1],
                                        action  |-> CompensationOf(forward[(n - j) + 1])]
  BY <1>1, PlanIs
<1> SUFFICES ASSUME NEW c \in Commitments, ByDefault(c), Committed[c] # NoMoney, Taken(c),
                    world[c].state.type \notin Closed
             PROVE  \E j \in DOMAIN plan' :
                      j >= 1 /\ plan'[j].action # NoAction /\ plan'[j].forward.commitment = c
  BY <1>1 DEF LeftToReverse, ByDefault, Taken
<1> DEFINE s == world[c].state.type
<1>3. s \in StateTypes
  BY DEF SagaType, Typed, Commitment, States
<1>4. \A i \in DOMAIN forward : forward[i] \in ForwardSteps
  BY <1>2, ElementOfSeq DEF SagaType
<1>5. ASSUME NEW i \in DOMAIN forward, forward[i].commitment = c,
             CompensationOf(forward[i]) # NoAction
      PROVE  \E j \in DOMAIN plan' :
               j >= 1 /\ plan'[j].action # NoAction /\ plan'[j].forward.commitment = c
  <2> PICK j : j = (n - i) + 1
    OBVIOUS
  <2>1. j \in 1..n /\ (n - j) + 1 = i
    BY <1>2
  <2>2. plan'[j] = [forward |-> forward[i], action |-> CompensationOf(forward[i])]
    BY <1>2, <2>1
  <2>3. plan'[j].forward.commitment = c /\ plan'[j].action # NoAction
    BY <1>5, <2>2
  <2>4. j \in DOMAIN plan' /\ j >= 1
    BY <1>2, <2>1
  <2>5. QED
    BY <2>3, <2>4
<1>6. ASSUME NEW i \in DOMAIN forward, forward[i].commitment = c, forward[i].to.type = "Fulfilled"
      PROVE  CompensationOf(forward[i]) # NoAction
  <2>1. s \in Delivered
    BY <1>6 DEF FlowReaches
  <2>2. Legal(forward[i], "Refunded")
    BY <1>3, <1>6, <2>1, TransitionsLead DEF Legal
  <2>3. QED
    BY <1>4, <1>6, <2>2, Reversible DEF ByDefault
<1>7. ASSUME NEW i \in DOMAIN forward, forward[i].commitment = c, forward[i].to.type \in Agreed,
             ~TakenTo(c, "Fulfilled")
      PROVE  CompensationOf(forward[i]) # NoAction
  <2>1. s \in Agreed \cup {"Disputed"}
    BY <1>7 DEF FlowReaches, Delivered
  <2>2. Legal(forward[i], "Cancelled")
    BY <1>3, <1>7, <2>1, TransitionsLead DEF Legal
  <2>3. QED
    BY <1>4, <1>7, <2>2, Reversible DEF ByDefault
<1>8. CASE TakenTo(c, "Fulfilled")
  BY <1>5, <1>6, <1>8 DEF TakenTo
<1>9. CASE ~TakenTo(c, "Fulfilled")
  <2>1. PICK i \in DOMAIN forward : forward[i].commitment = c /\ forward[i].to.type \in Agreed
    BY <1>9 DEF Taken, TakenTo
  <2>2. QED
    BY <1>5, <1>7, <1>9, <2>1
<1>10. QED
  BY <1>8, <1>9

LEMMA StartUndoes ==
  ASSUME SagaType, Start PROVE PlanUndoes'
<1>1. forward' = forward /\ plan' = PlanCompensation(forward)
  BY DEF Start
<1> PICK n : n = Len(forward)
  OBVIOUS
<1>2. /\ DOMAIN forward = 1..n /\ DOMAIN plan' = 1..n
      /\ \A j \in 1..n : /\ (n - j) + 1 \in 1..n
                         /\ plan'[j] = [forward |-> forward[(n - j) + 1],
                                        action  |-> CompensationOf(forward[(n - j) + 1])]
  BY <1>1, PlanIs
<1> SUFFICES ASSUME NEW j \in 1..n
             PROVE  /\ \E i \in DOMAIN forward : forward[i] = plan'[j].forward
                    /\ plan'[j].action # NoAction => Undoes(plan'[j].forward, plan'[j].action)
  BY <1>1, <1>2 DEF PlanUndoes
<1> PICK f : f = forward[(n - j) + 1]
  OBVIOUS
<1>3. plan'[j].forward = f /\ plan'[j].action = CompensationOf(f)
  BY <1>2
<1>4. f \in ForwardSteps
  BY <1>2, ElementOfSeq DEF SagaType
<1>5. CompensationOf(f) # NoAction => Undoes(f, CompensationOf(f))
  <2>1. CASE f.override # None
    BY <1>4, <2>1, CompensationType DEF Undoes
  <2>2. CASE f.override = None /\ f.commitment \in Commitments
    <3>1. CompensationOf(f) = DefaultCompensation(f)
      BY <2>2 DEF CompensationOf
    <3>2. Plain("Cancelled") \in States
      BY PlainIsState DEF StateTypes, CommitmentTransitions
    <3>3. Committed[f.commitment] # NoMoney
            => [type |-> "Refunded", amount |-> Committed[f.commitment]] \in States
      BY <2>2, MoneyAssumption DEF States, StateTypes, CommitmentTransitions
    <3>4. QED
      BY <3>1, <3>2, <3>3 DEF DefaultCompensation, Undoes
  <2>3. CASE f.commitment \notin Commitments
    BY <2>3 DEF CompensationOf
  <2>4. QED
    BY <2>1, <2>2, <2>3
<1>6. QED
  BY <1>2, <1>3, <1>5

\* The next step of a plan closes its commitment, or was nothing to reverse.
LEMMA RunStepLeaves ==
  ASSUME CompensationKeysApart, FlowInv, NEW at \in Times, RunStep(at),
         UNCHANGED <<forward, plan>>
  PROVE  LeftToReverse'
<1> SUFFICES ASSUME phase' = "unwinding", NEW c \in Commitments, ByDefault(c),
                    Committed[c] # NoMoney, Taken(c)
             PROVE  \/ world'[c].state.type \in Closed
                    \/ \E j \in DOMAIN plan :
                         j >= step' /\ plan[j].action # NoAction /\ plan[j].forward.commitment = c
  BY DEF LeftToReverse, ByDefault, Taken
<1>1. phase = "unwinding" /\ step' = step + 1 /\ step \in Nat
  BY DEF RunStep, Unwinding, Verdict, FlowInv, SagaType
<1>2. CASE world[c].state.type \in Closed
  BY <1>2, RunStepTells
<1>3. CASE world[c].state.type \notin Closed
  <2>1. PICK j \in DOMAIN plan :
               j >= step /\ plan[j].action # NoAction /\ plan[j].forward.commitment = c
    BY <1>1, <1>3 DEF FlowInv, LeftToReverse
  <2>2. CASE j = step
    BY <2>1, <2>2, RunStepTells
  <2>3. CASE j # step
    <3>1. j \in Nat
      BY PlannedType DEF FlowInv
    <3>2. j >= step'
      BY <1>1, <2>1, <2>3, <3>1
    <3>3. QED
      BY <2>1, <3>2
  <2>4. QED
    BY <2>2, <2>3
<1>4. QED
  BY <1>2, <1>3

LEMMA NextFlow ==
  ASSUME CompensationKeysApart, FlowInv, [PortSagasNext]_portSagasVars PROVE FlowInv'
<1>1. SagaType'
  BY NextSagaType DEF FlowInv
<1>2. CASE UNCHANGED <<vars, forward, phase, plan, step>>
  BY <1>1, <1>2 DEF FlowInv, FlowReaches, KeysTell, LeftToReverse, PlanUndoes,
                    UnwoundMeansReversed, ByDefault, Taken, TakenTo, vars
<1>3. ASSUME NEW a \in Requests, NEW at \in Times, ForwardAll(a, at) PROVE FlowInv'
  <2>1. Forward(a, at) /\ phase' = "forward" /\ plan' = <<>>
    BY <1>3 DEF ForwardAll, Forward
  <2>2. FlowReaches' /\ KeysTell'
    BY <2>1, ForwardReaches, ForwardTells DEF FlowInv
  <2>3. LeftToReverse' /\ PlanUndoes' /\ UnwoundMeansReversed'
    BY <2>1 DEF LeftToReverse, PlanUndoes, UnwoundMeansReversed
  <2>4. QED
    BY <1>1, <2>2, <2>3 DEF FlowInv
<1>4. ASSUME Start, applied' \subseteq applied PROVE FlowInv'
  <2>1. world' = world /\ forward' = forward /\ phase' = "unwinding"
    BY <1>4 DEF Start
  <2>2. FlowReaches' /\ KeysTell' /\ UnwoundMeansReversed'
    BY <1>4, <2>1 DEF FlowInv, FlowReaches, KeysTell, UnwoundMeansReversed, ByDefault, TakenTo
  <2>3. LeftToReverse' /\ PlanUndoes'
    BY <1>4, StartLeaves, StartUndoes DEF FlowInv
  <2>4. QED
    BY <1>1, <2>2, <2>3 DEF FlowInv
<1>5. CASE CompensateSession \/ Compensate
  BY <1>4, <1>5 DEF CompensateSession, Compensate
<1>6. ASSUME NEW at \in Times, RunStep(at), UNCHANGED <<forward, plan>> PROVE FlowInv'
  <2>1. FlowReaches' /\ LeftToReverse'
    BY <1>6, RunStepReaches, RunStepLeaves
  <2>2. KeysTell'
    BY <1>6, RunStepTells DEF KeysTell, ByDefault
  <2>3. PlanUndoes'
    BY <1>6 DEF FlowInv, PlanUndoes
  <2>4. phase' # "unwound"
    BY <1>6 DEF RunStep, Unwinding, Verdict
  <2>5. QED
    BY <1>1, <2>1, <2>2, <2>3, <2>4 DEF FlowInv, UnwoundMeansReversed
<1>7. CASE SkipStep /\ UNCHANGED <<forward, plan>>
  <2>1. /\ UNCHANGED vars /\ phase = "unwinding" /\ phase' = phase
        /\ step' = step + 1 /\ plan[step].action = NoAction /\ step \in Nat
    BY <1>7 DEF SkipStep, Unwinding, FlowInv, SagaType
  <2>2. FlowReaches' /\ KeysTell' /\ PlanUndoes' /\ UnwoundMeansReversed'
    BY <1>7, <2>1 DEF FlowInv, FlowReaches, KeysTell, PlanUndoes, UnwoundMeansReversed,
                      ByDefault, TakenTo, vars
  <2>3. \A j \in DOMAIN plan : j >= step /\ plan[j].action # NoAction => j >= step'
    BY <2>1, PlannedType DEF FlowInv
  <2>4. LeftToReverse'
    BY <1>7, <2>1, <2>3 DEF FlowInv, LeftToReverse, ByDefault, Taken, vars
  <2>5. QED
    BY <1>1, <2>2, <2>4 DEF FlowInv
<1>8. CASE Finish /\ UNCHANGED <<forward, plan>>
  <2>1. UNCHANGED vars /\ phase = "unwinding" /\ phase' = "unwound" /\ step > Len(plan)
    BY <1>8 DEF Finish
  <2>2. FlowReaches' /\ KeysTell' /\ PlanUndoes' /\ LeftToReverse'
    BY <1>8, <2>1 DEF FlowInv, FlowReaches, KeysTell, PlanUndoes, LeftToReverse,
                      ByDefault, TakenTo, vars
  <2>3. \A j \in DOMAIN plan : ~(j >= step)
    BY <2>1, PlannedType DEF FlowInv, SagaType
  <2>4. \A c \in Commitments : ByDefault(c) /\ Committed[c] # NoMoney /\ Taken(c)
                                 => world[c].state.type \in Closed
    BY <2>1, <2>3 DEF FlowInv, LeftToReverse
  <2>5. UnwoundMeansReversed'
    BY <1>8, <2>1, <2>4 DEF UnwoundMeansReversed, FlowInv, FlowReaches, Taken, Agreed, Closed,
                            ByDefault, vars
  <2>6. QED
    BY <1>1, <2>2, <2>5 DEF FlowInv
<1>9. QED
  BY <1>2, <1>3, <1>5, <1>6, <1>7, <1>8
  DEF PortSagasNext, CompensateAll, Unwind, ValidateCompensation, portSagasVars, sagaVars

LEMMA InitFlow == PortSagasInit => FlowInv
<1> SUFFICES ASSUME PortSagasInit PROVE FlowInv
  OBVIOUS
<1>1. DOMAIN forward = {} /\ DOMAIN plan = {}
  BY EmptySeq, LenProperties DEF PortSagasInit, SagaInit
<1>2. applied = {} /\ phase = "forward"
  BY DEF PortSagasInit, SagaInit, Init
<1>3. QED
  BY <1>1, <1>2, InitSagaType DEF FlowInv, FlowReaches, KeysTell, LeftToReverse, PlanUndoes,
                                  UnwoundMeansReversed

\* When the host is told a flow was unwound, it was, whatever was retried, disputed or
\* refunded in between, as long as nobody uses the keys of compensations.
THEOREM UnwoundIsReversed ==
  ASSUME CompensationKeysApart PROVE PortSagasSpec => []UnwoundMeansReversed
<1>1. FlowInv /\ [PortSagasNext]_portSagasVars => FlowInv'
  BY NextFlow
<1>2. FlowInv => UnwoundMeansReversed
  BY DEF FlowInv
<1>3. QED
  BY <1>1, <1>2, InitFlow, PTL DEF PortSagasSpec

-----------------------------------------------------------------------------
(* Saga: what stops a compensation.  The plan is made of moves that were legal in  *)
(* one snapshot; nothing but the plan's own earlier steps moves a commitment until *)
(* its turn comes, and a world that passed the audit passes it again after the     *)
(* move, so only money, the clock or an override can stand in the way.             *)

\* While a plan runs, a default step is still legal, or an earlier step of the plan
\* took its commitment somewhere else.
StillLegal ==
  phase = "unwinding" =>
    /\ forward # <<>>
    /\ \A j \in DOMAIN plan :
         LET f == plan[j].forward
         IN plan[j].action # NoAction /\ j >= step =>
              /\ f.commitment \in Commitments
              /\ f.override = None =>
                   \/ Legal(f, plan[j].action.to.type)
                   \/ \E k \in 1..(step - 1) : /\ plan[k].action # NoAction
                                               /\ plan[k].forward.commitment = f.commitment

\* The session's ledger shows no more than was paid back, and its tree tally shows
\* nothing where nothing was.
NothingFromNothing ==
  /\ \A c \in Commitments :
       Committed[c] # NoMoney => ledger[c] <= paid[c][Committed[c].currency]
  /\ \A r \in Commitments :
       treeLedger[r] # NoMoney /\ treeLedger[r].amount > 0 =>
         \E c \in Commitments : \E m \in Currencies : TreeRoot[c] = r /\ paid[c][m] > 0

\* The flow's first move was audited, and so was every move after it.
AuditedSinceMoved == forward # <<>> => AuditClean(world, Fulfillments)

StopInv ==
  /\ SagaType /\ TallyCurrency /\ NothingFromNothing /\ AuditedSinceMoved
  /\ PlanUndoes /\ StillLegal /\ FailsOnlyWhenOvertaken

\* A commitment's first acceptance and its stamp are what they were before it was
\* cancelled or refunded.
LEMMA ClosingKeepsAcceptance ==
  ASSUME NEW c \in Commitment, NEW to \in States, to.type \in Closed, NEW p \in Actors,
         NEW at \in Nat, NEW d, d = Transitioned(c, to, p, at)
  PROVE  /\ WasAccepted(d) <=> WasAccepted(c)
         /\ WasAccepted(c) => AcceptedAt(d) = AcceptedAt(c)
<1> DEFINE n == Len(c.history)
<1>1. /\ n \in Nat /\ DOMAIN c.history = 1..n
      /\ d \in Commitment /\ DOMAIN d.history = 1..(n + 1)
      /\ \A i \in 1..n : d.history[i] = c.history[i]
      /\ d.history[n + 1].to = to
  <2>1. d \in Commitment /\ Len(d.history) = n + 1 /\ c.history \in Seq(Entry)
    BY TransitionedType DEF Commitment
  <2>2. d.history \in Seq(Entry)
    BY <2>1 DEF Commitment
  <2>3. /\ \A i \in 1..n : d.history[i] = c.history[i]
        /\ d.history[n + 1] = [from |-> c.state, to |-> to, at |-> at, actor |-> p]
    BY TransitionedEntries
  <2>4. QED
    BY <2>1, <2>2, <2>3, LenProperties
<1>2. to.type # "Accepted"
  BY DEF Closed
<1> HIDE DEF n
<1>3. WasAccepted(d) <=> WasAccepted(c)
  BY <1>1, <1>2 DEF WasAccepted
<1>4. ASSUME WasAccepted(c) PROVE AcceptedAt(d) = AcceptedAt(c)
  <2>1. PICK i \in 1..n : FirstAccepted(c, i)
    <3> DEFINE S == {i \in 1..n : c.history[i].to.type = "Accepted"}
    <3>1. S \in SUBSET Nat /\ S # {}
      BY <1>1, <1>4 DEF WasAccepted
    <3> HIDE DEF S
    <3>2. PICK i \in S : \A j \in S : i <= j
      BY <3>1, LeastNatural
    <3>3. i \in 1..n /\ c.history[i].to.type = "Accepted"
      BY <3>2 DEF S
    <3>4. ASSUME NEW j \in 1..(i - 1) PROVE c.history[j].to.type # "Accepted"
      BY <1>1, <3>2, <3>3 DEF S
    <3>5. QED
      BY <1>1, <3>3, <3>4 DEF FirstAccepted
  <2>2. FirstAccepted(d, i)
    BY <1>1, <2>1 DEF FirstAccepted
  <2>3. i \in 1..n /\ d.history[i] = c.history[i]
    BY <1>1, <2>1
  <2>4. AcceptedAt(c) = c.history[i].at
    BY <2>1, FirstIsChosen
  <2>5. AcceptedAt(d) = d.history[i].at
    BY <1>1, <2>2, FirstIsChosen
  <2>6. QED
    BY <2>3, <2>4, <2>5
<1>5. QED
  BY <1>3, <1>4

\* Cancelling, or refunding exactly what was committed, never makes an audited world
\* fail the audit, whatever the fulfillments and the other commitments are.
LEMMA ClosingKeepsAudit ==
  ASSUME Typed, AuditClean(world, Fulfillments),
         NEW a, Proposable(a), a.commitment \in Commitments,
         NEW at \in Times, TransitionOk(world[a.commitment], a.to, at),
         \/ a.to.type = "Cancelled"
         \/ /\ a.to.type = "Refunded" /\ Committed[a.commitment] # NoMoney
            /\ a.to.amount = Committed[a.commitment]
  PROVE  AuditClean(MoveIn(world, a, at), Fulfillments)
<1> PICK c : c = a.commitment
  OBVIOUS
<1> PICK d : d = Transitioned(world[c], a.to, a.actor, at)
  OBVIOUS
<1> PICK w : w = MoveIn(world, a, at)
  OBVIOUS
<1>1. /\ c \in Commitments /\ world[c] \in Commitment /\ world \in [Commitments -> Commitment]
      /\ a.to \in States /\ a.to.type \in Closed /\ a.actor \in Actors /\ at \in Nat
  BY RequestsAssumption DEF Typed, Proposable, Closed
<1>2. /\ DOMAIN w = Commitments /\ w[c] = d
      /\ \A x \in Commitments \ {c} : w[x] = world[x]
  BY <1>1 DEF MoveIn
<1>3. d.state = a.to /\ a.to.type \in CommitmentTransitions[world[c].state.type]
  BY <1>1 DEF Transitioned, TransitionOk, IsValidCommitmentTransition
<1>4. CheckI1(w)
  <2>1. CheckI1(world)
    BY DEF AuditClean
  <2>2. a.to.type = "Refunded" => ~ExceedsCommitted(c, a.to.amount.amount, a.to.amount.currency)
    BY <1>1, MoneyAssumption DEF ExceedsCommitted, Money
  <2>3. QED
    BY <1>1, <1>2, <1>3, <2>1, <2>2 DEF CheckI1
<1>5. CheckI2(d)
  <2> DEFINE n == Len(world[c].history)
             h == world[c].history
  <2>1. /\ n \in Nat /\ DOMAIN h = 1..n
        /\ DOMAIN d.history = 1..(n + 1) /\ Len(d.history) = n + 1
        /\ \A i \in 1..n : d.history[i] = h[i]
        /\ d.history[n + 1] = [from |-> world[c].state, to |-> a.to, at |-> at, actor |-> a.actor]
    BY <1>1, TransitionedType, TransitionedEntries, LenProperties DEF Commitment
  <2>2. CheckI2(world[c])
    BY <1>1 DEF AuditClean
  <2>3. n > 0 => at >= h[n].at
    BY <1>1, <2>1, EmptySeq DEF TransitionOk, LastAt
  <2> HIDE DEF n, h
  <2>4. \A i \in 1..n : IsValidCommitmentTransition(h[i].from, h[i].to)
    BY <2>1, <2>2 DEF CheckI2, h
  <2>5. \A i \in 2..n : h[i].at >= h[i - 1].at
    BY <2>1, <2>2 DEF CheckI2, h, n
  <2>6. \A i \in 1..(n + 1) : IsValidCommitmentTransition(d.history[i].from, d.history[i].to)
    BY <1>3, <2>1, <2>4 DEF IsValidCommitmentTransition
  <2>7. ASSUME NEW i \in 2..(n + 1) PROVE d.history[i].at >= d.history[i - 1].at
    <3>1. i - 1 \in 1..n /\ d.history[i - 1] = h[i - 1]
      BY <2>1
    <3>2. CASE i = n + 1
      <4>1. d.history[i].at = at /\ i - 1 = n /\ n > 0
        BY <2>1, <3>2
      <4>2. QED
        BY <2>3, <3>1, <4>1
    <3>3. CASE i # n + 1
      <4>1. i \in 2..n /\ i \in 1..n
        BY <2>1, <3>3
      <4>2. d.history[i] = h[i] /\ h[i].at >= h[i - 1].at
        BY <2>1, <2>5, <4>1
      <4>3. QED
        BY <3>1, <4>2
    <3>4. QED
      BY <3>2, <3>3
  <2>8. QED
    BY <2>1, <2>6, <2>7 DEF CheckI2
<1>6. /\ WasAccepted(d) <=> WasAccepted(world[c])
      /\ WasAccepted(world[c]) => AcceptedAt(d) = AcceptedAt(world[c])
  BY <1>1, ClosingKeepsAcceptance
<1>7. CheckI3(c, d)
  <2>1. CheckI3(c, world[c])
    BY <1>1 DEF AuditClean
  <2>2. a.to.type = "Refunded" => world[c].state.type \in AcceptedOrLater
    <3>1. world[c].state.type \in StateTypes
      BY <1>1 DEF Commitment, States
    <3>2. QED
      BY <1>3, <3>1 DEF StateTypes, CommitmentTransitions, AcceptedOrLater
  <2>3. a.to.type \in AcceptedOrLater => a.to.type = "Refunded"
    BY <1>1 DEF Closed, AcceptedOrLater
  <2>4. QED
    BY <1>3, <1>6, <2>1, <2>2, <2>3 DEF CheckI3
<1>8. CheckI4(c, d, Fulfillments)
  <2>1. CheckI4(c, world[c], Fulfillments)
    BY <1>1 DEF AuditClean
  <2>2. QED
    BY <1>6, <2>1 DEF CheckI4
<1>9. ASSUME NEW x \in Commitments
      PROVE  CheckI2(w[x]) /\ CheckI3(x, w[x]) /\ CheckI4(x, w[x], Fulfillments) /\ CheckI6(x)
  <2>1. CheckI2(world[x]) /\ CheckI3(x, world[x]) /\ CheckI4(x, world[x], Fulfillments) /\ CheckI6(x)
    BY <1>1 DEF AuditClean
  <2>2. CASE x = c
    BY <1>2, <1>5, <1>7, <1>8, <2>1, <2>2
  <2>3. CASE x # c
    BY <1>2, <2>1, <2>3
  <2>4. QED
    BY <2>2, <2>3
<1>10. QED
  BY <1>2, <1>4, <1>9 DEF AuditClean

\* What was paid back is never taken back.
LEMMA PaidGrows ==
  ASSUME Typed, NEW a, Proposable(a), NEW expected, NEW at \in Times, Propose(a, expected, at)
  PROVE  \A c \in Commitments, m \in Currencies : paid'[c][m] >= paid[c][m]
<1>1. CASE paid' = paid
  BY <1>1 DEF Typed
<1>2. CASE PayBack(a) /\ a.commitment \in Commitments /\ a.to.amount \in Money
  <2>1. a.to.amount.amount \in Nat /\ a.to.amount.currency \in Currencies
    BY <1>2 DEF Money
  <2>2. QED
    BY <1>2, <2>1 DEF PayBack, Typed
<1>3. PayBack(a) => (a.commitment \in Commitments /\ a.to.amount \in Money) \/ paid' = paid
  BY TrackedType, MoveInType, ProposableType
  DEF Propose, Replay, Conflict, RefundInPart, RefundInFull, RefundThrows, Advance, Reject,
      Refundable, vars
<1>4. PayBack(a) \/ paid' = paid
  BY DEF Propose, Replay, Conflict, RefundInPart, RefundInFull, RefundThrows, Advance, Reject, vars
<1>5. QED
  BY <1>1, <1>2, <1>3, <1>4

\* A proposal that moves the world has its audit on the result.
LEMMA SagaMovesAudit ==
  ASSUME Typed, NEW a, Proposable(a), NEW expected, NEW at \in Times, Propose(a, expected, at)
  PROVE  world' = world \/ AuditClean(world', Fulfillments)
BY DEF Propose, Replay, Conflict, RefundInPart, RefundInFull, RefundThrows, Advance, Reject,
       Accepting, GuardAccepts, vars

\* Recording a refund and paying it back keeps the ledgers within what was paid.
LEMMA RecordKeepsNothing ==
  ASSUME Typed, NothingFromNothing, NEW a, Proposable(a), Tracked(a),
         RecordInLedger(a), RecordTree(a), PayBack(a)
  PROVE  NothingFromNothing'
<1> DEFINE id == a.commitment
           root == TreeRoot[id]
           m0 == a.to.amount.currency
           x == a.to.amount.amount
<1>1. /\ id \in Commitments /\ root \in Commitments /\ m0 \in Currencies /\ x \in Nat
      /\ Committed[id] # NoMoney /\ Committed[id].currency = m0
  BY TrackedType, RootType, MoneyAssumption
<1>2. /\ paid'[id][m0] = paid[id][m0] + x
      /\ \A c \in Commitments, m \in Currencies : c # id \/ m # m0 => paid'[c][m] = paid[c][m]
  BY <1>1 DEF PayBack, Typed
<1>3. /\ ledger'[id] = ledger[id] + x
      /\ \A c \in Commitments \ {id} : ledger'[c] = ledger[c]
  BY <1>1 DEF RecordInLedger, Cumulative, Typed
<1>4. \A c \in Commitments : ledger[c] \in Nat /\ \A m \in Currencies : paid[c][m] \in Nat
  BY DEF Typed
<1> HIDE DEF id, root, m0, x
<1>5. ASSUME NEW c \in Commitments, Committed[c] # NoMoney
      PROVE  ledger'[c] <= paid'[c][Committed[c].currency]
  <2>1. ledger[c] <= paid[c][Committed[c].currency] /\ Committed[c].currency \in Currencies
    BY <1>5, MoneyAssumption DEF NothingFromNothing, Money
  <2>2. CASE c = id
    BY <1>1, <1>2, <1>3, <1>4, <2>1, <2>2
  <2>3. CASE c # id
    BY <1>2, <1>3, <2>1, <2>3
  <2>4. QED
    BY <2>2, <2>3
<1>6. \A c \in Commitments, m \in Currencies : paid[c][m] > 0 => paid'[c][m] > 0
  BY <1>1, <1>2, <1>4
<1>7. ASSUME NEW r \in Commitments, treeLedger'[r] # NoMoney, treeLedger'[r].amount > 0
      PROVE  \E c \in Commitments : \E m \in Currencies : TreeRoot[c] = r /\ paid'[c][m] > 0
  <2>1. CASE treeLedger'[r] = treeLedger[r]
    <3>1. PICK c \in Commitments : \E m \in Currencies : TreeRoot[c] = r /\ paid[c][m] > 0
      BY <1>7, <2>1 DEF NothingFromNothing
    <3>2. QED
      BY <1>6, <3>1
  <2>2. CASE treeLedger'[r] # treeLedger[r]
    <3>1. r = root /\ treeLedger'[r].amount = TreeSoFar(r) + x
      BY <1>1, <2>2 DEF RecordTree, Typed, id, root, x
    <3>2. CASE x > 0
      <4>1. paid'[id][m0] > 0 /\ TreeRoot[id] = r
        BY <1>1, <1>2, <1>4, <3>1, <3>2 DEF root
      <4>2. QED
        BY <1>1, <4>1
    <3>3. CASE x = 0
      <4>1. treeLedger[r] # NoMoney /\ treeLedger[r].amount > 0
        <5>1. treeLedger[r] = NoMoney \/ treeLedger[r].amount \in Nat
          BY DEF Typed, Money
        <5>2. TreeSoFar(r) \in Nat
          BY <5>1 DEF TreeSoFar
        <5>3. TreeSoFar(r) > 0
          BY <1>7, <3>1, <3>3, <5>2
        <5>4. QED
          BY <5>3 DEF TreeSoFar
      <4>2. PICK c \in Commitments : \E m \in Currencies : TreeRoot[c] = r /\ paid[c][m] > 0
        BY <4>1 DEF NothingFromNothing
      <4>3. QED
        BY <1>6, <4>2
    <3>4. QED
      BY <1>1, <3>2, <3>3
  <2>3. QED
    BY <2>1, <2>2
<1>8. QED
  BY <1>5, <1>7 DEF NothingFromNothing

\* In trees of one currency no proposal makes a ledger show more than was paid back.
LEMMA ProposalKeepsNothing ==
  ASSUME UniformTrees, Typed, TallyCurrency, NothingFromNothing,
         NEW a, Proposable(a), NEW expected, NEW at \in Times, Propose(a, expected, at)
  PROVE  TallyCurrency' /\ NothingFromNothing'
<1>1. CASE RefundInPart(a, expected) \/ RefundInFull(a, expected, at)
  BY <1>1, RecordKeepsNothing, RecordTallyCurrency DEF RefundInPart, RefundInFull, Refundable
<1>2. CASE UNCHANGED <<ledger, treeLedger>>
  <2>1. /\ \A c \in Commitments, m \in Currencies : paid'[c][m] >= paid[c][m]
        /\ \A c \in Commitments : ledger[c] \in Nat /\ \A m \in Currencies : paid[c][m] \in Nat
    BY PaidGrows DEF Typed
  <2>2. paid' \in [Commitments -> [Currencies -> Nat]]
    <3>1. Typed'
      BY NextType DEF Proposes
    <3>2. QED
      BY <3>1 DEF Typed
  <2>3. \A c \in Commitments : Committed[c] # NoMoney => Committed[c].currency \in Currencies
    BY MoneyAssumption DEF Money
  <2>4. \A c \in Commitments, m \in Currencies : /\ paid[c][m] > 0 => paid'[c][m] > 0
                                                 /\ paid'[c][m] \in Nat
    BY <2>1, <2>2
  <2>5. \A c \in Commitments : Committed[c] # NoMoney => ledger'[c] <= paid'[c][Committed[c].currency]
    BY <1>2, <2>1, <2>3, <2>4 DEF NothingFromNothing
  <2>6. \A r \in Commitments :
          treeLedger'[r] # NoMoney /\ treeLedger'[r].amount > 0 =>
            \E c \in Commitments : \E m \in Currencies : TreeRoot[c] = r /\ paid'[c][m] > 0
    BY <1>2, <2>4 DEF NothingFromNothing
  <2>7. QED
    BY <1>2, <2>5, <2>6 DEF NothingFromNothing, TallyCurrency
<1>3. ~RefundThrows(a, expected, at)
  BY NoClash DEF RefundThrows, Refundable
<1>4. QED
  BY <1>1, <1>2, <1>3 DEF Propose, Replay, Conflict, Advance, Reject, vars

\* A default step that nothing overtook is accepted.
LEMMA DefaultIsAccepted ==
  ASSUME UniformTrees, PricesFit, StopInv, NEW at \in Times, RunStep(at),
         NEW f, f = plan[step].forward, NEW a, a = plan[step].action,
         f.override = None,
         \A k \in 1..(step - 1) :
           plan[k].action # NoAction => plan[k].forward.commitment # f.commitment,
         \A c \in TreeOf(TreeRoot[f.commitment]), m \in Currencies : ~(paid[c][m] > 0),
         at >= LastAt(world[f.commitment])
  PROVE  IsReplay(a) \/ Accepted(a, None, at)
<1>1. /\ step \in DOMAIN plan /\ phase = "unwinding" /\ a # NoAction
      /\ step \in Nat /\ SagaType /\ Typed
  BY DEF RunStep, Unwinding, StopInv, SagaType
<1>2. Undoes(f, a) /\ f \in ForwardSteps /\ Proposable(a) /\ f.commitment \in Commitments
  <2>1. Undoes(f, a)
    BY <1>1 DEF StopInv, PlanUndoes
  <2>2. step >= step
    BY <1>1
  <2>3. f.commitment \in Commitments
    BY <1>1, <2>2 DEF StopInv, StillLegal
  <2>4. QED
    BY <1>1, <2>1, <2>3, PlannedType
<1> PICK c : c = f.commitment
  OBVIOUS
<1>3. /\ a.commitment = c /\ c \in Commitments
      /\ \/ a.to = Plain("Cancelled")
         \/ Committed[c] # NoMoney /\ a.to = [type |-> "Refunded", amount |-> Committed[c]]
  BY <1>2 DEF Undoes, Compensating
<1>4. a.to.type \in CommitmentTransitions[world[c].state.type]
  <2>1. step >= step
    BY <1>1
  <2>2. Legal(f, a.to.type)
    BY <1>1, <2>1 DEF StopInv, StillLegal
  <2>3. QED
    BY <2>2 DEF Legal
<1>5. TransitionOk(world[c], a.to, at)
  BY <1>4 DEF TransitionOk, IsValidCommitmentTransition
<1>6. Accepting(a, None, at)
  <2>1. AuditClean(world, Fulfillments)
    BY <1>1 DEF StopInv, StillLegal, AuditedSinceMoved
  <2>2. \/ a.to.type = "Cancelled"
        \/ /\ a.to.type = "Refunded" /\ Committed[c] # NoMoney
           /\ a.to.amount = Committed[c]
    BY <1>3 DEF Plain
  <2>3. AuditClean(MoveIn(world, a, at), Fulfillments)
    BY <1>1, <1>2, <1>3, <1>5, <2>1, <2>2, ClosingKeepsAudit
  <2>4. QED
    BY <1>3, <1>5, <2>3 DEF Accepting, GuardAccepts, VersionConflict
<1>7. ~Conflicts(a, None)
  BY DEF Conflicts, VersionConflict
<1>8. CASE a.to = Plain("Cancelled")
  <2>1. ~Tracked(a)
    BY <1>8 DEF Tracked, Plain
  <2>2. QED
    BY <1>6, <1>7, <2>1 DEF Accepted, Fresh
<1>9. CASE Committed[c] # NoMoney /\ a.to = [type |-> "Refunded", amount |-> Committed[c]]
  <2>1. Tracked(a)
    BY <1>3, <1>4, <1>9 DEF Tracked, Known, IsValidCommitmentTransition
  <2>2. Committed[c] \in Money /\ Committed[c].amount \in Nat /\ Committed[c].currency \in Currencies
    BY <1>3, <1>9, MoneyAssumption DEF Money
  <2> DEFINE r == TreeRoot[c]
  <2>3. r \in Commitments /\ c \in TreeOf(r)
    BY <1>3, RootType DEF TreeOf
  <2>4. \A d \in Commitments, m \in Currencies : TreeRoot[d] = r => ~(paid[d][m] > 0)
    BY <2>3 DEF TreeOf
  <2>5. ledger[c] = 0
    <3>1. ledger[c] \in Nat /\ paid[c][Committed[c].currency] \in Nat
      BY <1>1, <1>3, <2>2 DEF Typed
    <3>2. ledger[c] <= paid[c][Committed[c].currency]
      BY <1>3, <1>9 DEF StopInv, NothingFromNothing
    <3>3. QED
      BY <1>3, <2>2, <2>4, <3>1, <3>2
  <2>6. Cumulative(a) = Committed[c].amount
    BY <1>3, <1>9, <2>2, <2>5 DEF Cumulative
  <2>7. WithinOrder(a)
    BY <1>3, <2>2, <2>6 DEF WithinOrder, ExceedsCommitted
  <2>8. TreeSoFar(r) = 0
    <3>1. CASE treeLedger[r] = NoMoney
      BY <3>1 DEF TreeSoFar
    <3>2. CASE treeLedger[r] # NoMoney
      <4>1. treeLedger[r].amount \in Nat
        BY <1>1, <2>3, <3>2 DEF Typed, Money
      <4>2. ~(treeLedger[r].amount > 0)
        BY <2>3, <2>4, <3>2 DEF StopInv, NothingFromNothing
      <4>3. QED
        BY <3>2, <4>1, <4>2 DEF TreeSoFar
    <3>3. QED
      BY <3>1, <3>2
  <2>9. WithinTree(a)
    <3> SUFFICES ASSUME IsInTree(c)
                 PROVE  /\ TreeConsistent(r, ChildrenByPointer(r))
                        /\ ~ExceedsCommitted(r, TreeSoFar(r) + a.to.amount.amount, a.to.amount.currency)
      BY <1>3 DEF WithinTree
    <3>1. /\ TreeConsistent(r, ChildrenByPointer(r))
          /\ ~ExceedsCommitted(r, Committed[c].amount, Committed[c].currency)
      BY <1>3, <1>9 DEF PricesFit
    <3>2. TreeSoFar(r) + a.to.amount.amount = Committed[c].amount
          /\ a.to.amount.currency = Committed[c].currency
      BY <1>9, <2>2, <2>8
    <3>3. QED
      BY <3>1, <3>2
  <2>10. SettlesInFull(a)
    BY <1>1, <1>2, <1>3, <1>9, <2>1, <2>7, WholeRefundSettles
  <2>11. ~TallyClashes(a)
    BY <1>1, <1>2, <2>1, NoClash DEF StopInv
  <2>12. QED
    BY <1>6, <1>7, <2>1, <2>7, <2>9, <2>11 DEF Accepted, Fresh, Refundable
<1>10. QED
  BY <1>3, <1>8, <1>9

\* A plan made now is made of moves that are legal now.
LEMMA StartIsLegal ==
  ASSUME SagaType, Start PROVE StillLegal'
<1>1. /\ world' = world /\ forward' = forward /\ forward # <<>>
      /\ plan' = PlanCompensation(forward) /\ step' = 1
  BY DEF Start
<1> PICK n : n = Len(forward)
  OBVIOUS
<1>2. /\ n \in Nat /\ DOMAIN forward = 1..n /\ DOMAIN plan' = 1..n
      /\ \A j \in 1..n : /\ (n - j) + 1 \in 1..n
                         /\ plan'[j] = [forward |-> forward[(n - j) + 1],
                                        action  |-> CompensationOf(forward[(n - j) + 1])]
  BY <1>1, PlanIs
<1>3. ASSUME NEW j \in 1..n, plan'[j].action # NoAction
      PROVE  LET f == plan'[j].forward
             IN /\ f.commitment \in Commitments
                /\ f.override = None => Legal(f, plan'[j].action.to.type)
  <2> PICK f : f = forward[(n - j) + 1]
    OBVIOUS
  <2>1. plan'[j].forward = f /\ plan'[j].action = CompensationOf(f) /\ CompensationOf(f) # NoAction
    BY <1>2, <1>3
  <2>2. f.commitment \in Commitments
    BY <2>1 DEF CompensationOf
  <2>3. f.override = None => Legal(f, CompensationOf(f).to.type)
    BY <2>1, <2>2 DEF CompensationOf, DefaultCompensation, Compensating, Plain
  <2>4. QED
    BY <2>1, <2>2, <2>3
<1>4. QED
  BY <1>1, <1>2, <1>3 DEF StillLegal, Legal

\* A step of the plan that moves a commitment is an earlier step for what is to come.
LEMMA StepKeepsLegal ==
  ASSUME SagaType, StillLegal, PlanUndoes, NEW at \in Times, RunStep(at),
         UNCHANGED <<forward, plan>>
  PROVE  StillLegal'
<1> SUFFICES ASSUME phase' = "unwinding", NEW j \in DOMAIN plan,
                    plan[j].action # NoAction, j >= step'
             PROVE  LET f == plan[j].forward
                    IN /\ f.commitment \in Commitments
                       /\ f.override = None =>
                            \/ Legal(f, plan[j].action.to.type)'
                            \/ \E k \in 1..(step' - 1) : /\ plan[k].action # NoAction
                                                         /\ plan[k].forward.commitment = f.commitment
  <2>1. phase = "unwinding"
    BY DEF RunStep, Unwinding
  <2>2. QED
    BY <2>1 DEF StillLegal, Legal
<1>1. /\ phase = "unwinding" /\ step' = step + 1 /\ step \in Nat /\ step >= 1
      /\ step \in DOMAIN plan /\ plan[step].action # NoAction
      /\ Propose(plan[step].action, None, at) /\ j \in Nat
  BY PlannedType DEF RunStep, Unwinding, Verdict, SagaType
<1> PICK f, g, a : f = plan[j].forward /\ g = plan[step].forward /\ a = plan[step].action
  OBVIOUS
<1>2. /\ f.commitment \in Commitments
      /\ f.override = None =>
           \/ Legal(f, plan[j].action.to.type)
           \/ \E k \in 1..(step - 1) : /\ plan[k].action # NoAction
                                       /\ plan[k].forward.commitment = f.commitment
  BY <1>1 DEF StillLegal
<1>3. a.commitment = g.commitment /\ Proposable(a)
  <2>1. Undoes(g, a)
    BY <1>1 DEF PlanUndoes
  <2>2. a.commitment = g.commitment
    BY <2>1 DEF Undoes, Compensating
  <2>3. QED
    BY <1>1, <2>2, PlannedType
<1>4. CASE f.commitment = g.commitment
  <2>1. step \in 1..(step' - 1)
    BY <1>1
  <2>2. QED
    BY <1>1, <1>2, <1>4, <2>1
<1>5. CASE f.commitment # g.commitment
  <2>1. world'[f.commitment] = world[f.commitment]
    BY <1>1, <1>2, <1>3, <1>5, ProposalMoves DEF SagaType
  <2>2. Legal(f, plan[j].action.to.type)' <=> Legal(f, plan[j].action.to.type)
    BY <2>1 DEF Legal
  <2>3. \A k \in 1..(step - 1) : k \in 1..(step' - 1)
    BY <1>1
  <2>4. QED
    BY <1>2, <2>2, <2>3
<1>6. QED
  BY <1>4, <1>5

\* A proposal of the plan that is neither a replay nor accepted changes nothing.
LEMMA RefusedLeaves ==
  ASSUME UniformTrees, Typed, TallyCurrency, NEW a, Proposable(a), NEW at \in Times,
         Propose(a, None, at), ~IsReplay(a), ~Accepted(a, None, at)
  PROVE  UNCHANGED vars
<1>1. ~RefundThrows(a, None, at)
  BY NoClash DEF RefundThrows, Refundable
<1>2. QED
  BY <1>1 DEF Propose, Replay, Conflict, RefundInPart, RefundInFull, Advance, Reject, Accepted,
              Refundable

LEMMA StepStopsRightly ==
  ASSUME UniformTrees, PricesFit, StopInv, NEW at \in Times, RunStep(at), UNCHANGED <<forward, plan>>
  PROVE  FailsOnlyWhenOvertaken'
<1> PICK f, a : f = plan[step].forward /\ a = plan[step].action
  OBVIOUS
<1>1. step \in DOMAIN plan /\ Propose(a, None, at) /\ Proposable(a) /\ Typed
  <2>1. SagaType /\ step \in DOMAIN plan /\ a # NoAction
    BY DEF StopInv, RunStep, Unwinding
  <2>2. QED
    BY <2>1, PlannedType DEF RunStep, SagaType
<1> SUFFICES ASSUME phase' = "failed",
                    f.override = None,
                    \A k \in 1..(step - 1) :
                      plan[k].action # NoAction => plan[k].forward.commitment # f.commitment,
                    \A c \in TreeOf(TreeRoot[f.commitment]), m \in Currencies : ~(paid'[c][m] > 0),
                    \A t \in Times : ~(t < LastAt(world'[f.commitment])),
                    step' = step
             PROVE  FALSE
  <2>1. phase' = "failed" => step' = step
    BY DEF RunStep, Verdict, Unwinding
  <2>2. QED
    BY <2>1 DEF FailsOnlyWhenOvertaken
<1>2. ~IsReplay(a) /\ ~Accepted(a, None, at)
  BY DEF RunStep, Verdict, Unwinding
<1>3. UNCHANGED vars
  BY <1>1, <1>2, RefusedLeaves DEF StopInv
<1>4. world' = world /\ paid' = paid
  BY <1>3 DEF vars
<1>5. at >= LastAt(world[f.commitment])
  <2>1. f.commitment \in Commitments
    <3>1. step >= step /\ phase = "unwinding" /\ a # NoAction
      BY DEF StopInv, SagaType, RunStep, Unwinding
    <3>2. QED
      BY <1>1, <3>1 DEF StopInv, StillLegal
  <2>2. LastAt(world[f.commitment]) \in Nat
    BY <1>1, <2>1, LastAtType DEF Typed
  <2>3. ~(at < LastAt(world[f.commitment]))
    BY <1>4
  <2>4. QED
    BY <2>2, <2>3, RequestsAssumption
<1>6. QED
  BY <1>2, <1>4, <1>5, DefaultIsAccepted

LEMMA NextStop ==
  ASSUME UniformTrees, PricesFit, StopInv, [PortSagasNext]_portSagasVars PROVE StopInv'
<1>1. SagaType'
  BY NextSagaType DEF StopInv
<1>2. TallyCurrency' /\ NothingFromNothing'
  <2>1. CASE UNCHANGED vars
    BY <2>1 DEF StopInv, TallyCurrency, NothingFromNothing, vars
  <2>2. CASE Proposes
    BY <2>2, ProposalKeepsNothing DEF StopInv, SagaType, Proposes
  <2>3. CASE StartsAfresh
    <3>1. \A c \in Commitments : Committed[c] # NoMoney => paid[c][Committed[c].currency] \in Nat
      BY MoneyAssumption DEF StopInv, SagaType, Typed, Money
    <3>2. QED
      BY <2>3, <3>1 DEF StartsAfresh, TallyCurrency, NothingFromNothing
  <2>4. QED
    BY <2>1, <2>2, <2>3, SagaStep DEF StopInv
<1>3. CASE UNCHANGED <<vars, forward, phase, plan, step>>
  BY <1>1, <1>2, <1>3 DEF StopInv, AuditedSinceMoved, PlanUndoes, StillLegal, Legal,
                          FailsOnlyWhenOvertaken, vars
<1>4. ASSUME NEW a \in Requests, NEW at \in Times, ForwardAll(a, at) PROVE StopInv'
  <2>1. /\ Forward(a, at) /\ phase' = "forward" /\ plan' = <<>> /\ Proposable(a)
        /\ Propose(a, None, at)
    BY <1>4, RequestType DEF ForwardAll, Forward
  <2>2. AuditedSinceMoved'
    <3>1. CASE world' = world
      BY <2>1, <3>1 DEF Forward, StopInv, AuditedSinceMoved
    <3>2. CASE world' # world
      BY <2>1, <3>2, SagaMovesAudit DEF StopInv, SagaType, AuditedSinceMoved
    <3>3. QED
      BY <3>1, <3>2
  <2>3. PlanUndoes' /\ StillLegal' /\ FailsOnlyWhenOvertaken'
    BY <2>1 DEF PlanUndoes, StillLegal, FailsOnlyWhenOvertaken
  <2>4. QED
    BY <1>1, <1>2, <2>2, <2>3 DEF StopInv
<1>5. CASE Start
  <2>1. world' = world /\ forward' = forward /\ phase' = "unwinding"
    BY <1>5 DEF Start
  <2>2. PlanUndoes' /\ StillLegal'
    BY <1>5, StartUndoes, StartIsLegal DEF StopInv
  <2>3. AuditedSinceMoved' /\ FailsOnlyWhenOvertaken'
    BY <2>1 DEF StopInv, AuditedSinceMoved, FailsOnlyWhenOvertaken
  <2>4. QED
    BY <1>1, <1>2, <2>2, <2>3 DEF StopInv
<1>6. ASSUME NEW at \in Times, RunStep(at), UNCHANGED <<forward, plan>> PROVE StopInv'
  <2>1. StillLegal' /\ FailsOnlyWhenOvertaken'
    BY <1>6, StepKeepsLegal, StepStopsRightly DEF StopInv
  <2>2. PlanUndoes'
    BY <1>6 DEF StopInv, PlanUndoes
  <2>3. AuditedSinceMoved'
    <3>1. Proposable(plan[step].action) /\ Propose(plan[step].action, None, at)
      BY <1>6, PlannedType DEF RunStep, Unwinding, StopInv
    <3>2. QED
      BY <1>6, <3>1, SagaMovesAudit DEF StopInv, SagaType, AuditedSinceMoved
  <2>4. QED
    BY <1>1, <1>2, <2>1, <2>2, <2>3 DEF StopInv
<1>7. CASE SkipStep /\ UNCHANGED <<forward, plan>>
  <2>1. /\ UNCHANGED vars /\ phase = "unwinding" /\ phase' = phase
        /\ step' = step + 1 /\ step \in Nat
    BY <1>7 DEF SkipStep, Unwinding, StopInv, SagaType
  <2>2. PlanUndoes' /\ AuditedSinceMoved' /\ FailsOnlyWhenOvertaken'
    BY <1>7, <2>1 DEF StopInv, PlanUndoes, AuditedSinceMoved, FailsOnlyWhenOvertaken, vars
  <2>3. \A j \in DOMAIN plan : j \in Nat
    BY PlannedType DEF StopInv
  <2>4. \A j \in Nat : j >= step' => j >= step
    BY <2>1
  <2>5. \A k \in 1..(step - 1) : k \in 1..(step' - 1)
    BY <2>1
  <2>6. StillLegal'
    BY <1>7, <2>1, <2>3, <2>4, <2>5 DEF StopInv, StillLegal, Legal, vars
  <2>7. QED
    BY <1>1, <1>2, <2>2, <2>6 DEF StopInv
<1>8. CASE Finish /\ UNCHANGED <<forward, plan>>
  BY <1>1, <1>2, <1>8 DEF Finish, StopInv, PlanUndoes, AuditedSinceMoved, StillLegal,
                          FailsOnlyWhenOvertaken, vars
<1>9. QED
  BY <1>3, <1>4, <1>5, <1>6, <1>7, <1>8
  DEF PortSagasNext, CompensateAll, CompensateSession, Compensate, Unwind, ValidateCompensation,
      portSagasVars, sagaVars

LEMMA InitStop == PortSagasInit => StopInv
<1> SUFFICES ASSUME PortSagasInit PROVE StopInv
  OBVIOUS
<1>1. forward = <<>> /\ DOMAIN plan = {} /\ phase = "forward"
  BY EmptySeq, LenProperties DEF PortSagasInit, SagaInit
<1>2. TallyCurrency /\ NothingFromNothing
  <2>1. \A c \in Commitments : Committed[c] # NoMoney => Committed[c].currency \in Currencies
    BY MoneyAssumption DEF Money
  <2>2. QED
    BY <2>1 DEF PortSagasInit, SagaInit, Init, TallyCurrency, NothingFromNothing
<1>3. QED
  BY <1>1, <1>2, InitSagaType DEF StopInv, AuditedSinceMoved, PlanUndoes, StillLegal,
                                  FailsOnlyWhenOvertaken

\* A compensation that stops was stopped by its own commitment or tree, by the clock or
\* by the caller's override: never by what the plan, made before, took for granted.
THEOREM StoppedIsOvertaken ==
  ASSUME UniformTrees, PricesFit PROVE PortSagasSpec => []FailsOnlyWhenOvertaken
<1>1. StopInv /\ [PortSagasNext]_portSagasVars => StopInv'
  BY NextStop
<1>2. StopInv => FailsOnlyWhenOvertaken
  BY DEF StopInv
<1>3. QED
  BY <1>1, <1>2, InitStop, PTL DEF PortSagasSpec

-----------------------------------------------------------------------------
(* Saga: the unwinding in every toolkit.  A port's loop has run to its end when the   *)
(* TypeScript one takes its first step; the invariant follows the one through the     *)
(* results of the other, turn by turn, to where both stop.                            *)

Ports == {"rust", "golang", "python"}

\* The world as a port keeps it.
WorldOf(port) == IF port = "python" THEN world ELSE BareOf(world)

Asked(port, s, a, at) ==
  IF port = "rust" THEN RustPropose(s, Fulfillments, a)
  ELSE IF port = "golang" THEN GoPropose(s, Fulfillments, a)
  ELSE PyPropose(s, Fulfillments, a, at)

\* What a port makes of one proposal is where the session goes.
LEMMA AskedGoesOn ==
  ASSUME TwoWayLinks, UniformTrees, AgreedDeliveries, SessionInv, NEW port \in Ports, NEW was,
         NEW a \in Askable, NEW at \in Times, OnTime(a, at), Propose(a, None, at),
         NEW s, s = InStep(WorldOf(port), was), NEW v, v = Answer(a, at)
  PROVE  /\ v \in {"replay", "accepted", "rejected"}
         /\ v = "rejected" => UNCHANGED vars
         /\ Asked(port, s, a, at) = InStep(WorldOf(port), v)'
<1> DEFINE next == MoveIn(world, a, at)
<1>1. Typed /\ TallyCurrency /\ Grown /\ Proposable(a)
  BY AskableType DEF SessionInv
<1>2. /\ v \in {"replay", "accepted", "rejected"}
      /\ v # "accepted" => UNCHANGED vars
      /\ Port(world', ledger', treeLedger', FlatKeys', v) = Followed(a, at, world, next)
      /\ Port(BareOf(world'), ledger', treeLedger', FlatKeys', v)
           = Followed(a, at, BareOf(world), BareOf(next))
  BY <1>1, SessionFollows
<1>3. Tracked(a) => ~TallyClashes(a)
  BY <1>1, NoClash
<1> HIDE DEF next
<1>4. CASE port = "python"
  <2>1. Asked(port, s, a, at) = Followed(a, at, world, next)
    BY <1>1, <1>3, <1>4, PyFollows DEF Asked, WorldOf, next
  <2>2. QED
    BY <1>2, <1>4, <2>1 DEF InStep, WorldOf
<1>5. CASE port = "rust"
  <2>1. Asked(port, s, a, at) = Followed(a, at, BareOf(world), BareOf(next))
    BY <1>1, <1>5, RustFollows DEF Asked, WorldOf, next
  <2>2. QED
    BY <1>2, <1>5, <2>1 DEF InStep, WorldOf, BareOf
<1>6. CASE port = "golang"
  <2>1. Asked(port, s, a, at) = Followed(a, at, BareOf(world), BareOf(next))
    BY <1>1, <1>6, GoFollows DEF Asked, WorldOf, next
  <2>2. QED
    BY <1>2, <1>6, <2>1 DEF InStep, WorldOf, BareOf
<1>7. QED
  BY <1>2, <1>4, <1>5, <1>6 DEF Ports

\* A turn of each port's loop over a plan.
RustTurn(r, i, a) ==
  LET next == RustPropose(r.session, Fulfillments, a)
  IN IF r.failedAt # 0 THEN r
     ELSE IF a = NoAction THEN [r EXCEPT !.skipped = @ + 1]
     ELSE IF next.verdict = "rejected" THEN [r EXCEPT !.failedAt = i]
     ELSE [r EXCEPT !.applied = @ + 1, !.session = next]

GoTurn(r, i, a) ==
  LET made == GoPropose(r.session, Fulfillments, a)
  IN CASE r.failedAt # 0 -> r
       [] r.failedAt = 0 /\ a = NoAction -> [r EXCEPT !.skipped = @ + 1]
       [] r.failedAt = 0 /\ a # NoAction /\ made.verdict = "rejected" -> [r EXCEPT !.failedAt = i]
       [] OTHER -> [r EXCEPT !.session = made, !.applied = @ + 1]

PyTurn(r, i, a, at) ==
  LET made == PyPropose(r.session, Fulfillments, a, at)
  IN IF r.failedAt > 0 THEN r
     ELSE IF a = NoAction THEN [r EXCEPT !.skipped = @ + 1]
     ELSE IF made.verdict \in {"accepted", "replay"}
     THEN [r EXCEPT !.session = made, !.applied = @ + 1]
     ELSE [r EXCEPT !.failedAt = i]

Turn(port, r, i, a, at) ==
  IF port = "rust" THEN RustTurn(r, i, a) ELSE IF port = "golang" THEN GoTurn(r, i, a) ELSE PyTurn(r, i, a, at)

Result(s, done, passed, stop) == [session |-> s, applied |-> done, skipped |-> passed, failedAt |-> stop]

\* Whatever the language, a turn skips, counts or stops; after a stop there are no more.
LEMMA TurnsAlike ==
  ASSUME NEW port \in Ports, NEW s, NEW m \in Nat, NEW n \in Nat, NEW i \in Nat, NEW a, NEW at,
         NEW r, r = Result(s, m, n, 0), NEW v, v = Asked(port, s, a, at)
  PROVE  /\ a = NoAction => Turn(port, r, i, a, at) = Result(s, m, n + 1, 0)
         /\ a # NoAction /\ v.verdict = "rejected" => Turn(port, r, i, a, at) = Result(s, m, n, i)
         /\ a # NoAction /\ v.verdict \in {"accepted", "replay"} =>
              Turn(port, r, i, a, at) = Result(v, m + 1, n, 0)
         /\ \A k \in Nat \ {0} : Turn(port, Result(s, m, n, k), i, a, at) = Result(s, m, n, k)
<1>1. r.session = s /\ r.failedAt = 0 /\ ~(r.failedAt > 0)
  BY DEF Result
<1>2. [r EXCEPT !.skipped = @ + 1] = Result(s, m, n + 1, 0)
  BY DEF Result
<1>3. [r EXCEPT !.failedAt = i] = Result(s, m, n, i)
  BY DEF Result
<1>4. [r EXCEPT !.applied = @ + 1, !.session = v] = Result(v, m + 1, n, 0)
  <2>1. [r EXCEPT !.applied = @ + 1] = Result(s, m + 1, n, 0)
    BY DEF Result
  <2>2. [Result(s, m + 1, n, 0) EXCEPT !.session = v] = Result(v, m + 1, n, 0)
    BY DEF Result
  <2>3. QED
    BY <2>1, <2>2, Zenon
<1>5. [r EXCEPT !.session = v, !.applied = @ + 1] = Result(v, m + 1, n, 0)
  <2>1. [r EXCEPT !.session = v] = Result(v, m, n, 0)
    BY DEF Result
  <2>2. [Result(v, m, n, 0) EXCEPT !.applied = @ + 1] = Result(v, m + 1, n, 0)
    BY DEF Result
  <2>3. QED
    BY <2>1, <2>2, Zenon
<1>6. \A k \in Nat \ {0} : Result(s, m, n, k).failedAt = k /\ k # 0 /\ k > 0
  BY DEF Result
<1>7. CASE port = "rust"
  <2>1. v = RustPropose(s, Fulfillments, a)
    BY <1>7 DEF Asked
  <2>2. \A q : Turn(port, q, i, a, at) = RustTurn(q, i, a)
    BY <1>7 DEF Turn
  <2>3. RustTurn(r, i, a) =
          IF a = NoAction THEN Result(s, m, n + 1, 0)
          ELSE IF v.verdict = "rejected" THEN Result(s, m, n, i) ELSE Result(v, m + 1, n, 0)
    BY <1>1, <1>2, <1>3, <1>4, <2>1, Zenon DEF RustTurn
  <2>4. \A k \in Nat \ {0} : RustTurn(Result(s, m, n, k), i, a) = Result(s, m, n, k)
    BY <1>6 DEF RustTurn
  <2>5. QED
    BY <2>2, <2>3, <2>4
<1>8. CASE port = "golang"
  <2>1. v = GoPropose(s, Fulfillments, a)
    BY <1>8 DEF Asked
  <2>2. \A q : Turn(port, q, i, a, at) = GoTurn(q, i, a)
    BY <1>8 DEF Turn
  <2>3. GoTurn(r, i, a) =
          IF a = NoAction THEN Result(s, m, n + 1, 0)
          ELSE IF v.verdict = "rejected" THEN Result(s, m, n, i) ELSE Result(v, m + 1, n, 0)
    BY <1>1, <1>2, <1>3, <1>5, <2>1 DEF GoTurn
  <2>4. \A k \in Nat \ {0} : GoTurn(Result(s, m, n, k), i, a) = Result(s, m, n, k)
    BY <1>6 DEF GoTurn
  <2>5. QED
    BY <2>2, <2>3, <2>4
<1>9. CASE port = "python"
  <2>1. v = PyPropose(s, Fulfillments, a, at)
    BY <1>9 DEF Asked
  <2>2. \A q : Turn(port, q, i, a, at) = PyTurn(q, i, a, at)
    BY <1>9 DEF Turn
  <2>3. PyTurn(r, i, a, at) =
          IF a = NoAction THEN Result(s, m, n + 1, 0)
          ELSE IF v.verdict \in {"accepted", "replay"} THEN Result(v, m + 1, n, 0) ELSE Result(s, m, n, i)
    BY <1>1, <1>2, <1>3, <1>5, <2>1, Zenon DEF PyTurn
  <2>4. \A k \in Nat \ {0} : PyTurn(Result(s, m, n, k), i, a, at) = Result(s, m, n, k)
    BY <1>6 DEF PyTurn
  <2>5. QED
    BY <2>2, <2>3, <2>4
<1>10. QED
  BY <1>7, <1>8, <1>9 DEF Ports

\* The results of a port's loop over a plan, the i-th after i turns.
Loop(port, g, s, actions, times) ==
  g = [i \in 0..Len(actions) |->
         IF i = 0 THEN Untouched(s) ELSE Turn(port, g[i - 1], i, actions[i], times[i])]

LEMMA LoopExists ==
  ASSUME NEW port, NEW s, NEW actions, Len(actions) \in Nat, NEW times
  PROVE  \E g : Loop(port, g, s, actions, times)
<1> DEFINE n == Len(actions)
           Value(g, i) == IF i = 0 THEN Untouched(s) ELSE Turn(port, g[i - 1], i, actions[i], times[i])
           Right(g, m) == g = [i \in 0..m |-> Value(g, i)]
           bad == {m \in 0..n : ~\E g : Right(g, m)}
<1>1. SUFFICES ASSUME bad # {} PROVE FALSE
  <2>1. n \in 0..n
    OBVIOUS
  <2>2. bad = {} => \E g : Right(g, n)
    <3> HIDE DEF Right
    <3>1. QED
      BY <2>1
  <2>3. QED
    BY <2>2 DEF Loop
<1>2. PICK m \in bad : \A k \in bad : m <= k
  <2>1. bad \in SUBSET Nat
    OBVIOUS
  <2> HIDE DEF bad
  <2>2. QED
    BY <1>1, <2>1, LeastNatural
<1>3. m \in 0..n /\ ~\E g : Right(g, m)
  OBVIOUS
<1>4. m # 0
  <2> DEFINE g == [i \in 0..0 |-> Untouched(s)]
  <2>1. \A i \in 0..0 : i = 0
    OBVIOUS
  <2>2. Right(g, 0)
    BY <2>1
  <2> HIDE DEF Right
  <2>3. QED
    BY <1>3, <2>2
<1>5. PICK g : Right(g, m - 1)
  <2>1. m - 1 \in 0..n /\ ~(m <= m - 1)
    BY <1>3, <1>4
  <2>2. m - 1 \notin bad
    BY <1>2, <2>1
  <2> HIDE DEF Right
  <2>3. QED
    BY <2>1, <2>2
<1>6. \A i \in 0..(m - 1) : g[i] = Value(g, i)
  BY <1>5
<1> DEFINE h == [i \in 0..m |-> IF i = m THEN Value(g, m) ELSE g[i]]
<1>7. ASSUME NEW i \in 0..m PROVE h[i] = Value(h, i)
  <2>1. i # 0 => i - 1 \in 0..m /\ i - 1 # m
    BY <1>3, <1>7
  <2>2. i # 0 => h[i - 1] = g[i - 1]
    BY <2>1
  <2>3. Value(h, i) = Value(g, i)
    <3> HIDE DEF h
    <3>1. QED
      BY <2>2
  <2>4. i # m => i \in 0..(m - 1)
    BY <1>3, <1>7
  <2>5. h[i] = Value(g, i)
    <3> HIDE DEF Value
    <3>1. QED
      BY <1>6, <1>7, <2>4
  <2>6. QED
    BY <2>3, <2>5
<1>8. h = [i \in 0..m |-> h[i]]
  OBVIOUS
<1>9. Right(h, m)
  <2> HIDE DEF h, Value
  <2>1. QED
    BY <1>7, <1>8
<1> HIDE DEF Right, h
<1>10. QED
  BY <1>3, <1>9

\* What each port's loop returns ...
Ran(port, s, actions, times) ==
  IF port = "rust" THEN RustValidateCompensation(s, actions)
  ELSE IF port = "golang" THEN GoValidateCompensation(s, actions)
  ELSE PyValidateCompensation(s, actions, times)

\* ... is where its turns lead.
LEMMA RanThrough ==
  ASSUME NEW port \in Ports, NEW s, NEW actions, Len(actions) \in Nat, NEW times
  PROVE  \E g : Loop(port, g, s, actions, times) /\ Ran(port, s, actions, times) = g[Len(actions)]
<1>1. CASE port = "rust"
  <2> DEFINE Table(g) == g = [i \in 0..Len(actions) |->
                                IF i = 0 THEN Untouched(s) ELSE RustTurn(g[i - 1], i, actions[i])]
             chosen == CHOOSE g : Table(g)
  <2>1. \A g : Loop(port, g, s, actions, times) <=> Table(g)
    BY <1>1 DEF Loop, Turn
  <2>2. Ran(port, s, actions, times) = chosen[Len(actions)]
    BY <1>1 DEF Ran, RustValidateCompensation, RustTurn
  <2> HIDE DEF Table
  <2>3. Table(chosen)
    BY <2>1, LoopExists
  <2>4. QED
    BY <2>1, <2>2, <2>3
<1>2. CASE port = "golang"
  <2> DEFINE Table(g) == g = [i \in 0..Len(actions) |->
                                IF i = 0 THEN Untouched(s) ELSE GoTurn(g[i - 1], i, actions[i])]
             chosen == CHOOSE g : Table(g)
  <2>1. \A g : Loop(port, g, s, actions, times) <=> Table(g)
    BY <1>2 DEF Loop, Turn
  <2>2. Ran(port, s, actions, times) = chosen[Len(actions)]
    BY <1>2 DEF Ran, GoValidateCompensation, GoTurn
  <2> HIDE DEF Table
  <2>3. Table(chosen)
    BY <2>1, LoopExists
  <2>4. QED
    BY <2>1, <2>2, <2>3
<1>3. CASE port = "python"
  <2> DEFINE Table(g) == g = [i \in 0..Len(actions) |->
                                IF i = 0 THEN Untouched(s) ELSE PyTurn(g[i - 1], i, actions[i], times[i])]
             chosen == CHOOSE g : Table(g)
  <2>1. \A g : Loop(port, g, s, actions, times) <=> Table(g)
    BY <1>3 DEF Loop, Turn
  <2>2. Ran(port, s, actions, times) = chosen[Len(actions)]
    BY <1>3 DEF Ran, PyValidateCompensation, PyTurn
  <2> HIDE DEF Table
  <2>3. Table(chosen)
    BY <2>1, LoopExists
  <2>4. QED
    BY <2>1, <2>2, <2>3
<1>4. QED
  BY <1>1, <1>2, <1>3 DEF Ports

\* The plan, as each port makes it of its own world.
Planned(port, w, steps) ==
  IF port = "rust" THEN RustPlanCompensation(w, steps)
  ELSE IF port = "golang" THEN GoPlanCompensation(w, steps)
  ELSE PyPlanCompensation(w, steps)

ActionsOf(p) == [i \in DOMAIN p |-> p[i].action]

\* The defaults of the four read one table of transitions.
LEMMA DefaultsAlike ==
  ASSUME NEW f \in ForwardSteps, f.commitment \in Commitments, NEW w,
         \A c \in Commitments : w[c].state = world[c].state
  PROVE  /\ RustDefaultCompensation(w, f) = DefaultCompensation(f)
         /\ GoDefaultCompensation(w, f) = DefaultCompensation(f)
         /\ PyDefaultCompensation(w, f) = DefaultCompensation(f)
<1> DEFINE c == f.commitment
           from == world[c].state.type
           back == [type |-> "Refunded", amount |-> Committed[c]]
           agreed == {"Accepted", "Active", "Modified", "PartiallyFulfilled"}
           refundable == "Refunded" \in CommitmentTransitions[from] /\ Committed[c] # NoMoney
           cancellable == "Cancelled" \in CommitmentTransitions[from]
           default == IF f.to.type = "Fulfilled"
                      THEN IF refundable THEN Compensating(f, back) ELSE NoAction
                      ELSE IF f.to.type \in agreed /\ cancellable THEN Compensating(f, Plain("Cancelled"))
                      ELSE NoAction
<1>1. w[c].state.type = from /\ "Fulfilled" \notin agreed
  OBVIOUS
<1>2. "Refunded" \in StateTypes /\ "Cancelled" \in StateTypes
  BY DEF StateTypes, CommitmentTransitions
<1>3. back.type = "Refunded" /\ Plain("Cancelled").type = "Cancelled"
  BY DEF Plain
<1>4. DefaultCompensation(f) = default
  BY <1>1 DEF DefaultCompensation, Legal
<1>5. RustDefaultCompensation(w, f) = default
  BY <1>1, <1>2 DEF RustDefaultCompensation, RustIsValidTransition, RustAction, Compensating
<1>6. GoDefaultCompensation(w, f) = default
  BY <1>1 DEF GoDefaultCompensation, GoAllows, Compensating
<1>7. PyDefaultCompensation(w, f) = default
  BY <1>1, <1>3 DEF PyDefaultCompensation, PyIsValidCommitmentTransition, Compensating, Plain
<1>8. QED
  BY <1>4, <1>5, <1>6, <1>7

\* A plan has the same actions in every language, and each may be asked of a session.
LEMMA PlansAlike ==
  ASSUME SagaType, NEW p, p = PlanCompensation(forward)
  PROVE  /\ \A port \in Ports : Planned(port, WorldOf(port), forward) = ActionsOf(p)
         /\ \A i \in DOMAIN p : p[i].action = NoAction \/ p[i].action \in Askable
<1> DEFINE n == Len(forward)
           behind(i) == forward[(n - i) + 1]
<1>1. /\ n \in Nat /\ DOMAIN forward = 1..n /\ DOMAIN p = 1..n
      /\ \A i \in 1..n : (n - i) + 1 \in 1..n /\ p[i].action = CompensationOf(behind(i))
  <2>1. \A i \in 1..n : p[i] = [forward |-> behind(i), action |-> CompensationOf(behind(i))]
    BY PlanIs
  <2>2. \A i \in 1..n : p[i].action = CompensationOf(behind(i))
    <3> SUFFICES ASSUME NEW i \in 1..n PROVE p[i].action = CompensationOf(behind(i))
      OBVIOUS
    <3>1. PICK a : a = CompensationOf(behind(i))
      OBVIOUS
    <3>2. p[i] = [forward |-> behind(i), action |-> a]
      BY <2>1, <3>1
    <3>3. p[i].action = a
      BY <3>2
    <3>4. QED
      BY <3>1, <3>3
  <2>3. QED
    BY <2>2, PlanIs
<1>2. /\ \A i \in 1..n : Reverse(forward)[i] = behind(i)
      /\ \A i \in 1..n : (n + 1) - i = (n - i) + 1
  BY <1>1 DEF Reverse
<1>3. \A i \in 1..n : behind(i) \in ForwardSteps
  BY <1>1, ElementOfSeq DEF SagaType
<1>4. Typed /\ DOMAIN BareOf(world) = Commitments /\ DOMAIN world = Commitments
      /\ \A c \in Commitments : BareOf(world)[c].state = world[c].state
  BY BareStates DEF SagaType
<1>5. ActionsOf(p) = [i \in 1..n |-> CompensationOf(behind(i))]
  BY <1>1 DEF ActionsOf
<1>6. Planned("rust", BareOf(world), forward) = ActionsOf(p)
  <2> DEFINE w == BareOf(world)
             plannedFor(f) ==
               IF f.commitment \notin DOMAIN w THEN NoAction
               ELSE IF f.override = None THEN RustDefaultCompensation(w, f)
               ELSE IF RustIsValidTransition(w[f.commitment].state.type, f.override.type)
               THEN RustAction(f, f.override) ELSE NoAction
  <2>1. ASSUME NEW f \in ForwardSteps PROVE plannedFor(f) = CompensationOf(f)
    <3>1. f.commitment \in Commitments => RustDefaultCompensation(w, f) = DefaultCompensation(f)
      BY <1>4, DefaultsAlike
    <3> HIDE DEF w
    <3>2. QED
      BY <1>4, <3>1 DEF CompensationOf, RustIsValidTransition, RustAction, Compensating, Legal, w
  <2>2. Planned("rust", w, forward) = [i \in 1..n |-> plannedFor(Reverse(forward)[i])]
    BY <1>1 DEF Planned, RustPlanCompensation
  <2> HIDE DEF plannedFor, w, behind
  <2>3. QED
    BY <1>2, <1>3, <1>5, <2>1, <2>2 DEF w
<1>7. Planned("golang", BareOf(world), forward) = ActionsOf(p)
  <2> DEFINE w == BareOf(world)
             plannedFor(f) ==
               CASE f.commitment \notin DOMAIN w -> NoAction
                 [] f.commitment \in DOMAIN w /\ f.override = None -> GoDefaultCompensation(w, f)
                 [] OTHER -> IF ~GoAllows(w[f.commitment].state.type, f.override.type) THEN NoAction
                             ELSE [commitment |-> f.commitment, to |-> f.override, actor |-> f.actor,
                                   key |-> <<"comp", f.commitment, f.override.type>>]
  <2>1. ASSUME NEW f \in ForwardSteps PROVE plannedFor(f) = CompensationOf(f)
    <3>1. f.commitment \in Commitments => GoDefaultCompensation(w, f) = DefaultCompensation(f)
      BY <1>4, DefaultsAlike
    <3> HIDE DEF w
    <3>2. QED
      BY <1>4, <3>1 DEF CompensationOf, GoAllows, Compensating, Legal, w
  <2>2. Planned("golang", w, forward) = [i \in 1..n |-> plannedFor(forward[(n + 1) - i])]
    BY <1>1 DEF Planned, GoPlanCompensation
  <2> HIDE DEF plannedFor, w
  <2>3. \A i \in 1..n : plannedFor(forward[(n + 1) - i]) = CompensationOf(behind(i))
    BY <1>2, <1>3, <2>1
  <2> HIDE DEF behind
  <2>4. QED
    BY <1>5, <2>2, <2>3 DEF w
<1>8. Planned("python", world, forward) = ActionsOf(p)
  <2> DEFINE plannedFor(f) ==
               IF f.commitment \notin DOMAIN world THEN NoAction
               ELSE IF f.override = None THEN PyDefaultCompensation(world, f)
               ELSE IF PyIsValidCommitmentTransition(world[f.commitment].state, f.override)
               THEN [commitment |-> f.commitment, to |-> f.override, actor |-> f.actor,
                     key |-> <<"comp", f.commitment, f.override.type>>]
               ELSE NoAction
  <2>1. ASSUME NEW f \in ForwardSteps PROVE plannedFor(f) = CompensationOf(f)
    <3>1. f.commitment \in Commitments => PyDefaultCompensation(world, f) = DefaultCompensation(f)
      BY <1>4, DefaultsAlike
    <3>2. QED
      BY <1>4, <3>1 DEF CompensationOf, PyIsValidCommitmentTransition, Compensating, Legal
  <2>2. Planned("python", world, forward) = [i \in 1..n |-> plannedFor(behind(i))]
    BY <1>1 DEF Planned, PyPlanCompensation
  <2> HIDE DEF plannedFor, behind
  <2>3. QED
    BY <1>3, <1>5, <2>1, <2>2
<1>9. ASSUME NEW f \in ForwardSteps PROVE CompensationOf(f) = NoAction \/ CompensationOf(f) \in Askable
  <2>1. ASSUME NEW to \in States PROVE Compensating(f, to) \in Actions(CompensationKeys)
    <3>1. f.commitment \in Ids /\ f.actor \in Actors /\ to.type \in StateTypes
      BY DEF ForwardSteps, States
    <3>2. <<"comp", f.commitment, to.type>> \in CompensationKeys
      BY <3>1 DEF CompensationKeys
    <3>3. QED
      BY <3>1, <3>2 DEF Compensating, Actions
  <2>2. QED
    BY <2>1, CompensationType DEF Askable
<1>10. QED
  BY <1>1, <1>3, <1>6, <1>7, <1>8, <1>9 DEF Ports, WorldOf

\* A port in the middle of its loop, where the TypeScript one is ...
OnCourse(port) ==
  \E g, was :
    /\ g[step - 1] = Result(InStep(WorldOf(port), was), report.applied, report.skipped, 0)
    /\ \A i \in 1..Len(plan) : g[i] = Turn(port, g[i - 1], i, plan[i].action, readings[i])
    /\ undone[port].outcome = g[Len(plan)]

\* ... and one whose loop has ended where the other did.
EndsWhere(port) ==
  \E was : undone[port].outcome =
             Result(InStep(WorldOf(port), was), report.applied, report.skipped, IF phase = "failed" THEN step ELSE 0)

InUse(port) == IF port = "rust" THEN rust ELSE IF port = "golang" THEN golang ELSE python

\* While a compensation is the last thing that was done.
Unwound ==
  /\ DOMAIN undone = Ports
  /\ \A i \in DOMAIN plan : plan[i].action = NoAction \/ plan[i].action \in Askable
  /\ \A port \in Ports : /\ undone[port].actions = ActionsOf(plan)
                         /\ InUse(port) = undone[port].outcome.session
  /\ phase = "unwinding" => step <= Len(plan) + 1 /\ \A port \in Ports : OnCourse(port)
  /\ phase # "unwinding" => \A port \in Ports : EndsWhere(port)
  /\ phase = "failed" => step \in 1..Len(plan)

UnwindInv ==
  /\ SagaType /\ SessionInv
  /\ report \in [applied : Nat, skipped : Nat]
  /\ phase \in {"forward", "unwinding", "unwound", "failed"}
  /\ phase = "forward" => Evenly
  /\ phase # "forward" => Unwound

\* A port's loop that was stopped stays as it is.
LEMMA StoppedStays ==
  ASSUME NEW port \in Ports, NEW n \in Nat, NEW k \in 1..n, NEW g, NEW s, NEW m \in Nat, NEW passed \in Nat,
         NEW actions, NEW times,
         g[k] = Result(s, m, passed, k),
         \A i \in 1..n : g[i] = Turn(port, g[i - 1], i, actions[i], times[i])
  PROVE  g[n] = Result(s, m, passed, k)
<1> DEFINE stop == Result(s, m, passed, k)
           bad == {i \in k..n : g[i] # stop}
<1>1. SUFFICES ASSUME bad # {} PROVE FALSE
  <2>1. n \in k..n
    OBVIOUS
  <2>2. QED
    BY <2>1
<1>2. PICK j \in bad : \A i \in bad : j <= i
  <2>1. bad \in SUBSET Nat
    OBVIOUS
  <2> HIDE DEF bad
  <2>2. QED
    BY <1>1, <2>1, LeastNatural
<1>3. j \in k..n /\ g[j] # stop
  OBVIOUS
<1>4. j # k
  BY <1>3
<1>5. j \in 1..n /\ j - 1 \in k..n /\ ~(j <= j - 1) /\ j \in Nat /\ k \in Nat \ {0}
  BY <1>3, <1>4
<1>6. g[j - 1] = stop
  BY <1>2, <1>5
<1>7. Turn(port, stop, j, actions[j], times[j]) = stop
  BY <1>5, TurnsAlike
<1>8. g[j] = stop
  BY <1>5, <1>6, <1>7
<1>9. QED
  BY <1>3, <1>8

\* After a compensation the ports are again where the session is.
LEMMA EvenlyAgain ==
  ASSUME UnwindInv, phase # "unwinding"
  PROVE  /\ Evenly
         /\ \A port \in Ports : \E was : InUse(port) = InStep(WorldOf(port), was)
<1>1. CASE phase = "forward"
  BY <1>1 DEF UnwindInv, Evenly, Ports, InUse, WorldOf
<1>2. CASE phase # "forward"
  <2>1. ASSUME NEW port \in Ports PROVE \E was : InUse(port) = InStep(WorldOf(port), was)
    <3>1. InUse(port) = undone[port].outcome.session /\ EndsWhere(port)
      BY <1>2 DEF UnwindInv, Unwound
    <3>2. PICK was : undone[port].outcome =
            Result(InStep(WorldOf(port), was), report.applied, report.skipped, IF phase = "failed" THEN step ELSE 0)
      BY <3>1 DEF EndsWhere
    <3>3. QED
      BY <3>1, <3>2 DEF Result
  <2>2. /\ \E was : InUse("rust") = InStep(WorldOf("rust"), was)
        /\ \E was : InUse("golang") = InStep(WorldOf("golang"), was)
        /\ \E was : InUse("python") = InStep(WorldOf("python"), was)
    BY <2>1 DEF Ports
  <2>3. Evenly
    BY <2>2 DEF Evenly, InUse, WorldOf
  <2>4. QED
    BY <2>1, <2>3
<1>3. QED
  BY <1>1, <1>2

\* What a compensation starts from, in the flow's session or in one of its own.
LEMMA StartUnwinds ==
  ASSUME UnwindInv, NEW own \in BOOLEAN, CompensateAll(own)
  PROVE  UnwindInv'
<1> DEFINE p == PlanCompensation(forward)
<1>1. /\ SagaType /\ SessionInv /\ phase # "unwinding"
      /\ Start /\ phase' = "unwinding" /\ plan' = p /\ step' = 1
      /\ report' = [applied |-> 0, skipped |-> 0] /\ world' = world
  BY DEF UnwindInv, CompensateAll, Compensate, CompensateSession, Start
<1>2. SagaType'
  <2>1. PortSagasNext
    BY DEF PortSagasNext
  <2>2. QED
    BY <1>1, <2>1, NextSagaType
<1>3. /\ SessionInv'
      /\ own => /\ ledger' = [c \in Commitments |-> 0] /\ treeLedger' = [c \in Commitments |-> NoMoney]
                /\ FlatKeys' = {}
      /\ ~own => UNCHANGED <<ledger, treeLedger>> /\ FlatKeys' = FlatKeys
  <2>1. CASE own
    <3>1. /\ ledger' = [c \in Commitments |-> 0] /\ treeLedger' = [c \in Commitments |-> NoMoney]
          /\ applied' = {} /\ FlatKeys' = {}
      BY <2>1 DEF CompensateAll, Compensate, FlatKeys
    <3>2. TallyCurrency'
      BY <3>1 DEF TallyCurrency
    <3>3. Grown'
      BY <1>1 DEF SessionInv, Grown, Continues, AcceptedRightly
    <3>4. QED
      BY <1>2, <2>1, <3>1, <3>2, <3>3, FS_EmptySet DEF SessionInv, SagaType
  <2>2. CASE ~own
    <3>1. UNCHANGED vars
      BY <2>2 DEF CompensateAll, CompensateSession, Start, vars
    <3>2. QED
      BY <1>1, <2>2, <3>1, SessionStays
  <2>3. QED
    BY <2>1, <2>2
<1>4. /\ Len(p) \in Nat /\ DOMAIN p = 1..Len(p)
      /\ \A i \in DOMAIN p : p[i].action = NoAction \/ p[i].action \in Askable
      /\ \A port \in Ports : Planned(port, WorldOf(port), forward) = ActionsOf(p)
  <2>1. p \in Seq(PlanSteps)
    BY <1>1, PlanIs
  <2> HIDE DEF p
  <2>2. Len(p) \in Nat /\ DOMAIN p = 1..Len(p)
    BY <2>1, LenProperties
  <2>3. QED
    BY <1>1, <2>2, PlansAlike DEF p
<1> HIDE DEF p
<1>5. Len(ActionsOf(p)) = Len(p) /\ \A i \in 1..Len(p) : ActionsOf(p)[i] = p[i].action
  BY <1>4 DEF ActionsOf
<1>6. ASSUME NEW port \in Ports
      PROVE  /\ undone'[port].actions = ActionsOf(p)
             /\ InUse(port)' = undone'[port].outcome.session
             /\ OnCourse(port)'
  <2>1. PICK was : InUse(port) = InStep(WorldOf(port), was)
    BY <1>1, EvenlyAgain
  <2>2. InUse(port).world = WorldOf(port)
    BY <2>1 DEF InStep, Port
  <2> DEFINE anew == Port(WorldOf(port), [c \in DOMAIN WorldOf(port) |-> 0],
                          [c \in DOMAIN WorldOf(port) |-> NoMoney], {}, "none")
             s == IF own THEN anew ELSE InUse(port)
  <2>3. /\ undone'[port] = [actions |-> ActionsOf(p), outcome |-> Ran(port, s, ActionsOf(p), readings')]
        /\ InUse(port)' = undone'[port].outcome.session
    <3>1. CASE port = "rust"
      BY <1>4, <2>2, <3>1
      DEF CompensateAll, InUse, RustCompensate, RustSession, Ran, Planned, Port
    <3>2. CASE port = "golang"
      BY <1>4, <2>2, <3>2
      DEF CompensateAll, InUse, GoCompensate, GoSession, Ran, Planned, Port
    <3>3. CASE port = "python"
      BY <1>4, <2>2, <3>3
      DEF CompensateAll, InUse, PyCompensate, PySession, Ran, Planned, Port
    <3>4. QED
      BY <3>1, <3>2, <3>3 DEF Ports
  <2>4. \E now : s = InStep(WorldOf(port), now)'
    <3>1. WorldOf(port)' = WorldOf(port) /\ DOMAIN WorldOf(port) = Commitments
      BY <1>1, BareStates DEF WorldOf, BareOf, SagaType
    <3>2. CASE own
      BY <1>3, <3>1, <3>2 DEF InStep
    <3>3. CASE ~own
      BY <1>3, <2>1, <3>1, <3>3 DEF InStep, Port
    <3>4. QED
      BY <3>2, <3>3
  <2> HIDE DEF s
  <2>5. PICK g : /\ Loop(port, g, s, ActionsOf(p), readings')
                 /\ Ran(port, s, ActionsOf(p), readings') = g[Len(ActionsOf(p))]
    BY <1>4, <1>5, RanThrough
  <2>6. g[0] = Result(s, 0, 0, 0)
    BY <1>4, <1>5, <2>5 DEF Loop, Untouched, Result
  <2>7. \A i \in 1..Len(p) : g[i] = Turn(port, g[i - 1], i, p[i].action, readings'[i])
    <3>1. \A i \in 1..Len(p) : i \in 0..Len(p) /\ i # 0
      BY <1>4
    <3>2. QED
      BY <1>5, <2>5, <3>1 DEF Loop
  <2>8. OnCourse(port)'
    <3>1. /\ g[step' - 1] = Result(s, report'.applied, report'.skipped, 0)
          /\ \A i \in 1..Len(plan') : g[i] = Turn(port, g[i - 1], i, plan'[i].action, readings'[i])
          /\ undone'[port].outcome = g[Len(plan')]
      BY <1>1, <1>5, <2>3, <2>5, <2>6, <2>7
    <3>2. QED
      BY <2>4, <3>1 DEF OnCourse
  <2>9. QED
    BY <2>3, <2>8
<1>7. Unwound'
  <2>1. DOMAIN undone' = Ports
    BY DEF CompensateAll, Ports
  <2>2. QED
    BY <1>1, <1>4, <1>6, <2>1 DEF Unwound
<1>8. QED
  BY <1>1, <1>2, <1>3, <1>7 DEF UnwindInv

\* A turn of the TypeScript loop finds the turn the port has taken.
LEMMA TurnUnwinds ==
  ASSUME TwoWayLinks, UniformTrees, AgreedDeliveries, UnwindInv,
         NEW at \in Times, Unwind(at), SagaType',
         Unwinding /\ plan[step].action # NoAction => OnTime(plan[step].action, at)
  PROVE  UnwindInv'
<1>1. /\ SagaType /\ SessionInv /\ Unwound /\ phase = "unwinding"
      /\ report \in [applied : Nat, skipped : Nat] /\ step \in Nat \ {0} /\ Len(plan) \in Nat
      /\ DOMAIN plan = 1..Len(plan)
  <2>1. phase = "unwinding" /\ SagaType
    BY DEF UnwindInv, Unwind, ValidateCompensation, SkipStep, RunStep, Unwinding, Finish
  <2>2. QED
    BY <2>1, LenProperties DEF UnwindInv, SagaType
<1>2. /\ UNCHANGED <<rust, golang, python, undone, readings, plan>>
      /\ Unwinding => at = readings[step]
  BY DEF Unwind, ValidateCompensation
<1>3. ASSUME NEW port \in Ports
      PROVE  undone'[port] = undone[port] /\ InUse(port)' = InUse(port)
  BY <1>2 DEF InUse
<1>4. ASSUME SessionInv', report' \in [applied : Nat, skipped : Nat],
             phase' \in {"unwinding", "unwound", "failed"},
             phase' = "unwinding" => step' <= Len(plan) + 1 /\ \A port \in Ports : OnCourse(port)',
             phase' # "unwinding" => \A port \in Ports : EndsWhere(port)',
             phase' = "failed" => step' \in 1..Len(plan)
      PROVE  UnwindInv'
  <2>1. Unwound'
    BY <1>1, <1>2, <1>3, <1>4 DEF Unwound
  <2>2. QED
    BY <1>4, <2>1 DEF UnwindInv
<1>5. ASSUME NEW port \in Ports
      PROVE  \E g, was :
               /\ g[step - 1] = Result(InStep(WorldOf(port), was), report.applied, report.skipped, 0)
               /\ \A i \in 1..Len(plan) : g[i] = Turn(port, g[i - 1], i, plan[i].action, readings[i])
               /\ undone[port].outcome = g[Len(plan)]
  BY <1>1 DEF Unwound, OnCourse
<1>6. CASE SkipStep
  <2>1. /\ Unwinding /\ plan[step].action = NoAction /\ step' = step + 1 /\ UNCHANGED <<vars, phase>>
        /\ step \in 1..Len(plan)
        /\ report' = [report EXCEPT !.skipped = @ + 1]
    BY <1>1, <1>6 DEF SkipStep, Unwinding
  <2>2. SessionInv' /\ FlatKeys' = FlatKeys /\ UNCHANGED <<world, ledger, treeLedger, applied>>
    BY <1>1, <2>1, SessionStays
  <2>3. /\ report' \in [applied : Nat, skipped : Nat]
        /\ report'.applied = report.applied /\ report'.skipped = report.skipped + 1
    BY <1>1, <2>1
  <2>4. ASSUME NEW port \in Ports PROVE OnCourse(port)'
    <3>1. PICK g, was :
               /\ g[step - 1] = Result(InStep(WorldOf(port), was), report.applied, report.skipped, 0)
               /\ \A i \in 1..Len(plan) : g[i] = Turn(port, g[i - 1], i, plan[i].action, readings[i])
               /\ undone[port].outcome = g[Len(plan)]
      BY <1>5
    <3>2. g[step] = Result(InStep(WorldOf(port), was), report.applied, report.skipped + 1, 0)
      BY <1>1, <2>1, <3>1, TurnsAlike
    <3>3. InStep(WorldOf(port), was)' = InStep(WorldOf(port), was)
      BY <2>2 DEF InStep, WorldOf, BareOf
    <3>4. step' - 1 = step
      BY <1>1, <2>1
    <3>5. g[step' - 1] = Result(InStep(WorldOf(port), was)', report'.applied, report'.skipped, 0)
      BY <2>3, <3>2, <3>3, <3>4
    <3>6. QED
      BY <1>2, <3>1, <3>5 DEF OnCourse
  <2>5. QED
    BY <1>1, <1>4, <2>1, <2>2, <2>3, <2>4
<1>7. CASE RunStep(at)
  <2> PICK a : a = plan[step].action
    OBVIOUS
  <2> PICK v : v = Answer(a, at)
    OBVIOUS
  <2>1. /\ Unwinding /\ a # NoAction /\ Propose(a, None, at) /\ Verdict(a, at)
        /\ step \in 1..Len(plan) /\ at = readings[step] /\ OnTime(a, at)
    BY <1>1, <1>2, <1>7 DEF RunStep, Unwinding
  <2>2. a \in Askable
    BY <1>1, <2>1 DEF Unwound
  <2>3. SessionInv'
    BY <1>1, <2>1, <2>2, SessionGoesOn
  <2>4. ASSUME NEW port \in Ports
        PROVE  \E g, was :
               /\ g[step - 1] = Result(InStep(WorldOf(port), was), report.applied, report.skipped, 0)
               /\ \A i \in 1..Len(plan) : g[i] = Turn(port, g[i - 1], i, plan[i].action, readings[i])
               /\ undone[port].outcome = g[Len(plan)]
               /\ v \in {"replay", "accepted", "rejected"}
               /\ v = "rejected" => UNCHANGED vars /\ g[step] = Result(InStep(WorldOf(port), was), report.applied, report.skipped, step)
               /\ v # "rejected" => g[step] = Result(InStep(WorldOf(port), v)', report.applied + 1, report.skipped, 0)
    <3>1. PICK g, was :
               /\ g[step - 1] = Result(InStep(WorldOf(port), was), report.applied, report.skipped, 0)
               /\ \A i \in 1..Len(plan) : g[i] = Turn(port, g[i - 1], i, plan[i].action, readings[i])
               /\ undone[port].outcome = g[Len(plan)]
      BY <1>5
    <3> DEFINE s == InStep(WorldOf(port), was)
    <3>2. /\ v \in {"replay", "accepted", "rejected"}
          /\ v = "rejected" => UNCHANGED vars
          /\ Asked(port, s, a, at) = InStep(WorldOf(port), v)'
      BY <1>1, <2>1, <2>2, AskedGoesOn
    <3>3. Asked(port, s, a, at).verdict = v
      BY <3>2 DEF InStep, Port
    <3>4. g[step] = Turn(port, Result(s, report.applied, report.skipped, 0), step, a, at)
      BY <2>1, <3>1
    <3>5. /\ v = "rejected" => g[step] = Result(s, report.applied, report.skipped, step)
          /\ v # "rejected" => g[step] = Result(Asked(port, s, a, at), report.applied + 1, report.skipped, 0)
      <4> HIDE DEF s
      <4>1. QED
        BY <1>1, <2>1, <3>2, <3>3, <3>4, TurnsAlike
    <3>6. QED
      BY <3>1, <3>2, <3>5
  <2>5. v # "rejected" <=> IsReplay(a) \/ Accepted(a, None, at)
    <3>1. v \in {"replay", "accepted", "rejected"}
      BY <2>4 DEF Ports
    <3>2. QED
      BY <3>1 DEF Answer
  <2>6. CASE v # "rejected"
    <3>1. /\ report' = [report EXCEPT !.applied = @ + 1] /\ step' = step + 1 /\ phase' = phase
      BY <2>1, <2>5, <2>6 DEF Verdict
    <3>2. /\ report' \in [applied : Nat, skipped : Nat]
          /\ report'.applied = report.applied + 1 /\ report'.skipped = report.skipped
          /\ step' - 1 = step /\ step' <= Len(plan) + 1
      BY <1>1, <2>1, <3>1
    <3>3. ASSUME NEW port \in Ports PROVE OnCourse(port)'
      <4>1. PICK g :
               /\ \A i \in 1..Len(plan) : g[i] = Turn(port, g[i - 1], i, plan[i].action, readings[i])
               /\ undone[port].outcome = g[Len(plan)]
               /\ g[step] = Result(InStep(WorldOf(port), v)', report.applied + 1, report.skipped, 0)
        BY <2>4, <2>6
      <4>2. QED
        BY <1>2, <3>2, <4>1 DEF OnCourse
    <3>4. QED
      BY <1>1, <1>4, <2>3, <3>1, <3>2, <3>3
  <2>7. CASE v = "rejected"
    <3>1. phase' = "failed" /\ report' = report /\ step' = step
      BY <2>1, <2>5, <2>7 DEF Verdict
    <3>2. ASSUME NEW port \in Ports PROVE EndsWhere(port)'
      <4>1. PICK g, was :
               /\ UNCHANGED vars
               /\ \A i \in 1..Len(plan) : g[i] = Turn(port, g[i - 1], i, plan[i].action, readings[i])
               /\ undone[port].outcome = g[Len(plan)]
               /\ g[step] = Result(InStep(WorldOf(port), was), report.applied, report.skipped, step)
        BY <2>4, <2>7
      <4>2. g[Len(plan)] = Result(InStep(WorldOf(port), was), report.applied, report.skipped, step)
        <5> DEFINE actions == ActionsOf(plan)
        <5>1. \A i \in 1..Len(plan) : actions[i] = plan[i].action
          BY <1>1 DEF ActionsOf
        <5> HIDE DEF actions
        <5>2. \A i \in 1..Len(plan) : g[i] = Turn(port, g[i - 1], i, actions[i], readings[i])
          BY <4>1, <5>1
        <5>3. PICK s : s = InStep(WorldOf(port), was)
          OBVIOUS
        <5>4. PICK m, passed, n : m = report.applied /\ passed = report.skipped /\ n = Len(plan)
          OBVIOUS
        <5>5. m \in Nat /\ passed \in Nat /\ n \in Nat /\ step \in 1..n
          BY <1>1, <2>1, <5>4
        <5>6. g[step] = Result(s, m, passed, step)
          BY <4>1, <5>3, <5>4
        <5>7. \A i \in 1..n : g[i] = Turn(port, g[i - 1], i, actions[i], readings[i])
          BY <5>2, <5>4
        <5>8. g[n] = Result(s, m, passed, step)
          BY <5>5, <5>6, <5>7, StoppedStays
        <5>9. QED
          BY <5>3, <5>4, <5>8
      <4>3. InStep(WorldOf(port), was)' = InStep(WorldOf(port), was)
        BY <1>1, <4>1, SessionStays DEF InStep, WorldOf, BareOf
      <4>4. undone'[port].outcome = Result(InStep(WorldOf(port), was)', report'.applied, report'.skipped,
                                           IF phase' = "failed" THEN step' ELSE 0)
        BY <1>3, <3>1, <4>1, <4>2, <4>3
      <4>5. QED
        BY <4>4 DEF EndsWhere
    <3>3. QED
      BY <1>1, <1>4, <2>1, <2>3, <3>1, <3>2
  <2>8. QED
    BY <2>6, <2>7
<1>8. CASE Finish
  <2>1. step > Len(plan) /\ phase' = "unwound" /\ UNCHANGED <<vars, report, step>>
    BY <1>8 DEF Finish
  <2>2. SessionInv' /\ FlatKeys' = FlatKeys /\ UNCHANGED <<world, ledger, treeLedger, applied>>
    BY <1>1, <2>1, SessionStays
  <2>3. step - 1 = Len(plan)
    BY <1>1, <2>1 DEF Unwound
  <2>4. ASSUME NEW port \in Ports PROVE EndsWhere(port)'
    <3>1. PICK was : undone[port].outcome = Result(InStep(WorldOf(port), was), report.applied, report.skipped, 0)
      BY <1>5, <2>3
    <3>2. InStep(WorldOf(port), was)' = InStep(WorldOf(port), was)
      BY <2>2 DEF InStep, WorldOf, BareOf
    <3>3. undone'[port].outcome = Result(InStep(WorldOf(port), was)', report'.applied, report'.skipped,
                                         IF phase' = "failed" THEN step' ELSE 0)
      BY <1>3, <2>1, <3>1, <3>2
    <3>4. QED
      BY <3>3 DEF EndsWhere
  <2>5. QED
    BY <1>1, <1>4, <2>1, <2>2, <2>4
<1>9. QED
  BY <1>6, <1>7, <1>8 DEF Unwind, ValidateCompensation

LEMMA NextUnwind ==
  ASSUME TwoWayLinks, UniformTrees, AgreedDeliveries
  PROVE  UnwindInv /\ [SteadySagasNext]_portSagasVars => UnwindInv'
<1> SUFFICES ASSUME UnwindInv, [SteadySagasNext]_portSagasVars PROVE UnwindInv'
  OBVIOUS
<1>1. SagaType'
  <2>1. [PortSagasNext]_portSagasVars
    BY DEF SteadySagasNext, PortSagasNext
  <2>2. QED
    BY <2>1, NextSagaType DEF UnwindInv
<1>2. CASE UNCHANGED portSagasVars
  <2>1. /\ UNCHANGED <<vars, forward, phase, plan, step, report>>
        /\ UNCHANGED <<rust, golang, python, answer, undone, readings>>
    BY <1>2 DEF portSagasVars, sagaVars
  <2>2. SessionInv' /\ FlatKeys' = FlatKeys /\ UNCHANGED <<world, ledger, treeLedger, applied>>
    BY <2>1, SessionStays DEF UnwindInv
  <2>3. \A port \in Ports : \A was : InStep(WorldOf(port), was)' = InStep(WorldOf(port), was)
    BY <2>2 DEF InStep, WorldOf, BareOf
  <2>4. Evenly <=> Evenly'
    BY <2>1, <2>2 DEF Evenly, InStep, BareOf
  <2>5. \A port \in Ports : /\ OnCourse(port) <=> OnCourse(port)'
                            /\ EndsWhere(port) <=> EndsWhere(port)'
                            /\ InUse(port)' = InUse(port)
    BY <2>1, <2>3 DEF OnCourse, EndsWhere, InUse
  <2>6. Unwound <=> Unwound'
    BY <2>1, <2>5 DEF Unwound
  <2>7. QED
    BY <1>1, <2>1, <2>2, <2>4, <2>6 DEF UnwindInv
<1>3. ASSUME NEW a \in Requests, NEW at \in Times, OnTime(a, at), ForwardAll(a, at) PROVE UnwindInv'
  <2>1. /\ Propose(a, None, at) /\ PortsPropose(a, at) /\ phase # "unwinding" /\ a \in Askable
        /\ phase' = "forward" /\ report' = [applied |-> 0, skipped |-> 0]
    BY <1>3 DEF ForwardAll, Forward, Askable
  <2>2. SessionInv /\ Evenly
    BY <2>1, EvenlyAgain DEF UnwindInv
  <2>3. SessionInv' /\ LockStep'
    BY <1>3, <2>1, <2>2, SessionGoesOn, PortsGoOn
  <2>4. Evenly'
    BY <2>3 DEF LockStep, Evenly
  <2>5. QED
    BY <1>1, <2>1, <2>3, <2>4 DEF UnwindInv
<1>4. ASSUME NEW own \in BOOLEAN, CompensateAll(own) PROVE UnwindInv'
  BY <1>4, StartUnwinds
<1>5. ASSUME NEW at \in Times, Unwind(at),
             Unwinding /\ plan[step].action # NoAction => OnTime(plan[step].action, at)
      PROVE  UnwindInv'
  BY <1>1, <1>5, TurnUnwinds
<1>6. QED
  BY <1>2, <1>3, <1>4, <1>5 DEF SteadySagasNext

LEMMA InitUnwind == PortSagasInit => UnwindInv
<1> SUFFICES ASSUME PortSagasInit PROVE UnwindInv
  OBVIOUS
<1>1. SagaType
  BY InitSagaType
<1>2. SessionInv /\ LockStep
  BY InitSession DEF PortSagasInit
<1>3. Evenly
  BY <1>2 DEF LockStep, Evenly
<1>4. QED
  BY <1>1, <1>2, <1>3 DEF PortSagasInit, SagaInit, UnwindInv

LEMMA UnwindInvAgrees == UnwindInv => PortsUnwindAlike
<1> SUFFICES ASSUME UnwindInv, phase \in {"unwound", "failed"}, NEW port \in DOMAIN undone
             PROVE  /\ undone[port].actions = [i \in DOMAIN plan |-> plan[i].action]
                    /\ undone[port].outcome.applied = report.applied
                    /\ undone[port].outcome.skipped = report.skipped
                    /\ undone[port].outcome.failedAt = IF phase = "failed" THEN step ELSE 0
                    /\ \A c \in Commitments : undone[port].outcome.session.world[c].state = world[c].state
                    /\ undone[port].outcome.session.ledger = ledger
                    /\ undone[port].outcome.session.tree = treeLedger
                    /\ Cardinality(undone[port].outcome.session.applied) = Cardinality(applied)
  BY DEF PortsUnwindAlike
<1>1. Unwound /\ SessionInv /\ port \in Ports
  BY DEF UnwindInv, Unwound
<1>2. undone[port].actions = [i \in DOMAIN plan |-> plan[i].action] /\ EndsWhere(port)
  BY <1>1 DEF Unwound, ActionsOf
<1>3. PICK was : undone[port].outcome =
        Result(InStep(WorldOf(port), was), report.applied, report.skipped, IF phase = "failed" THEN step ELSE 0)
  BY <1>2 DEF EndsWhere
<1> DEFINE s == InStep(WorldOf(port), was)
<1>4. /\ undone[port].outcome.session = s
      /\ undone[port].outcome.applied = report.applied
      /\ undone[port].outcome.skipped = report.skipped
      /\ undone[port].outcome.failedAt = IF phase = "failed" THEN step ELSE 0
  BY <1>3 DEF Result
<1>5. /\ s.world = WorldOf(port) /\ s.ledger = ledger /\ s.tree = treeLedger
      /\ Cardinality(s.applied) = Cardinality(applied)
  BY <1>1 DEF InStep, Port, SessionInv
<1>6. \A c \in Commitments : WorldOf(port)[c].state = world[c].state
  BY DEF WorldOf, BareOf
<1> HIDE DEF s
<1>7. QED
  BY <1>2, <1>4, <1>5, <1>6

\* Wherever trees are linked both ways and priced in one currency and deliveries began
\* before the session did, a flow is unwound alike in the four languages: the plan, what
\* is applied, skipped or stopped, and the state, ledgers and keys it leaves, whichever
\* session a compensation ran in and however many went before it.
THEOREM UnwoundAlike == SteadySagasSpec => []PortsUnwindAlike
<1>1. CASE TwoWayLinks /\ UniformTrees /\ AgreedDeliveries
  <2>1. UnwindInv /\ [SteadySagasNext]_portSagasVars => UnwindInv'
    BY <1>1, NextUnwind
  <2>2. UnwindInv => PortsUnwindAlike
    BY UnwindInvAgrees
  <2>3. QED
    BY <2>1, <2>2, InitUnwind, PTL DEF SteadySagasSpec
<1>2. CASE ~(TwoWayLinks /\ UniformTrees /\ AgreedDeliveries)
  <2>1. PortsUnwindAlike
    BY <1>2 DEF PortsUnwindAlike
  <2>2. QED
    BY <2>1, PTL
<1>3. QED
  BY <1>1, <1>2

-----------------------------------------------------------------------------
(* The conformance runner.  Its rules, written from the schema, cite what the auditor   *)
(* cites; its walk through the tables takes the steps that the library takes.           *)

LEMMA RunnerTreesAlike ==
  ASSUME NEW w \in Worlds, NEW c \in Commitments
  PROVE  Unbalanced(c, w) <=> ~CheckI6(c)
<1> DEFINE kids == Children[c] \cap Commitments
<1>1. DOMAIN w = Commitments
  BY DEF Worlds
<1>2. MapThenSumSet(LAMBDA k : Committed[k].amount, Priced(kids)) = MapThenSumSet(ChildAmount, kids)
  BY WorthAlike
<1>3. QED
  BY <1>1, <1>2 DEF Unbalanced, CheckI6, TreeConsistent, Priced

\* The first acceptance of a history, as the auditor and as the runner look for it.
LEMMA EarliestAcceptance ==
  ASSUME NEW w \in Worlds, NEW c \in Commitments, NEW accepted,
         accepted = {i \in DOMAIN w[c].history : w[c].history[i].to.type = "Accepted"}
  PROVE  /\ accepted = {} <=> ~WasAccepted(w[c])
         /\ accepted # {} => /\ AcceptedAt(w[c]) = w[c].history[Min(accepted)].at
                             /\ AcceptedAt(w[c]) \in Nat
<1> DEFINE h == w[c].history
<1>1. accepted = {} <=> ~WasAccepted(w[c])
  BY DEF WasAccepted
<1>2. DOMAIN h = 1..Len(h) /\ Len(h) \in Nat /\ w[c] \in Commitment
  BY WorldTypes DEF Worlds
<1>3. ASSUME accepted # {}
      PROVE  AcceptedAt(w[c]) = h[Min(accepted)].at
  <2>1. accepted \in SUBSET Nat
    BY <1>2
  <2>2. PICK m \in accepted : \A k \in accepted : m <= k
    BY <1>3, <2>1, LeastNatural
  <2>3. Min(accepted) \in accepted /\ \A k \in accepted : Min(accepted) <= k
    BY <2>2 DEF Min
  <2>4. FirstAccepted(w[c], Min(accepted))
    <3> DEFINE first == Min(accepted)
    <3>1. first \in DOMAIN h /\ first \in Nat /\ h[first].to.type = "Accepted"
      BY <2>1, <2>3
    <3>2. \A k \in accepted : first <= k
      BY <2>3
    <3> HIDE DEF first
    <3>3. \A j \in 1..(first - 1) : j \in DOMAIN h /\ ~(first <= j)
      BY <1>2, <3>1
    <3>4. \A j \in 1..(first - 1) : h[j].to.type # "Accepted"
      BY <3>2, <3>3
    <3>5. FirstAccepted(w[c], first)
      BY <3>1, <3>4 DEF FirstAccepted
    <3>6. QED
      BY <3>5 DEF first
  <2>5. QED
    BY <1>2, <2>4, FirstIsChosen
<1>4. QED
  BY <1>1, <1>3, AcceptedAtType

LEMMA ViolationRule == \A rule, c, place : Violation(rule, c, place).rule = rule
BY DEF Violation

\* What is told of a history, and that it all falls under I-2.
LEMMA HistoryRules ==
  ASSUME NEW w \in Worlds, NEW c \in Commitments
  PROVE  /\ \A v \in HistoryViolations(c, w[c].history) : v.rule = "I-2"
         /\ HistoryViolations(c, w[c].history) # {} <=> Unsteady(w[c].history)
<1> DEFINE h == w[c].history
           illegal == {j \in DOMAIN h : ~IsValidCommitmentTransition(h[j].from, h[j].to)}
           back == {j \in 2..Len(h) : h[j].at < h[j - 1].at}
<1>1. HistoryViolations(c, h) = {Violation("I-2", c, i) : i \in illegal} \cup {Violation("I-2", c, -i) : i \in back}
  BY Zenon DEF HistoryViolations
<1>2. Unsteady(h) <=> illegal # {} \/ back # {}
  BY DEF Unsteady, IsValidTransition, IsValidCommitmentTransition
<1> HIDE DEF illegal, back
<1>3. \A v \in HistoryViolations(c, h) : v.rule = "I-2"
  <2>1. /\ \A v \in {Violation("I-2", c, i) : i \in illegal} : v.rule = "I-2"
        /\ \A v \in {Violation("I-2", c, -i) : i \in back} : v.rule = "I-2"
    BY ViolationRule, Zenon
  <2>2. QED
    BY <1>1, <2>1, Zenon
<1>4. HistoryViolations(c, h) # {} <=> illegal # {} \/ back # {}
  BY <1>1
<1>5. QED
  BY <1>2, <1>3, <1>4

\* A scene: the runner names the rules the auditor cites, no more and no fewer.
LEMMA ScenesAlike ==
  ASSUME NEW p, Scenes(p)
  PROVE  AuditScene(p.world, p.fulfillments) = AuditedRules(p)
<1> DEFINE w == p.world
           f == p.fulfillments
           i1 == {Violation("I-1", x, 0) : x \in {y \in DOMAIN w : ~CheckI1([z \in {y} |-> w[z]])}}
           i2 == UNION {HistoryViolations(x, w[x].history) : x \in DOMAIN w}
           i3 == {Violation("I-3", x, 0) : x \in {y \in DOMAIN w : ~CheckI3(y, w[y])}}
           i4 == {Violation("I-4", IF WasAccepted(w[f[x].commitment]) THEN None ELSE f[x].commitment, x) :
                    x \in {y \in DOMAIN f : \E z \in DOMAIN w : ~CheckI4(z, w[z], [k \in {y} |-> f[k]])}}
           i6 == {Violation("I-6", x, 0) : x \in {y \in DOMAIN w : ~CheckI6(y)}}
<1>1. w \in Worlds /\ DOMAIN w = Commitments
  BY DEF Scenes, Worlds
<1>2. Violations(w, f) = i1 \cup i2 \cup i3 \cup i4 \cup i6
  BY Zenon DEF Violations
<1>3. /\ \A v \in i1 : v.rule = "I-1"
      /\ i1 # {} <=> \E c \in DOMAIN w : OverRefunds(c, w[c].state)
  <2>1. \A c \in DOMAIN w : ~CheckI1([z \in {c} |-> w[z]]) <=> OverRefunds(c, w[c].state)
    BY DEF CheckI1, OverRefunds, ExceedsCommitted
  <2>2. \A v \in i1 : v.rule = "I-1"
    BY ViolationRule, Zenon
  <2>3. i1 # {} <=> \E c \in DOMAIN w : ~CheckI1([z \in {c} |-> w[z]])
    BY Zenon
  <2>4. QED
    BY <2>1, <2>2, <2>3, Zenon
<1>4. /\ \A v \in i2 : v.rule = "I-2"
      /\ i2 # {} <=> \E c \in DOMAIN w : Unsteady(w[c].history)
  <2>1. \A c \in DOMAIN w : /\ \A v \in HistoryViolations(c, w[c].history) : v.rule = "I-2"
                            /\ HistoryViolations(c, w[c].history) # {} <=> Unsteady(w[c].history)
    BY <1>1, HistoryRules
  <2>2. QED
    BY <2>1, Zenon
<1>5. /\ \A v \in i3 : v.rule = "I-3"
      /\ i3 # {} <=> \E c \in DOMAIN w : ReachedAccepted(w[c]) /\ c \notin MayBuy
  <2>1. \A c \in DOMAIN w : ~CheckI3(c, w[c]) <=> ReachedAccepted(w[c]) /\ c \notin MayBuy
    BY DEF CheckI3, ReachedAccepted, WasAccepted
  <2>2. \A v \in i3 : v.rule = "I-3"
    BY ViolationRule, Zenon
  <2>3. i3 # {} <=> \E c \in DOMAIN w : ~CheckI3(c, w[c])
    BY Zenon
  <2>4. QED
    BY <2>1, <2>2, <2>3, Zenon
<1>6. /\ \A v \in i4 : v.rule = "I-4"
      /\ i4 # {} <=> \E c \in DOMAIN w : \E x \in DOMAIN f : f[x].commitment = c /\ StartsEarly(w[c], f[x])
  <2>1. ASSUME NEW c \in DOMAIN w, NEW x \in DOMAIN f
        PROVE  ~CheckI4(c, w[c], [k \in {x} |-> f[k]]) <=> f[x].commitment = c /\ StartsEarly(w[c], f[x])
    <3> DEFINE accepted == {i \in DOMAIN w[c].history : w[c].history[i].to.type = "Accepted"}
    <3>1. /\ accepted = {} <=> ~WasAccepted(w[c])
          /\ accepted # {} => /\ AcceptedAt(w[c]) = w[c].history[Min(accepted)].at
                              /\ AcceptedAt(w[c]) \in Nat
      BY <1>1, <2>1, EarliestAcceptance
    <3>2. StartsEarly(w[c], f[x]) <=>
            IF accepted = {} THEN f[x].state.type \in {"InProgress", "Completed"}
            ELSE f[x].startedAt # None /\ f[x].startedAt < w[c].history[Min(accepted)].at
      BY Zenon DEF StartsEarly
    <3>3. f[x].startedAt # None => f[x].startedAt \in Nat
      BY <2>1 DEF Scenes
    <3>4. CheckI4(c, w[c], [k \in {x} |-> f[k]]) <=>
            (f[x].commitment = c =>
               /\ f[x].state.type \in {"InProgress", "Completed"} => WasAccepted(w[c])
               /\ f[x].startedAt # None /\ WasAccepted(w[c]) => f[x].startedAt >= AcceptedAt(w[c]))
      BY DEF CheckI4
    <3> HIDE DEF accepted
    <3>5. QED
      BY <3>1, <3>2, <3>3, <3>4
  <2>2. \A v \in i4 : v.rule = "I-4"
    BY ViolationRule, Zenon
  <2>3. i4 # {} <=> \E x \in DOMAIN f, c \in DOMAIN w : ~CheckI4(c, w[c], [k \in {x} |-> f[k]])
    BY Zenon
  <2>4. QED
    BY <2>1, <2>2, <2>3, Zenon
<1>7. /\ \A v \in i6 : v.rule = "I-6"
      /\ i6 # {} <=> \E c \in DOMAIN w : Unbalanced(c, w)
  <2>1. \A c \in DOMAIN w : ~CheckI6(c) <=> Unbalanced(c, w)
    BY <1>1, RunnerTreesAlike
  <2>2. \A v \in i6 : v.rule = "I-6"
    BY ViolationRule, Zenon
  <2>3. i6 # {} <=> \E c \in DOMAIN w : ~CheckI6(c)
    BY Zenon
  <2>4. QED
    BY <2>1, <2>2, <2>3, Zenon
<1> DEFINE told == {v.rule : v \in i1 \cup i2 \cup i3 \cup i4 \cup i6}
<1>8. AuditedRules(p) = told
  BY <1>2 DEF AuditedRules
<1> HIDE DEF i1, i2, i3, i4, i6
<1>9. told = {rule \in {"I-1", "I-2", "I-3", "I-4", "I-6"} :
                \/ rule = "I-1" /\ i1 # {}
                \/ rule = "I-2" /\ i2 # {}
                \/ rule = "I-3" /\ i3 # {}
                \/ rule = "I-4" /\ i4 # {}
                \/ rule = "I-6" /\ i6 # {}}
  BY <1>3, <1>4, <1>5, <1>6, <1>7
<1>10. QED
  BY <1>3, <1>4, <1>5, <1>6, <1>7, <1>8, <1>9 DEF AuditScene

\* A breakdown: the runner's sum is the library's.
LEMMA BreakdownsAlike ==
  ASSUME NEW b, IsListOfParts(b.components)
  PROVE  BreaksDown(b) <=> AddsUp(b)
<1> DEFINE parts == b.components
           S == DOMAIN parts
           amounts == [i \in S |-> parts[i].amount]
           Table(g) == g = [s \in SUBSET S |->
                              IF s = {} THEN 0 ELSE parts[Chosen(s)].amount + g[s \ {Chosen(s)}]]
           iter == CHOOSE g : Table(g)
<1>1. IsFiniteSet(S)
  BY DEF IsListOfParts
<1>2. \A s \in SUBSET S : s # {} => amounts[Chosen(s)] = parts[Chosen(s)].amount
  BY ChosenIn
<1>3. \A g : SumTable(g, amounts, S) <=> Table(g)
  <2> SUFFICES ASSUME NEW g PROVE SumTable(g, amounts, S) <=> Table(g)
    OBVIOUS
  <2>1. [s \in SUBSET S |-> IF s = {} THEN 0 ELSE amounts[Chosen(s)] + g[s \ {Chosen(s)}]]
          = [s \in SUBSET S |-> IF s = {} THEN 0 ELSE parts[Chosen(s)].amount + g[s \ {Chosen(s)}]]
    BY <1>2
  <2>2. QED
    BY <2>1 DEF SumTable
<1>4. Table(iter)
  <2>1. \E g : Table(g)
    BY <1>1, <1>3, SumTableExists, Zenon
  <2>2. QED
    BY <2>1, Zenon
<1>5. FoldSeq(LAMBDA part, sum : part.amount + sum, 0, parts) = iter[S]
  BY DEF FoldSeq, FoldFunction, FoldFunctionOnSet, MapThenFoldSet, Chosen
<1> HIDE DEF iter, Table
<1>6. PICK g : SumTable(g, amounts, S) /\ SumFunctionOnSet(amounts, S) = g[S]
  BY <1>1, SumIs
<1>7. iter[S] = g[S]
  BY <1>1, <1>3, <1>4, <1>6, SumTablesAgree
<1>8. SumComponents(parts) = FoldSeq(LAMBDA part, sum : part.amount + sum, 0, parts)
  BY <1>5, <1>6, <1>7 DEF SumComponents, SumOver
<1>9. QED
  BY <1>8 DEF BreaksDown, AddsUp

-----------------------------------------------------------------------------
(* Walks.  Both sides are functions of the number of steps behind.                       *)

\* A function on 0..n that starts at `first` and goes by `take`.
Stepwise(g, n, first, take) ==
  g = [i \in 0..n |-> IF i = 0 THEN first ELSE take[i][g[i - 1]]]

\* There is one, and its values are where the steps lead.
LEMMA StepwiseExists ==
  ASSUME NEW n \in Nat, NEW X, NEW first \in X, NEW take \in [1..n -> [X -> X]]
  PROVE  \E g \in [0..n -> X] : Stepwise(g, n, first, take)
<1> DEFINE Right(g, m) == g \in [0..m -> X] /\ Stepwise(g, m, first, take)
           bad == {m \in 0..n : ~\E g : Right(g, m)}
<1>1. SUFFICES ASSUME bad # {} PROVE FALSE
  OBVIOUS
<1>2. PICK m \in bad : \A k \in bad : m <= k
  <2>1. bad \in SUBSET Nat
    OBVIOUS
  <2> HIDE DEF bad
  <2>2. QED
    BY <1>1, <2>1, LeastNatural
<1>3. m \in 0..n /\ ~\E g : Right(g, m)
  OBVIOUS
<1>4. m # 0
  <2>1. Right([i \in 0..0 |-> first], 0)
    BY DEF Stepwise
  <2>2. QED
    BY <1>3, <2>1
<1>5. PICK g : Right(g, m - 1)
  <2>1. m - 1 \in 0..n /\ ~(m <= m - 1)
    BY <1>3, <1>4
  <2>2. m - 1 \notin bad
    BY <1>2, <2>1
  <2> HIDE DEF Right
  <2>3. QED
    BY <2>1, <2>2
<1>6. g \in [0..(m - 1) -> X] /\ \A i \in 0..(m - 1) : g[i] = IF i = 0 THEN first ELSE take[i][g[i - 1]]
  BY <1>5 DEF Stepwise
<1> DEFINE h == [i \in 0..m |-> IF i = m THEN take[m][g[m - 1]] ELSE g[i]]
<1>7. take[m] \in [X -> X] /\ g[m - 1] \in X
  BY <1>3, <1>4, <1>6
<1>8. h \in [0..m -> X]
  BY <1>3, <1>6, <1>7
<1>9. ASSUME NEW i \in 0..m PROVE h[i] = IF i = 0 THEN first ELSE take[i][h[i - 1]]
  <2>1. CASE i = m
    <3>1. m - 1 \in 0..m /\ m - 1 # m
      BY <1>3, <1>4
    <3>2. h[m - 1] = g[m - 1]
      BY <3>1
    <3>3. h[m] = take[m][g[m - 1]]
      BY <1>3
    <3> HIDE DEF h
    <3>4. QED
      BY <1>4, <2>1, <3>2, <3>3
  <2>2. CASE i # m
    <3>1. i \in 0..(m - 1)
      BY <1>3, <1>9, <2>2
    <3>2. h[i] = g[i]
      BY <2>2
    <3>3. i # 0 => i - 1 \in 0..m /\ i - 1 # m
      BY <1>3, <1>9, <2>2
    <3>4. i # 0 => h[i - 1] = g[i - 1]
      BY <3>3
    <3> HIDE DEF h
    <3>5. QED
      BY <1>6, <3>1, <3>2, <3>4
  <2>3. QED
    BY <2>1, <2>2
<1>10. Right(h, m)
  <2>1. h = [i \in 0..m |-> h[i]]
    OBVIOUS
  <2> HIDE DEF h
  <2>2. QED
    BY <1>8, <1>9, <2>1 DEF Stepwise
<1>11. QED
  BY <1>3, <1>10

\* What goes by the same steps arrives at the same places.
LEMMA StepwiseAgree ==
  ASSUME NEW n \in Nat, NEW first, NEW take, NEW g, Stepwise(g, n, first, take),
         NEW h, Stepwise(h, n, first, take)
  PROVE  g = h
<1> DEFINE bad == {m \in 0..n : g[m] # h[m]}
<1>1. /\ \A i \in 0..n : g[i] = IF i = 0 THEN first ELSE take[i][g[i - 1]]
      /\ \A i \in 0..n : h[i] = IF i = 0 THEN first ELSE take[i][h[i - 1]]
      /\ g = [i \in 0..n |-> g[i]] /\ h = [i \in 0..n |-> h[i]]
  BY DEF Stepwise
<1>2. bad = {}
  <2> SUFFICES ASSUME bad # {} PROVE FALSE
    OBVIOUS
  <2>1. PICK m \in bad : \A k \in bad : m <= k
    <3>1. bad \in SUBSET Nat
      OBVIOUS
    <3> HIDE DEF bad
    <3>2. QED
      BY <3>1, LeastNatural
  <2>2. m \in 0..n /\ g[m] # h[m]
    OBVIOUS
  <2>3. m # 0
    BY <1>1, <2>2
  <2>4. m - 1 \in 0..n /\ ~(m <= m - 1)
    BY <2>2, <2>3
  <2>5. g[m - 1] = h[m - 1]
    BY <2>1, <2>4
  <2>6. QED
    BY <1>1, <2>2, <2>3, <2>5
<1>3. QED
  BY <1>1, <1>2

StatesOf(p) == IF p.primitive = "commitment" THEN States ELSE Stages

Walked(states) == Seq([from : states, to : states, at : Nat, actor : {Mover}])

\* What the library hands on along a walk: stamped with the number of the moves before.
Objects(p) ==
  {x \in IF p.primitive = "commitment" THEN [state : States, history : Walked(States)] ELSE Handled :
     LastAt(x) <= Len(x.history)}

LEMMA ObjectTypes ==
  ASSUME NEW p, NEW x \in Objects(p)
  PROVE  /\ x.state \in StatesOf(p) /\ x.history \in Walked(StatesOf(p))
         /\ Len(x.history) \in Nat /\ LastAt(x) \in Nat /\ LastAt(x) <= Len(x.history)
<1>1. x.state \in StatesOf(p) /\ x.history \in Walked(StatesOf(p)) /\ LastAt(x) <= Len(x.history)
  BY DEF Objects, StatesOf, Handled, Walked
<1>2. Len(x.history) \in Nat
  BY <1>1, LenProperties DEF Walked
<1>3. LastAt(x) \in Nat
  <2>1. CASE x.history = <<>>
    BY <2>1 DEF LastAt
  <2>2. CASE x.history # <<>>
    <3>1. Len(x.history) \in 1..Len(x.history)
      BY <1>1, <1>2, <2>2, EmptySeq DEF Walked
    <3>2. x.history[Len(x.history)] \in [from : StatesOf(p), to : StatesOf(p), at : Nat, actor : {Mover}]
      BY <1>1, <3>1, ElementOfSeq DEF Walked
    <3>3. QED
      BY <2>2, <3>2 DEF LastAt
  <2>3. QED
    BY <2>1, <2>2
<1>4. QED
  BY <1>1, <1>2, <1>3

\* An entry more: the history is another one, and its last stamp the entry's.
LEMMA OneMove ==
  ASSUME NEW p, NEW x \in Objects(p), NEW to \in StatesOf(p), NEW e,
         e = [from |-> x.state, to |-> to, at |-> Len(x.history), actor |-> Mover]
  PROVE  LET h == Append(x.history, e)
         IN /\ h \in Walked(StatesOf(p)) /\ h # x.history /\ h # <<>>
            /\ Len(h) = Len(x.history) + 1 /\ h[Len(h)].at = Len(x.history)
<1> DEFINE h == Append(x.history, e)
           E == [from : StatesOf(p), to : StatesOf(p), at : Nat, actor : {Mover}]
<1>1. x.state \in StatesOf(p) /\ x.history \in Seq(E) /\ Len(x.history) \in Nat
  BY ObjectTypes DEF Walked
<1>2. e \in E
  BY <1>1
<1> HIDE DEF E
<1>3. h \in Seq(E) /\ Len(h) = Len(x.history) + 1 /\ h[Len(x.history) + 1] = e
  BY <1>1, <1>2, AppendProperties
<1>4. h # x.history /\ h # <<>>
  <2>1. Len(h) # Len(x.history) /\ Len(h) # 0 /\ Len(<<>>) = 0
    BY <1>1, <1>3, EmptySeq
  <2> HIDE DEF h
  <2>2. QED
    BY <2>1
<1>5. QED
  BY <1>3, <1>4 DEF Walked, E

\* An attempt moves the object exactly when the tables allow it.
LEMMA AttemptedRight ==
  ASSUME NEW p, p.primitive \in {"commitment", "fulfillment"},
         NEW x \in Objects(p), NEW to \in StatesOf(p), NEW y, y = Attempted(p, x, to, Len(x.history))
  PROVE  /\ y \in Objects(p)
         /\ y.state = IF IsValidTransition(p.primitive, x.state, to) THEN to ELSE x.state
         /\ y # x <=> IsValidTransition(p.primitive, x.state, to)
<1> DEFINE at == Len(x.history)
           e == [from |-> x.state, to |-> to, at |-> at, actor |-> Mover]
           h == Append(x.history, e)
           valid == IsValidTransition(p.primitive, x.state, to)
<1>1. at \in Nat /\ LastAt(x) \in Nat /\ LastAt(x) <= at /\ x.state \in StatesOf(p)
  BY ObjectTypes
<1>2. /\ h \in Walked(StatesOf(p)) /\ h # x.history /\ h # <<>>
      /\ Len(h) = at + 1 /\ h[Len(h)].at = at
  BY OneMove
<1>3. CASE p.primitive = "commitment"
  <2>1. valid <=> TransitionOk(x, to, at)
    BY <1>1, <1>3 DEF TransitionOk, IsValidTransition, IsValidCommitmentTransition
  <2>2. y = IF valid THEN Transitioned(x, to, Mover, at) ELSE x
    BY <1>3, <2>1 DEF Attempted
  <2>3. Transitioned(x, to, Mover, at) = [state |-> to, history |-> h]
    BY DEF Transitioned
  <2> HIDE DEF h, valid
  <2>4. [state |-> to, history |-> h] \in Objects(p)
    <3>1. LastAt([state |-> to, history |-> h]) <= Len([state |-> to, history |-> h].history)
      BY <1>1, <1>2 DEF LastAt
    <3>2. [state |-> to, history |-> h] \in [state : States, history : Walked(States)]
      BY <1>2, <1>3 DEF StatesOf
    <3>3. QED
      BY <1>3, <3>1, <3>2 DEF Objects
  <2>5. QED
    BY <1>2, <2>2, <2>3, <2>4 DEF valid
<1>4. CASE p.primitive = "fulfillment"
  <2> DEFINE f == [x EXCEPT !.state = to, !.history = h,
                            !.startedAt = IF to.type = "InProgress" /\ @ = None THEN at ELSE @,
                            !.completedAt = IF to.type = "Completed" THEN at ELSE @]
  <2>1. x \in Handled /\ StatesOf(p) = Stages
    BY <1>4 DEF Objects, StatesOf
  <2>2. valid <=> IsValidFulfillmentTransition(x.state, to)
    BY <1>4 DEF IsValidTransition, IsValidFulfillmentTransition
  <2>3. ~(at < (IF x.history = <<>> THEN at ELSE x.history[Len(x.history)].at))
    BY <1>1 DEF LastAt
  <2>4. FulfillmentMoved(x, to, Mover, at) = IF valid THEN f ELSE None
    BY <2>1, <2>2, <2>3 DEF FulfillmentMoved, Handled
  <2> HIDE DEF valid, h
  <2>5. f \in Handled /\ f.state = to /\ f.history = h
    BY <1>1, <1>2, <2>1 DEF Handled, Walked
  <2> HIDE DEF f
  <2>6. f # None
    BY <2>5, HandledAssumption
  <2>7. f \in Objects(p)
    <3>1. LastAt(f) <= Len(f.history)
      BY <1>1, <1>2, <2>5 DEF LastAt
    <3>2. QED
      BY <1>4, <2>5, <3>1 DEF Objects
  <2>8. y = IF valid THEN f ELSE x
    BY <1>4, <2>4, <2>6 DEF Attempted
  <2>9. f # x
    BY <1>2, <2>5
  <2>10. QED
    BY <2>5, <2>7, <2>8, <2>9 DEF valid
<1>5. QED
  BY <1>3, <1>4

LEMMA WalkTypes ==
  ASSUME NEW p, Walks(p)
  PROVE  /\ p.primitive \in {"commitment", "fulfillment"} /\ p.initial \in StatesOf(p)
         /\ Len(p.steps) \in Nat /\ DOMAIN p.steps = 1..Len(p.steps)
         /\ \A i \in 1..Len(p.steps) : p.steps[i].to \in StatesOf(p)
<1> DEFINE S == [to : StatesOf(p), expect : {"accept", "reject"}]
<1>1. p.primitive \in {"commitment", "fulfillment"} /\ p.initial \in StatesOf(p) /\ p.steps \in Seq(S)
  BY DEF Walks, StatesOf
<1>2. \A s \in S : s.to \in StatesOf(p)
  OBVIOUS
<1> HIDE DEF S
<1>3. Len(p.steps) \in Nat /\ DOMAIN p.steps = 1..Len(p.steps)
  BY <1>1, LenProperties
<1>4. \A i \in 1..Len(p.steps) : p.steps[i] \in S
  BY <1>1, <1>3, ElementOfSeq
<1>5. QED
  BY <1>1, <1>2, <1>3, <1>4

\* The states the runner passes.
LEMMA PassedIs ==
  ASSUME NEW p, Walks(p)
  PROVE  /\ StatesPassed(p) \in [0..Len(p.steps) -> StatesOf(p)]
         /\ \A i \in 0..Len(p.steps) :
              StatesPassed(p)[i] =
                IF i = 0 THEN p.initial
                ELSE IF IsValidTransition(p.primitive, StatesPassed(p)[i - 1], p.steps[i].to) THEN p.steps[i].to
                ELSE StatesPassed(p)[i - 1]
<1> DEFINE n == Len(p.steps)
           X == StatesOf(p)
           After(s, i) == IF IsValidTransition(p.primitive, s, p.steps[i].to) THEN p.steps[i].to ELSE s
           Table(g) == g = [i \in 0..n |-> IF i = 0 THEN p.initial ELSE After(g[i - 1], i)]
           take == [i \in 1..n |-> [s \in X |-> After(s, i)]]
           passed == CHOOSE g : Table(g)
<1>1. n \in Nat /\ p.initial \in X /\ take \in [1..n -> [X -> X]]
  BY WalkTypes
<1>2. PICK g \in [0..n -> X] : Stepwise(g, n, p.initial, take)
  <2> HIDE DEF n, X, take
  <2>1. QED
    BY <1>1, StepwiseExists
<1>3. Table(g)
  <2>1. \A i \in 0..n : i # 0 => take[i][g[i - 1]] = After(g[i - 1], i)
    <3>1. ASSUME NEW i \in 0..n, i # 0 PROVE i \in 1..n /\ i - 1 \in 0..n
      BY <1>1, <3>1
    <3>2. ASSUME NEW i \in 0..n, i # 0 PROVE take[i][g[i - 1]] = After(g[i - 1], i)
      <4>1. i \in 1..n /\ g[i - 1] \in X
        BY <1>2, <3>1, <3>2
      <4> HIDE DEF n, X, After
      <4>2. QED
        BY <4>1
    <3>3. QED
      BY <3>2
  <2> HIDE DEF take, After
  <2>2. QED
    BY <1>2, <2>1 DEF Stepwise
<1>4. Table(passed)
  <2> HIDE DEF Table
  <2>1. QED
    BY <1>3
<1>5. StatesPassed(p) = passed
  BY DEF StatesPassed
<1> HIDE DEF passed
<1>6. passed = g
  <2> DEFINE Y == {g[i] : i \in 0..n} \cup {passed[i] : i \in 0..n}
             through == [i \in 1..n |-> [s \in Y |-> After(s, i)]]
  <2>1. ASSUME NEW f \in {g, passed}
        PROVE  Stepwise(f, n, p.initial, through)
    <3>1. ASSUME NEW i \in 0..n, i # 0 PROVE through[i][f[i - 1]] = After(f[i - 1], i)
      <4>1. i \in 1..n /\ i - 1 \in 0..n
        BY <1>1, <3>1
      <4>2. f[i - 1] \in Y
        BY <2>1, <4>1
      <4> HIDE DEF n, Y, After
      <4>3. QED
        BY <4>1, <4>2
    <3>2. Table(f)
      BY <1>3, <1>4, <2>1
    <3> HIDE DEF through, After
    <3>3. QED
      BY <3>1, <3>2 DEF Stepwise
  <2> HIDE DEF through, n
  <2>2. QED
    BY <1>1, <2>1, StepwiseAgree
<1>7. QED
  BY <1>2, <1>3, <1>5, <1>6

\* The objects the library hands on.
LEMMA ReplayedIs ==
  ASSUME NEW p, Walks(p)
  PROVE  /\ Replayed(p) \in [0..Len(p.steps) -> Objects(p)]
         /\ Replayed(p)[0] = Unmoved(p)
         /\ \A i \in 1..Len(p.steps) :
              Replayed(p)[i] = Attempted(p, Replayed(p)[i - 1], p.steps[i].to, Len(Replayed(p)[i - 1].history))
<1> DEFINE n == Len(p.steps)
           X == Objects(p)
           After(x, i) == Attempted(p, x, p.steps[i].to, Len(x.history))
           Table(g) == g = [i \in 0..n |-> IF i = 0 THEN Unmoved(p) ELSE After(g[i - 1], i)]
           take == [i \in 1..n |-> [x \in X |-> After(x, i)]]
           replay == CHOOSE g : Table(g)
<1>1. n \in Nat /\ take \in [1..n -> [X -> X]]
  <2>1. ASSUME NEW i \in 1..n, NEW x \in X PROVE After(x, i) \in X
    BY <2>1, WalkTypes, AttemptedRight
  <2>2. n \in Nat
    BY WalkTypes
  <2> HIDE DEF After, X, n
  <2>3. QED
    BY <2>1, <2>2
<1>2. Unmoved(p) \in X
  <2>1. <<>> \in Walked(StatesOf(p)) /\ Len(<<>>) = 0
    BY EmptySeq DEF Walked
  <2>2. CASE p.primitive = "commitment"
    <3>1. Unmoved(p) = [state |-> p.initial, history |-> <<>>]
      BY <2>2 DEF Unmoved
    <3>2. LastAt(Unmoved(p)) <= Len(Unmoved(p).history)
      BY <2>1, <3>1 DEF LastAt
    <3>3. QED
      BY <2>1, <2>2, <3>1, <3>2, WalkTypes DEF Objects, StatesOf
  <2>3. CASE p.primitive # "commitment"
    <3>1. Unmoved(p) = [commitment |-> None, state |-> p.initial, history |-> <<>>,
                        startedAt |-> None, completedAt |-> None]
      BY <2>3 DEF Unmoved, NewFulfillment
    <3>2. LastAt(Unmoved(p)) <= Len(Unmoved(p).history)
      BY <2>1, <3>1 DEF LastAt
    <3>3. Unmoved(p) \in Handled
      BY <2>1, <2>3, <3>1, WalkTypes DEF Handled, StatesOf, Walked
    <3>4. QED
      BY <2>3, <3>2, <3>3 DEF Objects
  <2>4. QED
    BY <2>2, <2>3
<1>3. PICK g \in [0..n -> X] : Stepwise(g, n, Unmoved(p), take)
  <2> HIDE DEF n, X, take
  <2>1. QED
    BY <1>1, <1>2, StepwiseExists
<1>4. Table(g)
  <2>1. ASSUME NEW i \in 0..n, i # 0 PROVE take[i][g[i - 1]] = After(g[i - 1], i)
    <3>1. i \in 1..n /\ i - 1 \in 0..n
      BY <1>1, <2>1
    <3>2. g[i - 1] \in X
      BY <1>3, <3>1
    <3> HIDE DEF n, X, After
    <3>3. QED
      BY <3>1, <3>2
  <2> HIDE DEF take, After
  <2>2. QED
    BY <1>3, <2>1 DEF Stepwise
<1>5. Table(replay)
  <2> HIDE DEF Table
  <2>1. QED
    BY <1>4
<1>6. Replayed(p) = replay
  BY DEF Replayed
<1> HIDE DEF replay
<1>7. replay = g
  <2> DEFINE Y == {g[i] : i \in 0..n} \cup {replay[i] : i \in 0..n}
             through == [i \in 1..n |-> [x \in Y |-> After(x, i)]]
  <2>1. ASSUME NEW f \in {g, replay}
        PROVE  Stepwise(f, n, Unmoved(p), through)
    <3>1. ASSUME NEW i \in 0..n, i # 0 PROVE through[i][f[i - 1]] = After(f[i - 1], i)
      <4>1. i \in 1..n /\ i - 1 \in 0..n
        BY <1>1, <3>1
      <4>2. f[i - 1] \in Y
        BY <2>1, <4>1
      <4> HIDE DEF n, Y, After
      <4>3. QED
        BY <4>1, <4>2
    <3>2. Table(f)
      BY <1>4, <1>5, <2>1
    <3> HIDE DEF through, After
    <3>3. QED
      BY <3>1, <3>2 DEF Stepwise
  <2> HIDE DEF through, n
  <2>2. QED
    BY <1>1, <2>1, StepwiseAgree
<1>8. g[0] = Unmoved(p) /\ \A i \in 1..n : g[i] = After(g[i - 1], i)
  <2>1. 0 \in 0..n /\ \A i \in 1..n : i \in 0..n /\ i # 0
    BY <1>1
  <2> HIDE DEF After, n
  <2>2. QED
    BY <1>4, <2>1
<1>9. QED
  BY <1>3, <1>6, <1>7, <1>8

\* A walk: the library takes a step when the runner's table has it.
LEMMA WalksAlike ==
  ASSUME NEW p, Walks(p)
  PROVE  StepsAsExpected(p) <=> TakenByLibrary(p)
<1> DEFINE n == Len(p.steps)
           R == Replayed(p)
           P == StatesPassed(p)
           told == [i \in 0..n |-> R[i].state]
           take == [i \in 1..n |-> [s \in StatesOf(p) |->
                      IF IsValidTransition(p.primitive, s, p.steps[i].to) THEN p.steps[i].to ELSE s]]
<1>1. /\ n \in Nat /\ DOMAIN p.steps = 1..n /\ p.primitive \in {"commitment", "fulfillment"}
      /\ \A i \in 1..n : p.steps[i].to \in StatesOf(p)
      /\ \A i \in 1..n : i \in 0..n /\ i - 1 \in 0..n
  <2>1. n \in Nat /\ DOMAIN p.steps = 1..n /\ p.primitive \in {"commitment", "fulfillment"}
        /\ \A i \in 1..n : p.steps[i].to \in StatesOf(p)
    BY WalkTypes
  <2> HIDE DEF n
  <2>2. QED
    BY <2>1
<1>2. /\ R \in [0..n -> Objects(p)] /\ R[0] = Unmoved(p)
      /\ \A i \in 1..n : R[i] = Attempted(p, R[i - 1], p.steps[i].to, Len(R[i - 1].history))
  BY ReplayedIs
<1>3. /\ P \in [0..n -> StatesOf(p)]
      /\ \A i \in 0..n :
           P[i] = IF i = 0 THEN p.initial
                  ELSE IF IsValidTransition(p.primitive, P[i - 1], p.steps[i].to) THEN p.steps[i].to
                  ELSE P[i - 1]
  BY PassedIs
<1> HIDE DEF n, R, P
<1>4. ASSUME NEW i \in 1..n
      PROVE  /\ R[i].state = IF IsValidTransition(p.primitive, R[i - 1].state, p.steps[i].to)
                             THEN p.steps[i].to ELSE R[i - 1].state
             /\ R[i] # R[i - 1] <=> IsValidTransition(p.primitive, R[i - 1].state, p.steps[i].to)
  <2>1. R[i - 1] \in Objects(p) /\ p.steps[i].to \in StatesOf(p)
    BY <1>1, <1>2, <1>4
  <2>2. QED
    BY <1>1, <1>2, <1>4, <2>1, AttemptedRight
<1>5. \A i \in 0..n : R[i].state \in StatesOf(p)
  BY <1>2, ObjectTypes
<1>6. R[0].state = p.initial
  BY <1>2 DEF Unmoved, NewFulfillment
<1>7. Stepwise(told, n, p.initial, take)
  <2>1. ASSUME NEW i \in 0..n PROVE told[i] = IF i = 0 THEN p.initial ELSE take[i][told[i - 1]]
    <3>1. CASE i = 0
      BY <1>6, <2>1, <3>1
    <3>2. CASE i # 0
      <4>1. i \in 1..n
        BY <1>1, <2>1, <3>2
      <4>2. take[i][R[i - 1].state] = R[i].state
        BY <1>1, <1>4, <1>5, <4>1
      <4>3. told[i] = R[i].state /\ told[i - 1] = R[i - 1].state
        BY <1>1, <4>1
      <4> HIDE DEF told, take
      <4>4. QED
        BY <3>2, <4>2, <4>3
    <3>3. QED
      BY <3>1, <3>2
  <2>2. told = [i \in 0..n |-> told[i]]
    OBVIOUS
  <2> HIDE DEF told, take
  <2>3. QED
    BY <2>1, <2>2 DEF Stepwise
<1>8. Stepwise(P, n, p.initial, take)
  <2>1. ASSUME NEW i \in 0..n PROVE P[i] = IF i = 0 THEN p.initial ELSE take[i][P[i - 1]]
    <3>1. CASE i = 0
      BY <1>3, <2>1, <3>1
    <3>2. CASE i # 0
      <4>1. i \in 1..n /\ P[i - 1] \in StatesOf(p)
        BY <1>1, <1>3, <2>1, <3>2
      <4>2. take[i][P[i - 1]] = IF IsValidTransition(p.primitive, P[i - 1], p.steps[i].to)
                                THEN p.steps[i].to ELSE P[i - 1]
        BY <4>1
      <4> HIDE DEF take
      <4>3. QED
        BY <1>3, <2>1, <3>2, <4>2
    <3>3. QED
      BY <3>1, <3>2
  <2>2. P = [i \in 0..n |-> P[i]]
    BY <1>3
  <2> HIDE DEF take
  <2>3. QED
    BY <2>1, <2>2 DEF Stepwise
<1>9. \A i \in 0..n : P[i] = R[i].state
  <2>1. told = P
    <3> HIDE DEF told, take
    <3>1. QED
      BY <1>1, <1>7, <1>8, StepwiseAgree
  <2>2. QED
    BY <2>1
<1>10. \A i \in 1..n : IsValidTransition(p.primitive, P[i - 1], p.steps[i].to) <=> R[i] # R[i - 1]
  BY <1>1, <1>4, <1>9
<1>11. QED
  BY <1>1, <1>10 DEF StepsAsExpected, TakenByLibrary, R, P

-----------------------------------------------------------------------------
(* The suite.                                                                            *)

RulesOf(kind) ==
  IF kind = "scene" THEN {"I-1", "I-2", "I-3", "I-4", "I-6"} ELSE {"SEQUENCE", "money_breakdown_sum"}
Verdicts == [accepted : BOOLEAN, rules : SUBSET (RulesOf("scene") \cup RulesOf("other"))]

LEMMA JudgementIs ==
  ASSUME NEW rules \in SUBSET (RulesOf("scene") \cup RulesOf("other"))
  PROVE  /\ Judgement(rules) \in Verdicts
         /\ Judgement(rules).accepted <=> rules = {}
         /\ Judgement(rules).rules = rules
<1> DEFINE R == RulesOf("scene") \cup RulesOf("other")
<1>1. rules \in SUBSET R /\ (rules = {}) \in BOOLEAN
  OBVIOUS
<1> HIDE DEF R
<1>2. [accepted |-> rules = {}, rules |-> rules] \in [accepted : BOOLEAN, rules : SUBSET R]
  BY <1>1
<1>3. QED
  BY <1>2 DEF Judgement, Verdicts, R

LEMMA OnlyRuleIs ==
  /\ DOMAIN OnlyRule = {"transition-sequence", "money-breakdown"}
  /\ OnlyRule["transition-sequence"] = "SEQUENCE" /\ OnlyRule["money-breakdown"] = "money_breakdown_sum"
  /\ {"SEQUENCE"} \in SUBSET RulesOf("other") /\ {"money_breakdown_sum"} \in SUBSET RulesOf("other")
BY DEF OnlyRule, RulesOf

\* One verdict or the other on a fixture that can break one rule only.
LEMMA UnlessIs ==
  ASSUME NEW condition \in BOOLEAN, NEW kind \in DOMAIN OnlyRule, NEW r, r = Unless(condition, OnlyRule[kind])
  PROVE  r \in Verdicts /\ (r.accepted <=> condition) /\ (~r.accepted => r.rules = {OnlyRule[kind]})
<1> DEFINE R == IF condition THEN {} ELSE {OnlyRule[kind]}
<1>1. R \in SUBSET (RulesOf("scene") \cup RulesOf("other")) /\ (R = {} <=> condition)
  BY OnlyRuleIs
<1>2. r = Judgement(R)
  BY DEF Unless
<1>3. r \in Verdicts /\ (r.accepted <=> R = {}) /\ r.rules = R
  <2> HIDE DEF R
  <2>1. QED
    BY <1>1, <1>2, JudgementIs
<1>4. QED
  BY <1>1, <1>3

LEMMA FixturesAlike ==
  ASSUME NEW fixture, SchemaAllows(fixture), NEW r, r = RunFixture(fixture)
  PROVE  /\ r \in Verdicts
         /\ r.accepted <=> LibraryAccepts(fixture)
         /\ fixture.kind = "scene" => r.rules = AuditedRules(fixture.payload) /\ (r.accepted <=> r.rules = {})
         /\ fixture.kind # "scene" =>
              fixture.kind \in DOMAIN OnlyRule /\ (~r.accepted => r.rules = {OnlyRule[fixture.kind]})
<1> DEFINE p == fixture.payload
<1>1. CASE fixture.kind = "scene" /\ Scenes(p)
  <2>1. r = Judgement(AuditScene(p.world, p.fulfillments))
    BY <1>1 DEF RunFixture
  <2>2. AuditScene(p.world, p.fulfillments) = AuditedRules(p)
    BY <1>1, ScenesAlike
  <2>3. AuditScene(p.world, p.fulfillments) \subseteq RulesOf("scene")
    BY DEF AuditScene, RulesOf
  <2>4. LibraryAccepts(fixture) <=> AuditedRules(p) = {}
    BY <1>1 DEF LibraryAccepts
  <2>5. r \in Verdicts /\ (r.accepted <=> AuditedRules(p) = {}) /\ r.rules = AuditedRules(p)
    BY <2>1, <2>2, <2>3, JudgementIs
  <2>6. QED
    BY <1>1, <2>4, <2>5
<1>2. CASE fixture.kind = "transition-sequence" /\ Walks(p)
  <2>1. r = Unless(StepsAsExpected(p), "SEQUENCE")
    BY <1>2 DEF RunFixture
  <2>2. StepsAsExpected(p) <=> TakenByLibrary(p)
    BY <1>2, WalksAlike
  <2>3. LibraryAccepts(fixture) <=> TakenByLibrary(p)
    BY <1>2 DEF LibraryAccepts
  <2>4. fixture.kind \in DOMAIN OnlyRule /\ r = Unless(StepsAsExpected(p), OnlyRule[fixture.kind]) /\ StepsAsExpected(p) \in BOOLEAN
    BY <1>2, <2>1, OnlyRuleIs DEF StepsAsExpected
  <2>5. r \in Verdicts /\ (r.accepted <=> StepsAsExpected(p)) /\ (~r.accepted => r.rules = {OnlyRule[fixture.kind]})
    BY <2>4, UnlessIs
  <2>6. QED
    BY <1>2, <2>2, <2>3, <2>4, <2>5
<1>3. CASE fixture.kind = "money-breakdown" /\ IsListOfParts(p.components)
  <2>1. r = Unless(BreaksDown(p), "money_breakdown_sum")
    BY <1>3 DEF RunFixture
  <2>2. BreaksDown(p) <=> AddsUp(p)
    BY <1>3, BreakdownsAlike
  <2>3. LibraryAccepts(fixture) <=> AddsUp(p)
    BY <1>3 DEF LibraryAccepts
  <2>4. fixture.kind \in DOMAIN OnlyRule /\ r = Unless(BreaksDown(p), OnlyRule[fixture.kind]) /\ BreaksDown(p) \in BOOLEAN
    BY <1>3, <2>1, OnlyRuleIs DEF BreaksDown
  <2>5. r \in Verdicts /\ (r.accepted <=> BreaksDown(p)) /\ (~r.accepted => r.rules = {OnlyRule[fixture.kind]})
    BY <2>4, UnlessIs
  <2>6. QED
    BY <1>3, <2>2, <2>3, <2>4, <2>5
<1>4. QED
  BY <1>1, <1>2, <1>3 DEF SchemaAllows

\* An entry comes out as it says when the library does what it expects.
LEMMA EntriesAlike ==
  ASSUME NEW m \in Manifests, NEW i \in DOMAIN m, NEW fixture, fixture = m[i].fixture
  PROVE  AsTheManifestSays(m[i], RunFixture(fixture)) <=>
           /\ LibraryAccepts(fixture) <=> m[i].expect = "accept"
           /\ m[i].expect = "reject" /\ m[i].rule # None /\ fixture.kind = "scene" =>
                m[i].rule \in AuditedRules(fixture.payload)
<1> DEFINE r == RunFixture(fixture)
<1>1. /\ SchemaAllows(fixture) /\ m[i].expect \in {"accept", "reject"}
      /\ fixture.kind \in DOMAIN OnlyRule => m[i].rule \in {None, OnlyRule[fixture.kind]}
  BY ManifestsAssumption
<1>2. /\ r.accepted <=> LibraryAccepts(fixture)
      /\ fixture.kind = "scene" => r.rules = AuditedRules(fixture.payload) /\ (r.accepted <=> r.rules = {})
      /\ fixture.kind # "scene" =>
           fixture.kind \in DOMAIN OnlyRule /\ (~r.accepted => r.rules = {OnlyRule[fixture.kind]})
  BY <1>1, FixturesAlike
<1> HIDE DEF r
<1>3. AsTheManifestSays(m[i], r) <=>
        IF m[i].expect = "accept" THEN r.accepted
        ELSE ~r.accepted /\ (m[i].rule # None => m[i].rule \in r.rules)
  BY DEF AsTheManifestSays
<1>4. QED
  BY <1>1, <1>2, <1>3 DEF r

SuiteInv ==
  /\ manifest \in Manifests /\ results \in Seq(Verdicts) /\ Len(results) <= Len(manifest)
  /\ \A i \in DOMAIN results : results[i] = RunFixture(manifest[i].fixture)
  /\ suiteExit # None =>
       /\ Len(results) = Len(manifest)
       /\ suiteExit = 0 <=> \A i \in DOMAIN manifest : AsTheManifestSays(manifest[i], results[i])

LEMMA InitSuite == ConformanceInit => SuiteInv
<1> SUFFICES ASSUME ConformanceInit PROVE SuiteInv
  OBVIOUS
<1>1. results \in Seq(Verdicts) /\ Len(results) = 0 /\ DOMAIN results = {} /\ suiteExit = None
  BY EmptySeq DEF ConformanceInit
<1>2. manifest \in Manifests /\ Len(manifest) \in Nat
  BY ManifestsAssumption DEF ConformanceInit
<1>3. QED
  BY <1>1, <1>2 DEF SuiteInv

LEMMA NextSuite == SuiteInv /\ [ConformanceNext]_conformanceVars => SuiteInv'
<1> SUFFICES ASSUME SuiteInv, [ConformanceNext]_conformanceVars PROVE SuiteInv'
  OBVIOUS
<1>1. /\ DOMAIN manifest = 1..Len(manifest) /\ Len(manifest) \in Nat
      /\ DOMAIN results = 1..Len(results) /\ Len(results) \in Nat
  BY ManifestsAssumption, LenProperties DEF SuiteInv
<1>2. CASE RunNextFixture
  <2> DEFINE n == Len(results)
             r == RunFixture(manifest[n + 1].fixture)
  <2>1. results' = Append(results, r) /\ manifest' = manifest /\ suiteExit' = suiteExit
        /\ suiteExit = None /\ n < Len(manifest)
    BY <1>2 DEF RunNextFixture
  <2>2. r \in Verdicts
    <3>1. n + 1 \in DOMAIN manifest
      BY <1>1, <2>1
    <3>2. SchemaAllows(manifest[n + 1].fixture)
      BY <3>1, ManifestsAssumption DEF SuiteInv
    <3>3. QED
      BY <3>2, FixturesAlike
  <2> HIDE DEF r
  <2>3. /\ results' \in Seq(Verdicts) /\ Len(results') = n + 1
        /\ \A i \in 1..n : results'[i] = results[i]
        /\ results'[n + 1] = r
    BY <2>1, <2>2, AppendProperties DEF SuiteInv
  <2>4. DOMAIN results' = 1..(n + 1)
    BY <2>3, LenProperties
  <2>5. \A i \in DOMAIN results' : results'[i] = RunFixture(manifest[i].fixture)
    <3>1. \A i \in 1..(n + 1) : i \in 1..n \/ i = n + 1
      BY <1>1
    <3>2. \A i \in 1..n : results[i] = RunFixture(manifest[i].fixture)
      BY <1>1 DEF SuiteInv
    <3>3. QED
      BY <2>3, <2>4, <3>1, <3>2 DEF r
  <2>6. Len(results') <= Len(manifest)
    BY <1>1, <2>1, <2>3
  <2>7. QED
    BY <2>1, <2>3, <2>5, <2>6 DEF SuiteInv
<1>3. CASE EndSuite
  BY <1>3 DEF EndSuite, SuiteInv
<1>4. CASE UNCHANGED conformanceVars
  BY <1>4 DEF conformanceVars, SuiteInv
<1>5. QED
  BY <1>2, <1>3, <1>4 DEF ConformanceNext

LEMMA SuiteJudgesAlike == SuiteInv => RunnerJudgesAlike
<1> SUFFICES ASSUME SuiteInv PROVE RunnerJudgesAlike
  OBVIOUS
<1>1. /\ DOMAIN manifest = 1..Len(manifest) /\ Len(manifest) \in Nat
      /\ DOMAIN results = 1..Len(results) /\ Len(results) \in Nat
      /\ Len(results) <= Len(manifest)
  BY ManifestsAssumption, LenProperties DEF SuiteInv
<1>2. ASSUME NEW i \in DOMAIN results
      PROVE  /\ results[i].accepted <=> LibraryAccepts(manifest[i].fixture)
             /\ manifest[i].fixture.kind = "scene" => results[i].rules = AuditedRules(manifest[i].fixture.payload)
  <2>1. i \in DOMAIN manifest
    BY <1>1, <1>2
  <2>2. results[i] = RunFixture(manifest[i].fixture)
    BY <1>2 DEF SuiteInv
  <2>3. SchemaAllows(manifest[i].fixture)
    BY <2>1, ManifestsAssumption DEF SuiteInv
  <2>4. QED
    BY <2>2, <2>3, FixturesAlike
<1>3. suiteExit # None =>
        (suiteExit = 0 <=>
           \A i \in DOMAIN manifest :
             LET fixture == manifest[i].fixture
             IN /\ LibraryAccepts(fixture) <=> manifest[i].expect = "accept"
                /\ manifest[i].expect = "reject" /\ manifest[i].rule # None /\ fixture.kind = "scene" =>
                     manifest[i].rule \in AuditedRules(fixture.payload))
  <2>1. ASSUME suiteExit # None, NEW i \in DOMAIN manifest
        PROVE  AsTheManifestSays(manifest[i], results[i]) <=>
                 /\ LibraryAccepts(manifest[i].fixture) <=> manifest[i].expect = "accept"
                 /\ manifest[i].expect = "reject" /\ manifest[i].rule # None /\ manifest[i].fixture.kind = "scene" =>
                      manifest[i].rule \in AuditedRules(manifest[i].fixture.payload)
    <3>1. results[i] = RunFixture(manifest[i].fixture)
      BY <1>1, <2>1 DEF SuiteInv
    <3>2. manifest \in Manifests
      BY DEF SuiteInv
    <3>3. QED
      BY <2>1, <3>1, <3>2, EntriesAlike
  <2>2. suiteExit # None =>
          (suiteExit = 0 <=> \A i \in DOMAIN manifest : AsTheManifestSays(manifest[i], results[i]))
    BY DEF SuiteInv
  <2>3. QED
    BY <2>1, <2>2, Zenon
<1>4. QED
  BY <1>2, <1>3, Zenon DEF RunnerJudgesAlike

\* Everything that is written a second time decides like the first, whatever the world,
\* the deliveries, the proposals and the manifest: the three other toolkits keep step
\* with the TypeScript session, and the conformance runner cites of every fixture the
\* rules the auditor cites, takes the steps the transition functions take, and exits
\* with 0 exactly when the manifest expects what the library does.
THEOREM CopiesDecideAlike == PortAgentsSpec /\ ConformanceSpec => []CopiesAgree
<1>1. PortAgentsSpec => []PortsAgree
  BY ToolkitsInLockstep
<1>2. ConformanceInit => SuiteInv
  BY InitSuite
<1>3. SuiteInv /\ [ConformanceNext]_conformanceVars => SuiteInv'
  BY NextSuite
<1>4. SuiteInv => RunnerJudgesAlike
  BY SuiteJudgesAlike
<1>5. PortsAgree /\ RunnerJudgesAlike => CopiesAgree
  BY DEF CopiesAgree
<1>6. QED
  BY <1>1, <1>2, <1>3, <1>4, <1>5, PTL DEF ConformanceSpec
=============================================================================
