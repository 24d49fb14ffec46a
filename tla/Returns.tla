------------------------------ MODULE Returns ------------------------------
(***************************************************************************)
(* createReturnsSession: return authorizations (RMAs) marched through the  *)
(* stages of a workflow, over a session that refunds an order's lines.     *)
(* The session is private to the desk: money moves only in settle().       *)
(*                                                                         *)
(* settle() is one synchronous loop of proposals.  It is a step per line   *)
(* here, and no other action is enabled until the loop has ended.          *)
(***************************************************************************)
EXTENDS Session

CONSTANTS
  Rmas,    \* the returns customers ask for: id -> [order, lines]
  Idle

\* The action settle() proposes for one line; its key names the return and the line.
LineRefund(id, i, actor) ==
  LET line == Rmas[id].lines[i]
  IN [commitment |-> line.line,
      to         |-> [type |-> "Refunded", amount |-> line.amount],
      actor      |-> actor,
      key        |-> <<id, line.line>>]

RmaIds == DOMAIN Rmas
LineNumbers(id) == DOMAIN Rmas[id].lines

\* The key of a line is a string of its own, never the absence of one.
ASSUME RmasAssumption ==
  \A id \in RmaIds :
    /\ Rmas[id] \in [order : Ids, lines : Seq([line : Ids, amount : Money])]
    /\ \A i \in LineNumbers(id) : <<id, Rmas[id].lines[i].line>> # None
    /\ \A i \in LineNumbers(id), p \in Actors : LineRefund(id, i, p) \in Requests

VARIABLES
  stage,     \* id -> the stage of an opened return, or None
  settling   \* the settle() call in progress: which return, line and actor; or Idle

returnsVars == <<vars, stage, settling>>

RmaStages ==
  [ requested  |-> {"authorized", "rejected"},
    authorized |-> {"in_transit", "rejected"},
    in_transit |-> {"received", "rejected"},
    received   |-> {"inspected", "rejected"},
    inspected  |-> {"refunded", "rejected"},
    refunded   |-> {},
    rejected   |-> {} ]

\* No return is at no stage once it is opened.
ASSUME StagesAssumption == None \notin DOMAIN RmaStages

-----------------------------------------------------------------------------

\* open(): the order is in the world, and every line is one of its children.
Open(id) ==
  /\ settling = Idle
  /\ stage[id] = None
  /\ Rmas[id].order \in Commitments
  /\ LineNumbers(id) # {}
  /\ \A i \in LineNumbers(id) :
       LET line == Rmas[id].lines[i].line
       IN line \in Commitments /\ Parent[line] = Rmas[id].order
  /\ stage' = [stage EXCEPT ![id] = "requested"]
  /\ UNCHANGED <<vars, settling>>

\* advance(): every legal stage but refunded, which only settle() reaches.
AdvanceStage(id, to) ==
  /\ settling = Idle
  /\ stage[id] # None
  /\ to \in RmaStages[stage[id]] \ {"refunded"}
  /\ stage' = [stage EXCEPT ![id] = to]
  /\ UNCHANGED <<vars, settling>>

\* Slip: goods received are refunded before they are inspected.
StartSettleEarly(id, actor) ==
  /\ settling = Idle
  /\ stage[id] \in {"received", "inspected"}
  /\ settling' = [rma |-> id, line |-> 1, actor |-> actor]
  /\ UNCHANGED <<vars, stage>>

\* settle(): the goods are back and inspected.
StartSettle(id, actor) ==
  /\ settling = Idle
  /\ stage[id] = "inspected"
  /\ settling' = [rma |-> id, line |-> 1, actor |-> actor]
  /\ UNCHANGED <<vars, stage>>

\* The session said ok to the line: go on to the next, or close the return.
LineSettled ==
  IF settling.line < Len(Rmas[settling.rma].lines)
  THEN /\ settling' = [settling EXCEPT !.line = @ + 1]
       /\ UNCHANGED stage
  ELSE /\ settling' = Idle
       /\ stage' = [stage EXCEPT ![settling.rma] = "refunded"]

\* The first rejection, or an exception, ends settle(): lines already refunded stay
\* refunded, and the return stays inspected.
SettleEnds == settling' = Idle /\ UNCHANGED stage

SettleLine(at) ==
  /\ settling # Idle
  /\ LET a == LineRefund(settling.rma, settling.line, settling.actor)
     IN \/ Replay(a) /\ LineSettled
        \/ RefundInPart(a, None) /\ LineSettled
        \/ RefundInFull(a, None, at) /\ LineSettled
        \/ Advance(a, None, at) /\ LineSettled
        \/ Reject(a, None, at) /\ SettleEnds
        \/ RefundThrows(a, None, at) /\ SettleEnds

ReturnsInit == Init /\ stage = [id \in RmaIds |-> None] /\ settling = Idle

ReturnsNext ==
  \/ \E id \in RmaIds :
       \/ Open(id)
       \/ \E to \in DOMAIN RmaStages : AdvanceStage(id, to)
       \/ \E actor \in Actors : StartSettle(id, actor)
  \/ \E at \in Times : SettleLine(at)

ReturnsSpec == ReturnsInit /\ [][ReturnsNext]_returnsVars

-----------------------------------------------------------------------------
(* Properties.                                                             *)

\* The lines of returns whose refund some settle() has applied.
SettledLines ==
  {l \in UNION {{<<id, i>> : i \in LineNumbers(id)} : id \in RmaIds} :
     <<"key", <<l[1], Rmas[l[1]].lines[l[2]].line>>>> \in applied}

\* Every line of a return names a part of its own, as in an order broken down once.  (Two
\* lines on one part share a key, and settle() counts the second, a replay, as settled.)
DistinctLines ==
  \A id \in RmaIds : \A i, j \in LineNumbers(id) :
    Rmas[id].lines[i].line = Rmas[id].lines[j].line => i = j

\* What is paid back for a commitment is, to the unit, the sum of the return lines
\* settled on it: a settle() that is rejected half-way and tried again pays the lines
\* it had paid already no second time, and marks none as settled that it did not pay.
PaidIsWhatWasSettled ==
  \A c \in Commitments, m \in Currencies :
    LET line(l) == Rmas[l[1]].lines[l[2]]
        settled == {l \in SettledLines : line(l).line = c /\ line(l).amount.currency = m}
    IN paid[c][m] = SumFunctionOnSet([l \in settled |-> line(l).amount.amount], settled)

\* The stages gate the money: a return is refunded only with all its lines settled,
\* and until its goods are inspected none of them is.
StagesGateMoney ==
  \A id \in RmaIds :
    LET settled == {i \in LineNumbers(id) : <<id, i>> \in SettledLines}
    IN /\ stage[id] = "refunded" => settled = LineNumbers(id)
       /\ stage[id] \in {None, "requested", "authorized", "in_transit", "received"} => settled = {}
=============================================================================
