------------------------------- MODULE Window -------------------------------
(***************************************************************************)
(* createWindowedSession: a session whose refunds in one currency are also *)
(* capped over a moving window, either the last N refunds of a commitment  *)
(* or those of a span of time.  Callers stamp each refund with the instant *)
(* it occurred at, in whatever order.                                      *)
(***************************************************************************)
EXTENDS Session

CONSTANTS
  Cap,        \* the Money that may be refunded within the window
  Windows,    \* the windows a host may configure: the last refunds, or a span of time
  Instants    \* the instants refunds may have occurred at

Count(n) == [kind |-> "count", size |-> n]
Time(span) == [kind |-> "time", size |-> span]

ASSUME WindowAssumption ==
  /\ Cap \in Money
  /\ Windows \subseteq [kind : {"count", "time"}, size : Nat]
  /\ Instants \subseteq Nat

VARIABLES
  window,     \* the configured window
  refunds,    \* per commitment: the accepted refunds [at, amount], as they came
  admitted    \* the keys of those refunds

windowVars == <<vars, window, refunds, admitted>>

\* The refunds the window measures; everything else passes straight through.
Windowed(a) ==
  /\ a.to.type = "Refunded"
  /\ a.to.amount.currency = Cap.currency
  /\ ActionKey(a) \notin admitted

Entries(c) == DOMAIN refunds[c]

\* The last n entries; none for n <= 0.
LastOf(c, n) == {i \in Entries(c) : i > Len(refunds[c]) - n}

\* Slips: refunds reported as later than this one are left out; one refund too few.
PriorUpToNow(c, asOf) ==
  IF window.kind = "time"
  THEN {i \in Entries(c) : refunds[c][i].at \in (asOf - window.size)..asOf}
  ELSE LastOf(c, window.size - 1)
PriorShort(c, asOf) ==
  IF window.kind = "time"
  THEN {i \in Entries(c) : refunds[c][i].at >= asOf - window.size}
  ELSE LastOf(c, window.size - 2)

\* currentWindow, for a refund about to enter: of a count window the last N - 1, of a
\* time window all that occurred no earlier than its span before `asOf`.
Prior(c, asOf) ==
  IF window.kind = "time"
  THEN {i \in Entries(c) : refunds[c][i].at >= asOf - window.size}
  ELSE LastOf(c, window.size - 1)

SumOf(c, entries) ==
  SumFunctionOnSet([i \in Entries(c) |-> refunds[c][i].amount], entries)

\* exceedsCap: the refund clause of I-1, with the cap in the place of what was committed.
ExceedsCap(total) == total > Cap.amount /\ ~MoneyEquals(total, Cap.amount)

Burst(a, occurredAt) ==
  /\ Windowed(a) /\ Known(a)
  /\ ExceedsCap(SumOf(a.commitment, Prior(a.commitment, occurredAt)) + a.to.amount.amount)

-----------------------------------------------------------------------------

\* The cap is checked first: the session never sees the refund.
RejectBurst(a, occurredAt) == Burst(a, occurredAt) /\ UNCHANGED windowVars

\* Slip: the list is trimmed to the window.
EnterTrimmed(a, occurredAt) ==
  LET entered == Append(refunds[a.commitment], [at |-> occurredAt, amount |-> a.to.amount.amount])
      first == IF Len(entered) > window.size THEN Len(entered) - window.size + 1 ELSE 1
  IN /\ refunds' = [refunds EXCEPT ![a.commitment] = SubSeq(entered, first, Len(entered))]
     /\ admitted' = admitted \cup {ActionKey(a)}

\* A windowed refund the session accepts enters the window.
Enter(a, occurredAt) ==
  /\ refunds' = [refunds EXCEPT ![a.commitment] =
                   Append(@, [at |-> occurredAt, amount |-> a.to.amount.amount])]
  /\ admitted' = admitted \cup {ActionKey(a)}

Delegate(a, expected, at, occurredAt) ==
  /\ ~Burst(a, occurredAt)
  /\ \/ /\ \/ RefundInPart(a, expected)
           \/ RefundInFull(a, expected, at)
           \/ Advance(a, expected, at)
        /\ IF Windowed(a) THEN Enter(a, occurredAt) ELSE UNCHANGED <<refunds, admitted>>
     \/ /\ \/ Replay(a)
           \/ Conflict(a, expected)
           \/ Reject(a, expected, at)
           \/ RefundThrows(a, expected, at)
        /\ UNCHANGED <<refunds, admitted>>
  /\ UNCHANGED window

WindowInit ==
  /\ Init
  /\ window \in Windows
  /\ refunds = [c \in Commitments |-> <<>>]
  /\ admitted = {}

\* propose(a, occurredAt), whenever the caller read and whatever instant it names.
ProposeInWindow(a) ==
  \E expected \in PlannedVersions(a), at \in Times, occurredAt \in Instants :
    /\ BelowBound(a)
    /\ RejectBurst(a, occurredAt) \/ Delegate(a, expected, at, occurredAt)

WindowNext == \E a \in Requests : ProposeInWindow(a)

WindowSpec == WindowInit /\ [][WindowNext]_windowVars

-----------------------------------------------------------------------------
(* Properties.                                                             *)

\* Wherever a span of the window's length is laid on the time axis, the refunds of a
\* commitment that occurred in it stay within the cap (to within the tolerance), even
\* though refunds are reported out of order.  Each check looks back from one refund
\* only; that it never looks up to an end is what covers the late reports.
NoBurstInAnySpan ==
  window.kind = "time" =>
    \A c \in Commitments, from \in Instants :
      SumOf(c, {i \in Entries(c) : refunds[c][i].at \in from..(from + window.size)})
        < Cap.amount + Eps

\* However the refunds of a commitment are interleaved with retries, rejections and
\* other moves, any N consecutive ones stay within the cap.
NoBurstInAnyRun ==
  window.kind = "count" =>
    \A c \in Commitments : \A n \in Entries(c) :
      SumOf(c, {i \in 1..n : i > n - window.size}) < Cap.amount + Eps

\* No refund in the cap's currency escapes the window: what was paid back is what the
\* window holds, retries under an old key and keys the session already knew included.
WindowSeesEveryRefund ==
  \A c \in Commitments : SumOf(c, Entries(c)) = paid[c][Cap.currency]
=============================================================================
