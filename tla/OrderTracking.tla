--------------------------- MODULE OrderTracking ---------------------------
(***************************************************************************)
(* What an order management system promises about the orders it is given:  *)
(* each is sent to the broker at most once, and a fill is reported only    *)
(* after it happened, and never taken back.  How the orders travel, and    *)
(* what the broker answers, is left to the implementation.                 *)
(***************************************************************************)
EXTENDS Sequences, FiniteSets

CONSTANT Orders

VARIABLES
  sent,     \* the orders sent to the broker, in the order they arrived
  filled,   \* those of them that were filled
  reported  \* those whose fill was reported to the caller

trackingVars == <<sent, filled, reported>>

SentOrders == {sent[i] : i \in DOMAIN sent}

Init == sent = <<>> /\ filled = {} /\ reported = {}

\* A market order may be filled on arrival.
Send(o) ==
  /\ o \notin SentOrders
  /\ sent' = Append(sent, o)
  /\ filled' \in {filled, filled \cup {o}}
  /\ UNCHANGED reported

Fill(o) ==
  /\ o \in SentOrders \ filled
  /\ filled' = filled \cup {o}
  /\ UNCHANGED <<sent, reported>>

Report(o) ==
  /\ o \in filled \ reported
  /\ reported' = reported \cup {o}
  /\ UNCHANGED <<sent, filled>>

Next == \E o \in Orders : Send(o) \/ Fill(o) \/ Report(o)

Spec == Init /\ [][Next]_trackingVars
============================================================================
