--------------------------- MODULE ConnectionLife ---------------------------
(***************************************************************************)
(* What the server promises each peer, without descriptors, events or      *)
(* buffers: a connection is accepted, answered at most once and only when  *)
(* asked, and ends in exactly one of three ways: the response went out in  *)
(* full, the peer had left, or the whole server went down.                 *)
(* NetworkHandler implements this specification.                           *)
(***************************************************************************)
EXTENDS Integers, FiniteSets

CONSTANTS
  Conns,     \* connections
  Capacity   \* connections the server can have open at once

VARIABLES
  up,        \* the server is running
  phase,     \* of each connection: new, queued, open or closed
  asked,     \* its peer has sent a whole request
  left,      \* its peer has shut down or reset it
  owed,      \* the length of its response, 0 while there is none
  written    \* how much of it was written

lifeVars == <<up, phase, asked, left, owed, written>>

OpenConns == {c \in Conns : phase[c] = "open"}
Alive(c) == phase[c] \in {"queued", "open"}

Init ==
  /\ up = TRUE
  /\ phase = [c \in Conns |-> "new"]
  /\ asked = [c \in Conns |-> FALSE]
  /\ left = [c \in Conns |-> FALSE]
  /\ owed = [c \in Conns |-> 0]
  /\ written = [c \in Conns |-> 0]

Arrive(c) ==
  /\ up /\ phase[c] = "new"
  /\ phase' = [phase EXCEPT ![c] = "queued"]
  /\ UNCHANGED <<up, asked, left, owed, written>>

Ask(c) ==
  /\ up /\ Alive(c) /\ ~left[c]
  /\ asked' = [asked EXCEPT ![c] = TRUE]
  /\ UNCHANGED <<up, phase, left, owed, written>>

Leave(c) ==
  /\ up /\ Alive(c)
  /\ left' = [left EXCEPT ![c] = TRUE]
  /\ UNCHANGED <<up, phase, asked, owed, written>>

Accept(c) ==
  /\ up /\ phase[c] = "queued" /\ Cardinality(OpenConns) < Capacity
  /\ phase' = [phase EXCEPT ![c] = "open"]
  /\ UNCHANGED <<up, asked, left, owed, written>>

Answer(c) ==
  /\ up /\ phase[c] = "open" /\ asked[c] /\ owed[c] = 0
  /\ owed'[c] \in Nat \ {0}
  /\ owed' = [owed EXCEPT ![c] = owed'[c]]
  /\ UNCHANGED <<up, phase, asked, left, written>>

\* The last part and the close are one step.
Deliver(c) ==
  /\ up /\ phase[c] = "open" /\ written[c] < owed[c]
  /\ \E n \in (written[c] + 1)..owed[c] :
       /\ written' = [written EXCEPT ![c] = n]
       /\ phase' = IF n = owed[c] THEN [phase EXCEPT ![c] = "closed"] ELSE phase
  /\ UNCHANGED <<up, asked, left, owed>>

GiveUp(c) ==
  /\ up /\ phase[c] = "open" /\ left[c]
  /\ phase' = [phase EXCEPT ![c] = "closed"]
  /\ UNCHANGED <<up, asked, left, owed, written>>

GoDown ==
  /\ up /\ up' = FALSE
  /\ phase' = [c \in Conns |-> IF Alive(c) THEN "closed" ELSE phase[c]]
  /\ UNCHANGED <<asked, left, owed, written>>

Next ==
  \/ GoDown
  \/ \E c \in Conns :
       Arrive(c) \/ Ask(c) \/ Leave(c) \/ Accept(c) \/ Answer(c)
         \/ Deliver(c) \/ GiveUp(c)

LifeSpec == Init /\ [][Next]_lifeVars
=============================================================================
