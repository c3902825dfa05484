----------------------------- MODULE ConnService -----------------------------
(***************************************************************************)
(* What the cixd daemon promises about connections, without processes,     *)
(* descriptors or signals: a connection waits, is taken by the daemon, is   *)
(* handed to a server of its own, and is over.  The daemon holds one        *)
(* connection at a time, nothing is served that was not taken, and nothing  *)
(* that is over is served again.                                            *)
(***************************************************************************)

CONSTANT Conns          \* connections that clients may open

VARIABLE svc            \* the stage each connection is in

Stages == {"idle", "waiting", "held", "served", "over"}

Init == svc = [c \in Conns |-> "idle"]

Started == {c \in Conns : svc[c] # "idle"}

\* A client connects: it waits, or is refused because nobody listens.
Arrive(c) ==
  /\ svc[c] = "idle"
  /\ \E s \in {"waiting", "over"} : svc' = [svc EXCEPT ![c] = s]

\* The daemon takes a waiting connection, once it has let go of the last one.
Take(c) ==
  /\ svc[c] = "waiting"
  /\ \A d \in Conns : svc[d] # "held"
  /\ svc' = [svc EXCEPT ![c] = "held"]

HandOff(c) ==
  /\ svc[c] = "held"
  /\ svc' = [svc EXCEPT ![c] = "served"]

\* Connections end: one by one, or together when the daemon stops.
End(S) == svc' = [c \in Conns |-> IF c \in S THEN "over" ELSE svc[c]]

Next ==
  \/ \E c \in Conns : Arrive(c) \/ Take(c) \/ HandOff(c)
  \/ \E S \in SUBSET Started : End(S)

Spec == Init /\ [][Next]_svc
==============================================================================
