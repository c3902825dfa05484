------------------------------- MODULE CixRpc -------------------------------
(***************************************************************************)
(* What a cix command promises, without headers, bytes or packet loops: one  *)
(* request at a time, served at most once and as a whole, learned of by a    *)
(* client that did nothing else in between.  Either side may die at any      *)
(* time; a request already made may still be served then, or never be.       *)
(***************************************************************************)
CONSTANTS
  Names,        \* names of files
  File,         \* what a file may hold
  Empty,        \* the content of an empty file
  NoFile        \* a name that does not exist

VARIABLES
  phase,   \* "idle", "asked" or "answered"
  alive,   \* whether the client runs
  call,    \* the last command: cmd, name, and for put the data
  answer,  \* whether it was done, and for get the data
  local, remote   \* the two sides' files

rpcVars == <<phase, alive, call, answer, local, remote>>

Ask ==
  /\ alive /\ phase = "idle" /\ phase' = "asked"
  /\ \/ call'.cmd \in {"LS", "GET", "RM"}
     \/ call'.cmd = "PUT" /\ call'.data = local[call'.name] /\ call'.data \in File
  /\ UNCHANGED <<alive, answer, local, remote>>

\* The request is served, all of it or nothing.
Done ==
  /\ answer'.ok
  /\ CASE call.cmd = "PUT" -> remote' = [remote EXCEPT ![call.name] = call.data]
       [] call.cmd = "RM"  -> /\ remote[call.name] \in File
                              /\ remote' = [remote EXCEPT ![call.name] = NoFile]
       [] call.cmd = "GET" -> /\ remote[call.name] = answer'.data
                              /\ answer'.data \in File
                              /\ UNCHANGED remote
       [] OTHER            -> UNCHANGED remote

Refused == ~answer'.ok /\ UNCHANGED remote

Serve ==
  /\ phase = "asked" /\ phase' = "answered"
  /\ Done \/ Refused
  /\ UNCHANGED <<alive, call, local>>

\* A get that was answered empties the local file before it fills it.
Clear ==
  /\ alive /\ phase = "answered" /\ call.cmd = "GET" /\ answer.ok
  /\ local' = [local EXCEPT ![call.name] = Empty]
  /\ UNCHANGED <<phase, alive, call, answer, remote>>

Learn ==
  /\ alive /\ phase = "answered" /\ phase' = "idle"
  /\ IF call.cmd = "GET"
     THEN answer.ok /\ local' = [local EXCEPT ![call.name] = answer.data]
     ELSE UNCHANGED local
  /\ UNCHANGED <<alive, call, answer, remote>>

Die == alive' = FALSE /\ UNCHANGED <<phase, call, answer, local, remote>>

Init == phase = "idle" /\ alive = TRUE

Next == Ask \/ Serve \/ Clear \/ Learn \/ Die

Spec == Init /\ [][Next]_rpcVars
==============================================================================
