-------------------------------- MODULE Cixd --------------------------------
(***************************************************************************)
(* The cixd daemon (asg4-client-server/code/cixd.cpp, main and             *)
(* fork_cixserver): it accepts connections, forks one server child for     *)
(* each, and reaps the children, from the accept loop and from the SIGCHLD *)
(* handler that interrupts it.                                             *)
(*                                                                         *)
(* Processes are the daemon, Parent, and one child per connection, named   *)
(* by the connection it was forked for.  A connection is a kernel object:  *)
(* open[c] is the set of processes with a descriptor for its server end,   *)
(* and the client reads end-of-file when that set becomes empty.  listen   *)
(* is the set of processes with a descriptor for the listening socket.     *)
(* What a child does for its client is in CixSession and CixStore.         *)
(***************************************************************************)

CONSTANTS
  Conns,    \* the connections clients may open in a behaviour
  Parent,   \* the daemon process
  NoConn    \* client_sock holds no connection

ASSUME NamesAssumption == Parent \notin Conns /\ NoConn \notin Conns

VARIABLES
  pc,       \* where the daemon's main line is, "handler" in signal_handler
  resume,   \* where the main line goes on when the handler returns
  errno,    \* the daemon's errno
  cause,    \* why the daemon stopped
  cur,      \* the connection in client_sock
  sigchld,  \* SIGCHLD is pending for the daemon
  proc,     \* the state of each child process
  conn,     \* the state of each connection on the server's side
  gone,     \* connections whose client has closed its end
  open,     \* who holds a descriptor of each connection
  listen    \* who holds a descriptor of the listening socket

parentVars == <<pc, resume, errno, cause, cur>>
vars == <<pc, resume, errno, cause, cur, sigchld, proc, conn, gone, open, listen>>

------------------------------------------------------------------------------
\* "accept" is inside listener.accept; "interrupted" and "failed" are between
\* the return of accept(2) with -1 and the read of errno by socket_sys_error.
MainLine == {"banner", "accept", "interrupted", "failed", "accepted", "fork",
             "close", "reap"}

Causes   == {"none", "lookup", "accept failed", "EINTR lost", "killed"}
Running  == {"forked", "lookup", "serving", "looping"}
Children == {"none", "zombie", "reaped"} \union Running

Live    == {c \in Conns : proc[c] \in Running}
Zombies == {c \in Conns : proc[c] = "zombie"}
Backlog == {c \in Conns : conn[c] = "queued"}

\* The main line's own position, also while the handler runs on top of it.
Where == IF pc = "handler" THEN resume ELSE pc

TypeOK ==
  /\ pc      \in MainLine \union {"handler", "stopped"}
  /\ resume  \in MainLine \union {"none", "eintr"}
  /\ errno   \in {"none", "EINTR", "ECHILD", "other"}
  /\ cause   \in Causes
  /\ cur     \in Conns \union {NoConn}
  /\ sigchld \in BOOLEAN
  /\ proc    \in [Conns -> Children]
  /\ conn    \in [Conns -> {"idle", "queued", "accepted", "reset"}]
  /\ gone    \in SUBSET Conns
  /\ open    \in [Conns -> SUBSET (Conns \union {Parent})]
  /\ listen  \in SUBSET (Conns \union {Parent})

Init ==
  /\ pc = "banner" /\ resume = "none" /\ errno = "none" /\ cause = "none"
  /\ cur = NoConn /\ sigchld = FALSE
  /\ proc = [c \in Conns |-> "none"]
  /\ conn = [c \in Conns |-> "idle"]
  /\ gone = {}
  /\ open = [c \in Conns |-> {}]
  /\ listen = {Parent}

------------------------------------------------------------------------------
(* What the kernel does for several actions. *)

\* p's descriptor of the listening socket is closed; with the last one the
\* connections still in the backlog are reset.
Unlisten(p) ==
  /\ listen' = listen \ {p}
  /\ conn' = [c \in Conns |-> IF conn[c] = "queued" /\ listen \ {p} = {}
                              THEN "reset" ELSE conn[c]]

\* Process p is gone: all its descriptors are closed.
ReleaseAll(p) ==
  /\ open' = [c \in Conns |-> open[c] \ {p}]
  /\ Unlisten(p)

\* waitpid (-1, &status, WNOHANG) fails with ECHILD once there is no child.
AfterWaitpid == IF Live = {} THEN "ECHILD" ELSE errno

Reap(c) == proc' = [proc EXCEPT ![c] = "reaped"]

\* Child c exits.  The kernel keeps a zombie for a daemon that is running and
\* raises SIGCHLD, which is a flag and not a queue; orphans go to init.
Exit(c) ==
  /\ proc' = [proc EXCEPT ![c] = IF pc = "stopped" THEN "reaped" ELSE "zombie"]
  /\ sigchld' = (pc # "stopped")
  /\ ReleaseAll(c)
  /\ UNCHANGED <<parentVars, gone>>

\* The daemon ends, for the given reason: main returns (its sockets' destructors
\* and the kernel close everything) and init reaps the zombies it leaves.
Stop(why) ==
  /\ pc' = "stopped" /\ cause' = why
  /\ resume' = "none" /\ cur' = NoConn /\ sigchld' = FALSE
  /\ proc' = [c \in Conns |-> IF proc[c] = "zombie" THEN "reaped" ELSE proc[c]]
  /\ ReleaseAll(Parent)
  /\ UNCHANGED <<errno, gone>>

------------------------------------------------------------------------------
(* Clients, and whoever kills processes. *)

Connect(c) ==
  /\ conn[c] = "idle"
  /\ conn' = [conn EXCEPT ![c] = IF listen = {} THEN "reset" ELSE "queued"]
  /\ UNCHANGED <<parentVars, sigchld, proc, gone, open, listen>>

Leave(c) ==
  /\ conn[c] \in {"queued", "accepted"} /\ c \notin gone
  /\ gone' = gone \union {c}
  /\ UNCHANGED <<parentVars, sigchld, proc, conn, open, listen>>

KillParent == pc # "stopped" /\ Stop("killed")

\* A child dies without run_server returning: a signal, or an exception that
\* no handler catches (make_unique of a huge buffer in reply_put or reply_get).
ChildAborts(c) == c \in Live /\ Exit(c)

------------------------------------------------------------------------------
(* The daemon's main line. *)

\* Goes to a place of the main line that changes nothing else.
Goto(from, to) ==
  /\ pc = from /\ pc' = to
  /\ UNCHANGED <<resume, errno, cause, cur, sigchld, proc, conn, gone, open, listen>>

\* log << to_string (hostinfo()): the host's own name may not resolve.
Banner ==
  \/ Goto("banner", "accept")
  \/ pc = "banner" /\ Stop("lookup")

Accept(c) ==
  /\ pc = "accept" /\ c \in Backlog
  /\ pc' = "accepted" /\ cur' = c
  /\ conn' = [conn EXCEPT ![c] = "accepted"]
  /\ open' = [open EXCEPT ![c] = {Parent}]
  /\ UNCHANGED <<resume, errno, cause, sigchld, proc, gone, listen>>

\* accept(2) fails for good (ECONNABORTED, EMFILE, ENFILE, ENOMEM).
AcceptFails ==
  /\ pc = "accept" /\ pc' = "failed" /\ errno' = "other"
  /\ UNCHANGED <<resume, cause, cur, sigchld, proc, conn, gone, open, listen>>

\* Mutant: the switch has no case EINTR.
CatchAcceptNoEintr == pc \in {"interrupted", "failed"} /\ Stop("EINTR lost")

\* socket_sys_error reads errno; EINTR goes back to accept, all else is rethrown.
CatchAccept ==
  \/ errno = "EINTR" /\ pc \in {"interrupted", "failed"} /\ Goto(pc, "accept")
  \/ errno # "EINTR" /\ pc = "interrupted" /\ Stop("EINTR lost")
  \/ errno # "EINTR" /\ pc = "failed" /\ Stop("accept failed")

\* Mutant: a failed lookup goes on with the loop, client_sock declared outside it.
LogAcceptedGoesOn == Goto("accepted", "fork") \/ Goto("accepted", "banner")

\* log << to_string (client_sock): the peer's address may not resolve, and
\* this call is outside the try block that follows it.
LogAccepted ==
  \/ Goto("accepted", "fork")
  \/ pc = "accepted" /\ Stop("lookup")

\* The child inherits every descriptor the daemon has.
Fork ==
  /\ pc = "fork" /\ pc' = "close"
  /\ proc' = [proc EXCEPT ![cur] = "forked"]
  /\ open' = [c \in Conns |-> IF Parent \in open[c] THEN open[c] \union {cur}
                              ELSE open[c]]
  /\ listen' = listen \union {cur}
  /\ UNCHANGED <<resume, errno, cause, cur, sigchld, conn, gone>>

ForkFails ==
  /\ pc = "fork" /\ pc' = "close" /\ errno' = "other"
  /\ UNCHANGED <<resume, cause, cur, sigchld, proc, conn, gone, open, listen>>

\* Mutant: accept.close() only where the fork succeeded.
CloseAcceptedIfForked ==
  /\ pc = "close" /\ pc' = "reap"
  /\ open' = IF proc[cur] = "none" THEN open ELSE [open EXCEPT ![cur] = @ \ {Parent}]
  /\ UNCHANGED <<resume, errno, cause, cur, sigchld, proc, conn, gone, listen>>

\* accept.close() in fork_cixserver, whether or not fork succeeded.
CloseAccepted ==
  /\ pc = "close" /\ pc' = "reap"
  /\ open' = [open EXCEPT ![cur] = @ \ {Parent}]
  /\ UNCHANGED <<resume, errno, cause, cur, sigchld, proc, conn, gone, listen>>

\* reap_zombies() from the main line, one waitpid at a time.
ReapZombies ==
  /\ pc = "reap"
  /\ \E c \in Zombies : Reap(c)
  /\ UNCHANGED <<parentVars, sigchld, conn, gone, open, listen>>

\* No zombie is left: the iteration ends, and client_sock with it (its
\* destructor closes what is still open).
NextIteration ==
  /\ pc = "reap" /\ Zombies = {}
  /\ pc' = "banner" /\ cur' = NoConn /\ errno' = AfterWaitpid
  /\ open' = [open EXCEPT ![cur] = @ \ {Parent}]
  /\ UNCHANGED <<resume, cause, sigchld, proc, conn, gone, listen>>

------------------------------------------------------------------------------
(* SIGCHLD. *)

\* The signal is delivered at any point of the main line.  It interrupts
\* accept(2) when that is blocked, which it is only with an empty backlog.
Deliver ==
  /\ sigchld /\ pc \in MainLine
  /\ sigchld' = FALSE
  /\ pc' = "handler"
  /\ \/ resume' = pc
     \/ pc = "accept" /\ Backlog = {} /\ resume' = "eintr"
  /\ UNCHANGED <<errno, cause, cur, proc, conn, gone, open, listen>>

\* Mutant: waitpid is called once and not in a loop.
HandlerReapsOne ==
  /\ pc = "handler"
  /\ \E c \in Zombies : Reap(c)
  /\ pc' = (IF resume = "eintr" THEN "interrupted" ELSE resume)
  /\ errno' = (IF resume = "eintr" THEN "EINTR" ELSE errno)
  /\ resume' = "none"
  /\ UNCHANGED <<cause, cur, sigchld, conn, gone, open, listen>>

\* signal_handler runs reap_zombies() with every signal blocked (sigfillset).
HandlerReaps ==
  /\ pc = "handler"
  /\ \E c \in Zombies : Reap(c)
  /\ UNCHANGED <<parentVars, sigchld, conn, gone, open, listen>>

\* Mutant: an interrupted accept(2) is resumed as if it had not been.
HandlerReturnsInto ==
  /\ pc = "handler" /\ Zombies = {}
  /\ resume' = "none" /\ pc' = resume /\ errno' = AfterWaitpid
  /\ UNCHANGED <<cause, cur, sigchld, proc, conn, gone, open, listen>>

\* The handler does not save errno.  An interrupted accept(2) stores EINTR after
\* the handler has returned.
HandlerReturns ==
  /\ pc = "handler" /\ Zombies = {}
  /\ resume' = "none"
  /\ \/ resume = "eintr" /\ pc' = "interrupted" /\ errno' = "EINTR"
     \/ resume # "eintr" /\ pc' = resume /\ errno' = AfterWaitpid
  /\ UNCHANGED <<cause, cur, sigchld, proc, conn, gone, open, listen>>

------------------------------------------------------------------------------
(* The children. *)

\* Mutant: fork_cixserver without server.close().
ChildKeepsListener(c) ==
  /\ proc[c] = "forked"
  /\ proc' = [proc EXCEPT ![c] = "lookup"]
  /\ UNCHANGED <<parentVars, sigchld, conn, gone, open, listen>>

\* server.close()
ChildCloses(c) ==
  /\ proc[c] = "forked"
  /\ proc' = [proc EXCEPT ![c] = "lookup"]
  /\ Unlisten(c)
  /\ UNCHANGED <<parentVars, sigchld, gone, open>>

\* run_server logs the peer's name before its try block.  When the address does
\* not resolve the exception leaves run_server and fork_cixserver and is caught
\* in main, inside the accept loop: client_sock is destroyed and the child goes
\* around the daemon's loop.
ChildLogs(c) ==
  /\ proc[c] = "lookup"
  /\ \/ proc' = [proc EXCEPT ![c] = "serving"] /\ UNCHANGED open
     \/ /\ proc' = [proc EXCEPT ![c] = "looping"]
        /\ open' = [open EXCEPT ![c] = @ \ {c}]
  /\ UNCHANGED <<parentVars, sigchld, conn, gone, listen>>

\* In the loop its accept fails with EBADF, as socket_fd is CLOSED_FD: it exits.
ChildLoops(c) == proc[c] = "looping" /\ Exit(c)

\* Mutant: recv_packet takes end-of-file for a short read and tries again.
ChildSpins(c) == proc[c] = "serving" /\ c \in gone /\ UNCHANGED vars

\* recv_packet meets end-of-file, run_server throws cix_exit, main returns.
ChildEnds(c) == proc[c] = "serving" /\ c \in gone /\ Exit(c)

------------------------------------------------------------------------------
ParentStep ==
  \/ Banner \/ (\E c \in Conns : Accept(c)) \/ CatchAccept \/ LogAccepted
  \/ Fork \/ ForkFails \/ CloseAccepted \/ ReapZombies \/ NextIteration
  \/ HandlerReaps \/ HandlerReturns

ChildStep(c) == ChildCloses(c) \/ ChildLogs(c) \/ ChildLoops(c) \/ ChildEnds(c)

Next ==
  \/ ParentStep \/ Deliver \/ AcceptFails \/ KillParent
  \/ \E c \in Conns : Connect(c) \/ Leave(c) \/ ChildStep(c) \/ ChildAborts(c)

Spec == Init /\ [][Next]_vars

\* The scheduler runs every process that can run, and delivers signals.
Fairness ==
  /\ WF_vars(ParentStep)
  /\ WF_vars(Deliver)
  /\ \A c \in Conns : WF_vars(ChildStep(c))

FairSpec == Spec /\ Fairness

------------------------------------------------------------------------------
(* What makes the daemon correct. *)

\* A connection is held by nobody but the daemon and the child forked for it;
\* by the daemon only from accept to accept.close(), by the child only while it
\* serves.  A descriptor left behind would keep the client from end-of-file.
ConnOwnership ==
  \A c \in Conns :
    /\ open[c] \subseteq {Parent, c}
    /\ Parent \in open[c] => c = cur /\ Where \in {"accepted", "fork", "close"}
    /\ c \in open[c] => proc[c] \in {"forked", "lookup", "serving"}

\* A child that runs the server, or has fallen into the daemon's loop, has no
\* descriptor of the listening socket left: it cannot take a connection from
\* the daemon, nor keep the port when the daemon has stopped.
NoStrayAcceptor == \A c \in Conns : c \in listen => proc[c] = "forked"

\* A child that has exited is about to be reaped: SIGCHLD is still pending, or
\* its handler is running and will look again.  Signals merge and come at any
\* time, also while a handler or reap_zombies is at work.
NoForgottenZombie ==
  \A c \in Conns : proc[c] = "zombie" => sigchld \/ pc = "handler"

\* The exit of a child never stops the daemon, but for one case: a second child
\* exits before errno is read for an accept the first has interrupted, and none
\* is left, so that the handler's last waitpid replaces EINTR by ECHILD.
DaemonSurvives ==
  cause = "EINTR lost" =>
    /\ Live = {}
    /\ \E c, d \in Conns : c # d /\ proc[c] = "reaped" /\ proc[d] = "reaped"

\* Every child that exits is reaped.
ZombiesReaped == \A c \in Conns : (proc[c] = "zombie") ~> (proc[c] = "reaped")

\* A client in the backlog is accepted, or reset once nobody listens: it does
\* not wait for ever, even if the daemon stops while a child still has the
\* listening socket.
BacklogDrains == \A c \in Conns : (conn[c] = "queued") ~> (conn[c] # "queued")

\* When the client has left, or the child is gone, every descriptor of the
\* connection is closed: the other side always learns of it.
ConnReleased ==
  \A c \in Conns :
    (c \in gone \/ proc[c] \in {"zombie", "reaped"}) ~>
      (open[c] = {} /\ conn[c] # "queued")

\* The stage of a connection in ConnService.
SvcOf(c) ==
  CASE conn[c] = "idle"   -> "idle"
    [] conn[c] = "queued" -> "waiting"
    [] conn[c] = "reset"  -> "over"
    [] OTHER -> IF c \in open[c] THEN "served"
                ELSE IF Parent \in open[c] /\ proc[c] = "none" THEN "held"
                ELSE "over"

Service == INSTANCE ConnService WITH svc <- [c \in Conns |-> SvcOf(c)]

\* The daemon implements ConnService: it holds one connection at a time, hands
\* each to one server, and never serves one that it has not accepted or that
\* is over.
ImplementsService == Service!Spec
==============================================================================
