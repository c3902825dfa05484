----------------------------- MODULE Cixd_proofs -----------------------------
(***************************************************************************)
(* Proofs about Cixd for any set of connections: the inductive invariant    *)
(* IInv, the safety invariants it implies, and that the daemon implements   *)
(* ConnService.                                                             *)
(***************************************************************************)
EXTENDS Cixd, TLAPS

\* resume is set exactly while the handler runs, and no signal is pending for a
\* daemon that has stopped.
HandlerState ==
  /\ pc = "handler" <=> resume # "none"
  /\ pc = "stopped" => ~sigchld

\* client_sock holds a connection from accept to the end of the iteration, and
\* nobody else has it until the fork.
CurState ==
  /\ Where \in {"accepted", "fork", "close", "reap"} => cur \in Conns
  /\ Where \in {"accepted", "fork"} => open[cur] = {Parent} /\ proc[cur] = "none"

\* Only accepted connections have descriptors and children.
AcceptedFirst ==
  \A c \in Conns : conn[c] # "accepted" => open[c] = {} /\ proc[c] = "none"

IInv ==
  /\ TypeOK
  /\ HandlerState
  /\ CurState
  /\ AcceptedFirst
  /\ ConnOwnership
  /\ NoStrayAcceptor
  /\ NoForgottenZombie

USE NamesAssumption

LEMMA InitIInv == Init => IInv
BY DEF Init, IInv, TypeOK, HandlerState, CurState, AcceptedFirst, ConnOwnership,
       NoStrayAcceptor, NoForgottenZombie, Where,
       MainLine, Causes, Children, Running

LEMMA TypeOKStep == IInv /\ [Next]_vars => TypeOK'
<1> SUFFICES ASSUME IInv, [Next]_vars PROVE TypeOK'
  OBVIOUS
<1> USE DEF IInv, TypeOK, CurState, HandlerState, MainLine, Causes, Children,
     Running, Where
<1>1. ASSUME NEW why \in Causes, Stop(why) PROVE TypeOK'
  BY <1>1 DEF Stop, ReleaseAll, Unlisten
<1>2. CASE Banner \/ CatchAccept \/ LogAccepted \/ KillParent
  BY <1>1, <1>2 DEF Banner, CatchAccept, LogAccepted, KillParent, Goto
<1>3. ASSUME NEW c \in Conns, proc[c] \in Running, Exit(c) PROVE TypeOK'
  BY <1>3 DEF Exit, ReleaseAll, Unlisten, parentVars
<1>4. ASSUME NEW c \in Conns, ChildLoops(c) \/ ChildEnds(c) \/ ChildAborts(c)
       PROVE TypeOK'
  BY <1>3, <1>4 DEF ChildLoops, ChildEnds, ChildAborts, Live, Running
<1>5. CASE Fork
  BY <1>5 DEF Fork
<1>6. CASE ForkFails
  BY <1>6 DEF ForkFails
<1>7. CASE CloseAccepted
  BY <1>7 DEF CloseAccepted
<1>8. CASE ReapZombies
  BY <1>8 DEF ReapZombies, Reap, parentVars, Zombies
<1>9. CASE NextIteration
  BY <1>9 DEF NextIteration, AfterWaitpid, Zombies
<1>10. CASE HandlerReaps
  BY <1>10 DEF HandlerReaps, Reap, parentVars, Zombies
<1>11. CASE HandlerReturns
  BY <1>11 DEF HandlerReturns, AfterWaitpid, Zombies
<1>12. CASE Deliver
  BY <1>12 DEF Deliver, Backlog
<1>13. CASE AcceptFails
  BY <1>13 DEF AcceptFails
<1>14. ASSUME NEW c \in Conns, Accept(c) PROVE TypeOK'
  BY <1>14 DEF Accept, Backlog
<1>15. ASSUME NEW c \in Conns, Connect(c) PROVE TypeOK'
  BY <1>15 DEF Connect, parentVars
<1>16. ASSUME NEW c \in Conns, Leave(c) PROVE TypeOK'
  BY <1>16 DEF Leave, parentVars
<1>17. ASSUME NEW c \in Conns, ChildCloses(c) PROVE TypeOK'
  BY <1>17 DEF ChildCloses, parentVars, Unlisten
<1>18. ASSUME NEW c \in Conns, ChildLogs(c) PROVE TypeOK'
  <2>1. CASE UNCHANGED open
    BY <1>18, <2>1 DEF ChildLogs, parentVars
  <2>2. CASE open' = [open EXCEPT ![c] = @ \ {c}]
    BY <1>18, <2>2 DEF ChildLogs, parentVars
  <2> QED BY <1>18, <2>1, <2>2 DEF ChildLogs
<1>19. CASE UNCHANGED vars
  BY <1>19 DEF vars
<1> QED
  BY <1>2, <1>4, <1>5, <1>6, <1>7, <1>8, <1>9, <1>10, <1>11, <1>12, <1>13,
     <1>14, <1>15, <1>16, <1>17, <1>18, <1>19
  DEF Next, ParentStep, ChildStep

LEMMA HandlerStateStep == IInv /\ [Next]_vars => HandlerState'
<1> SUFFICES ASSUME IInv, [Next]_vars PROVE HandlerState'
  OBVIOUS
<1> USE DEF IInv, TypeOK, HandlerState, MainLine
<1>1. ASSUME NEW why, Stop(why) PROVE HandlerState'
  BY <1>1 DEF Stop, ReleaseAll, Unlisten
<1>2. CASE Banner \/ CatchAccept \/ LogAccepted \/ KillParent
  BY <1>1, <1>2 DEF Banner, CatchAccept, LogAccepted, KillParent, Goto
<1>3. ASSUME NEW c \in Conns, proc[c] \in Running, Exit(c) PROVE HandlerState'
  BY <1>3 DEF Exit, ReleaseAll, Unlisten, parentVars
<1>4. ASSUME NEW c \in Conns, ChildLoops(c) \/ ChildEnds(c) \/ ChildAborts(c)
       PROVE HandlerState'
  BY <1>3, <1>4 DEF ChildLoops, ChildEnds, ChildAborts, Live, Running
<1>5. CASE Fork
  BY <1>5 DEF Fork
<1>6. CASE ForkFails
  BY <1>6 DEF ForkFails
<1>7. CASE CloseAccepted
  BY <1>7 DEF CloseAccepted
<1>8. CASE NextIteration
  BY <1>8 DEF NextIteration, AfterWaitpid, Zombies
<1>9. CASE HandlerReturns
  BY <1>9 DEF HandlerReturns, AfterWaitpid, Zombies
<1>10. CASE Deliver
  BY <1>10 DEF Deliver, Backlog
<1>11. CASE AcceptFails
  BY <1>11 DEF AcceptFails
<1>12. ASSUME NEW c \in Conns, Accept(c) PROVE HandlerState'
  BY <1>12 DEF Accept, Backlog
\* These leave pc, resume, sigchld alone.
<1>13. CASE \/ ReapZombies \/ HandlerReaps
          \/ \E c \in Conns : Connect(c) \/ Leave(c) \/ ChildCloses(c) \/ ChildLogs(c)
  BY <1>13 DEF ReapZombies, HandlerReaps, Connect, Leave, ChildCloses,
     ChildLogs, parentVars
<1>14. CASE UNCHANGED vars
  BY <1>14 DEF vars
<1> QED
  BY <1>2, <1>4, <1>5, <1>6, <1>7, <1>8, <1>9, <1>10, <1>11, <1>12, <1>13,
     <1>14
  DEF Next, ParentStep, ChildStep

LEMMA CurStateStep == IInv /\ [Next]_vars => CurState'
<1> SUFFICES ASSUME IInv, [Next]_vars PROVE CurState'
  OBVIOUS
<1> USE DEF IInv, TypeOK, HandlerState, CurState, Where, AcceptedFirst,
     ConnOwnership, Running, Children, MainLine
<1>1. ASSUME NEW why, Stop(why) PROVE CurState'
  BY <1>1 DEF Stop, ReleaseAll, Unlisten
<1>2. CASE Banner \/ CatchAccept \/ LogAccepted \/ KillParent
  <2>1. CASE Banner
    BY <1>1, <2>1 DEF Banner, Goto
  <2>2. CASE CatchAccept
    <3>1. CASE pc \in {"interrupted", "failed"} /\ Goto(pc, "accept")
      BY <3>1 DEF Goto
    <3> QED BY <1>1, <2>2, <3>1 DEF CatchAccept
  <2>3. CASE LogAccepted
    <3>1. CASE Goto("accepted", "fork")
      BY <3>1 DEF Goto
    <3> QED BY <1>1, <2>3, <3>1 DEF LogAccepted
  <2> QED BY <1>1, <1>2, <2>1, <2>2, <2>3 DEF KillParent
<1>3. ASSUME NEW c \in Conns, proc[c] \in Running, Exit(c) PROVE CurState'
  BY <1>3 DEF Exit, ReleaseAll, Unlisten, parentVars
<1>4. ASSUME NEW c \in Conns, ChildLoops(c) \/ ChildEnds(c) \/ ChildAborts(c)
       PROVE CurState'
  BY <1>3, <1>4 DEF ChildLoops, ChildEnds, ChildAborts, Live, Running
<1>5. CASE Fork
  BY <1>5 DEF Fork
<1>6. CASE ForkFails
  BY <1>6 DEF ForkFails
<1>7. CASE CloseAccepted
  BY <1>7 DEF CloseAccepted
<1>8. CASE ReapZombies
  BY <1>8 DEF ReapZombies, Reap, parentVars, Zombies
<1>9. CASE NextIteration
  BY <1>9 DEF NextIteration, AfterWaitpid, Zombies
<1>10. CASE HandlerReaps
  BY <1>10 DEF HandlerReaps, Reap, parentVars, Zombies
<1>11. CASE HandlerReturns
  BY <1>11 DEF HandlerReturns, AfterWaitpid, Zombies
<1>12. CASE Deliver
  BY <1>12 DEF Deliver, Backlog
<1>13. CASE AcceptFails
  BY <1>13 DEF AcceptFails
<1>14. ASSUME NEW c \in Conns, Accept(c) PROVE CurState'
  BY <1>14 DEF Accept, Backlog
<1>15. ASSUME NEW c \in Conns, ChildCloses(c) PROVE CurState'
  BY <1>15 DEF ChildCloses, parentVars, Unlisten
<1>16. ASSUME NEW c \in Conns, ChildLogs(c) PROVE CurState'
  BY <1>16 DEF ChildLogs, parentVars
\* These leave pc, resume, cur, proc, open alone.
<1>17. CASE \E c \in Conns : Connect(c) \/ Leave(c)
  BY <1>17 DEF Connect, Leave, parentVars
<1>18. CASE UNCHANGED vars
  BY <1>18 DEF vars
<1> QED
  BY <1>2, <1>4, <1>5, <1>6, <1>7, <1>8, <1>9, <1>10, <1>11, <1>12, <1>13,
     <1>14, <1>15, <1>16, <1>17, <1>18
  DEF Next, ParentStep, ChildStep

LEMMA AcceptedFirstStep == IInv /\ [Next]_vars => AcceptedFirst'
<1> SUFFICES ASSUME IInv, [Next]_vars PROVE AcceptedFirst'
  OBVIOUS
<1> USE DEF IInv, TypeOK, HandlerState, CurState, Where, AcceptedFirst,
     ConnOwnership, Running, Children, MainLine
<1>1. ASSUME NEW why, Stop(why) PROVE AcceptedFirst'
  BY <1>1 DEF Stop, ReleaseAll, Unlisten
<1>2. CASE Banner \/ CatchAccept \/ LogAccepted \/ KillParent
  <2>1. CASE Banner
    BY <1>1, <2>1 DEF Banner, Goto
  <2>2. CASE CatchAccept
    <3>1. CASE pc \in {"interrupted", "failed"} /\ Goto(pc, "accept")
      BY <3>1 DEF Goto
    <3> QED BY <1>1, <2>2, <3>1 DEF CatchAccept
  <2>3. CASE LogAccepted
    <3>1. CASE Goto("accepted", "fork")
      BY <3>1 DEF Goto
    <3> QED BY <1>1, <2>3, <3>1 DEF LogAccepted
  <2> QED BY <1>1, <1>2, <2>1, <2>2, <2>3 DEF KillParent
<1>3. ASSUME NEW c \in Conns, proc[c] \in Running, Exit(c) PROVE AcceptedFirst'
  BY <1>3 DEF Exit, ReleaseAll, Unlisten, parentVars
<1>4. ASSUME NEW c \in Conns, ChildLoops(c) \/ ChildEnds(c) \/ ChildAborts(c)
       PROVE AcceptedFirst'
  BY <1>3, <1>4 DEF ChildLoops, ChildEnds, ChildAborts, Live, Running
<1>5. CASE Fork
  BY <1>5 DEF Fork
<1>6. CASE CloseAccepted
  BY <1>6 DEF CloseAccepted
<1>7. CASE ReapZombies
  BY <1>7 DEF ReapZombies, Reap, parentVars, Zombies
<1>8. CASE NextIteration
  BY <1>8 DEF NextIteration, AfterWaitpid, Zombies
<1>9. CASE HandlerReaps
  BY <1>9 DEF HandlerReaps, Reap, parentVars, Zombies
<1>10. ASSUME NEW c \in Conns, Accept(c) PROVE AcceptedFirst'
  BY <1>10 DEF Accept, Backlog
<1>11. ASSUME NEW c \in Conns, Connect(c) PROVE AcceptedFirst'
  BY <1>11 DEF Connect, parentVars
<1>12. ASSUME NEW c \in Conns, ChildCloses(c) PROVE AcceptedFirst'
  BY <1>12 DEF ChildCloses, parentVars, Unlisten
<1>13. ASSUME NEW c \in Conns, ChildLogs(c) PROVE AcceptedFirst'
  BY <1>13 DEF ChildLogs, parentVars
\* These leave proc, conn, open alone.
<1>14. CASE \/ ForkFails \/ HandlerReturns \/ Deliver \/ AcceptFails
          \/ \E c \in Conns : Leave(c)
  BY <1>14 DEF ForkFails, HandlerReturns, Deliver, AcceptFails, Leave,
     parentVars
<1>15. CASE UNCHANGED vars
  BY <1>15 DEF vars
<1> QED
  BY <1>2, <1>4, <1>5, <1>6, <1>7, <1>8, <1>9, <1>10, <1>11, <1>12, <1>13,
     <1>14, <1>15
  DEF Next, ParentStep, ChildStep

LEMMA ConnOwnershipStep == IInv /\ [Next]_vars => ConnOwnership'
<1> SUFFICES ASSUME IInv, [Next]_vars PROVE ConnOwnership'
  OBVIOUS
<1> USE DEF IInv, TypeOK, HandlerState, CurState, AcceptedFirst,
     ConnOwnership, Where, MainLine, Running
<1>1. ASSUME NEW why, Stop(why) PROVE ConnOwnership'
  BY <1>1 DEF Stop, ReleaseAll, Unlisten
<1>2. CASE Banner \/ CatchAccept \/ LogAccepted \/ KillParent
  <2>1. CASE Banner
    BY <1>1, <2>1 DEF Banner, Goto
  <2>2. CASE CatchAccept
    <3>1. CASE pc \in {"interrupted", "failed"} /\ Goto(pc, "accept")
      BY <3>1 DEF Goto
    <3> QED BY <1>1, <2>2, <3>1 DEF CatchAccept
  <2>3. CASE LogAccepted
    <3>1. CASE Goto("accepted", "fork")
      BY <3>1 DEF Goto
    <3> QED BY <1>1, <2>3, <3>1 DEF LogAccepted
  <2> QED BY <1>1, <1>2, <2>1, <2>2, <2>3 DEF KillParent
<1>3. ASSUME NEW c \in Conns, proc[c] \in Running, Exit(c) PROVE ConnOwnership'
  BY <1>3 DEF Exit, ReleaseAll, Unlisten, parentVars
<1>4. ASSUME NEW c \in Conns, ChildLoops(c) \/ ChildEnds(c) \/ ChildAborts(c)
       PROVE ConnOwnership'
  BY <1>3, <1>4 DEF ChildLoops, ChildEnds, ChildAborts, Live, Running
<1>5. CASE Fork
  BY <1>5 DEF Fork
<1>6. CASE ForkFails
  BY <1>6 DEF ForkFails
<1>7. CASE CloseAccepted
  BY <1>7 DEF CloseAccepted
<1>8. CASE ReapZombies
  BY <1>8 DEF ReapZombies, Reap, parentVars, Zombies
<1>9. CASE NextIteration
  BY <1>9 DEF NextIteration, AfterWaitpid, Zombies
<1>10. CASE HandlerReaps
  BY <1>10 DEF HandlerReaps, Reap, parentVars, Zombies
<1>11. CASE HandlerReturns
  BY <1>11 DEF HandlerReturns, AfterWaitpid, Zombies
<1>12. CASE Deliver
  BY <1>12 DEF Deliver, Backlog
<1>13. CASE AcceptFails
  BY <1>13 DEF AcceptFails
<1>14. ASSUME NEW c \in Conns, Accept(c) PROVE ConnOwnership'
  BY <1>14 DEF Accept, Backlog
<1>15. ASSUME NEW c \in Conns, ChildCloses(c) PROVE ConnOwnership'
  BY <1>15 DEF ChildCloses, parentVars, Unlisten
<1>16. ASSUME NEW c \in Conns, ChildLogs(c) PROVE ConnOwnership'
  BY <1>16 DEF ChildLogs, parentVars
\* These leave pc, resume, cur, proc, open alone.
<1>17. CASE \E c \in Conns : Connect(c) \/ Leave(c)
  BY <1>17 DEF Connect, Leave, parentVars
<1>18. CASE UNCHANGED vars
  BY <1>18 DEF vars
<1> QED
  BY <1>2, <1>4, <1>5, <1>6, <1>7, <1>8, <1>9, <1>10, <1>11, <1>12, <1>13,
     <1>14, <1>15, <1>16, <1>17, <1>18
  DEF Next, ParentStep, ChildStep

LEMMA NoStrayAcceptorStep == IInv /\ [Next]_vars => NoStrayAcceptor'
<1> SUFFICES ASSUME IInv, [Next]_vars PROVE NoStrayAcceptor'
  OBVIOUS
<1> USE DEF IInv, TypeOK, NoStrayAcceptor, CurState, Running, MainLine
<1>1. ASSUME NEW why, Stop(why) PROVE NoStrayAcceptor'
  BY <1>1 DEF Stop, ReleaseAll, Unlisten
<1>2. CASE Banner \/ CatchAccept \/ LogAccepted \/ KillParent
  BY <1>1, <1>2 DEF Banner, CatchAccept, LogAccepted, KillParent, Goto
<1>3. ASSUME NEW c \in Conns, proc[c] \in Running, Exit(c) PROVE NoStrayAcceptor'
  BY <1>3 DEF Exit, ReleaseAll, Unlisten, parentVars
<1>4. ASSUME NEW c \in Conns, ChildLoops(c) \/ ChildEnds(c) \/ ChildAborts(c)
       PROVE NoStrayAcceptor'
  BY <1>3, <1>4 DEF ChildLoops, ChildEnds, ChildAborts, Live, Running
<1>5. CASE Fork
  BY <1>5 DEF Fork
<1>6. CASE ReapZombies
  BY <1>6 DEF ReapZombies, Reap, parentVars, Zombies
<1>7. CASE HandlerReaps
  BY <1>7 DEF HandlerReaps, Reap, parentVars, Zombies
<1>8. ASSUME NEW c \in Conns, ChildCloses(c) PROVE NoStrayAcceptor'
  BY <1>8 DEF ChildCloses, parentVars, Unlisten
<1>9. ASSUME NEW c \in Conns, ChildLogs(c) PROVE NoStrayAcceptor'
  BY <1>9 DEF ChildLogs, parentVars
\* These leave proc, listen alone.
<1>10. CASE \/ ForkFails \/ CloseAccepted \/ NextIteration \/ HandlerReturns \/ Deliver \/ AcceptFails
          \/ \E c \in Conns : Accept(c) \/ Connect(c) \/ Leave(c)
  BY <1>10 DEF ForkFails, CloseAccepted, NextIteration, HandlerReturns,
     Deliver, AcceptFails, Accept, Connect, Leave, parentVars
<1>11. CASE UNCHANGED vars
  BY <1>11 DEF vars
<1> QED
  BY <1>2, <1>4, <1>5, <1>6, <1>7, <1>8, <1>9, <1>10, <1>11
  DEF Next, ParentStep, ChildStep

LEMMA NoForgottenZombieStep == IInv /\ [Next]_vars => NoForgottenZombie'
<1> SUFFICES ASSUME IInv, [Next]_vars PROVE NoForgottenZombie'
  OBVIOUS
<1> USE DEF IInv, TypeOK, NoForgottenZombie, HandlerState, CurState, Where,
     MainLine, Running
<1>1. ASSUME NEW why, Stop(why) PROVE NoForgottenZombie'
  BY <1>1 DEF Stop, ReleaseAll, Unlisten
<1>2. CASE Banner \/ CatchAccept \/ LogAccepted \/ KillParent
  BY <1>1, <1>2 DEF Banner, CatchAccept, LogAccepted, KillParent, Goto
<1>3. ASSUME NEW c \in Conns, proc[c] \in Running, Exit(c) PROVE NoForgottenZombie'
  BY <1>3 DEF Exit, ReleaseAll, Unlisten, parentVars
<1>4. ASSUME NEW c \in Conns, ChildLoops(c) \/ ChildEnds(c) \/ ChildAborts(c)
       PROVE NoForgottenZombie'
  BY <1>3, <1>4 DEF ChildLoops, ChildEnds, ChildAborts, Live, Running
<1>5. CASE Fork
  BY <1>5 DEF Fork
<1>6. CASE ForkFails
  BY <1>6 DEF ForkFails
<1>7. CASE CloseAccepted
  BY <1>7 DEF CloseAccepted
<1>8. CASE ReapZombies
  BY <1>8 DEF ReapZombies, Reap, parentVars, Zombies
<1>9. CASE NextIteration
  BY <1>9 DEF NextIteration, AfterWaitpid, Zombies
<1>10. CASE HandlerReaps
  BY <1>10 DEF HandlerReaps, Reap, parentVars, Zombies
<1>11. CASE HandlerReturns
  BY <1>11 DEF HandlerReturns, AfterWaitpid, Zombies
<1>12. CASE Deliver
  BY <1>12 DEF Deliver, Backlog
<1>13. CASE AcceptFails
  BY <1>13 DEF AcceptFails
<1>14. ASSUME NEW c \in Conns, Accept(c) PROVE NoForgottenZombie'
  BY <1>14 DEF Accept, Backlog
<1>15. ASSUME NEW c \in Conns, ChildCloses(c) PROVE NoForgottenZombie'
  BY <1>15 DEF ChildCloses, parentVars, Unlisten
<1>16. ASSUME NEW c \in Conns, ChildLogs(c) PROVE NoForgottenZombie'
  BY <1>16 DEF ChildLogs, parentVars
\* These leave pc, sigchld, proc alone.
<1>17. CASE \E c \in Conns : Connect(c) \/ Leave(c)
  BY <1>17 DEF Connect, Leave, parentVars
<1>18. CASE UNCHANGED vars
  BY <1>18 DEF vars
<1> QED
  BY <1>2, <1>4, <1>5, <1>6, <1>7, <1>8, <1>9, <1>10, <1>11, <1>12, <1>13,
     <1>14, <1>15, <1>16, <1>17, <1>18
  DEF Next, ParentStep, ChildStep

------------------------------------------------------------------------------
\* IInv holds in every state of every behaviour, from the eight lemmas above.
THEOREM Invariance == Spec => []IInv
<1>1. IInv /\ [Next]_vars => IInv'
  BY TypeOKStep, HandlerStateStep, CurStateStep, AcceptedFirstStep,
     ConnOwnershipStep, NoStrayAcceptorStep, NoForgottenZombieStep DEF IInv
<1> QED
  BY InitIInv, <1>1, PTL DEF Spec

\* TypeOK: the variables of the daemon, its children and connections have their
\* types in every state, for any set of connections.
THEOREM TypeCorrect == Spec => []TypeOK
<1>1. IInv => TypeOK
  BY DEF IInv
<1> QED
  BY Invariance, <1>1, PTL

\* ConnOwnership: no process but the daemon, up to accept.close(), and the
\* connection's own child holds a descriptor of it.
THEOREM Ownership == Spec => []ConnOwnership
<1>1. IInv => ConnOwnership
  BY DEF IInv
<1> QED
  BY Invariance, <1>1, PTL

\* NoStrayAcceptor: a child past server.close() has no listening socket.
THEOREM ChildrenDoNotListen == Spec => []NoStrayAcceptor
<1>1. IInv => NoStrayAcceptor
  BY DEF IInv
<1> QED
  BY Invariance, <1>1, PTL

\* NoForgottenZombie: however exits merge into one SIGCHLD and wherever it is
\* delivered, an exited child is never left without a reaper to come.
THEOREM ZombiesAreNotForgotten == Spec => []NoForgottenZombie
<1>1. IInv => NoForgottenZombie
  BY DEF IInv
<1> QED
  BY Invariance, <1>1, PTL

------------------------------------------------------------------------------
(* Why the daemon stops. *)

\* The children that have exited.
Exited == {c \in Conns : proc[c] \in {"zombie", "reaped"}}

One == Exited # {}
Two == \E c, d \in Exited : c # d

\* accept(2) has been interrupted, or is about to be.
Interrupted == resume = "eintr" \/ Where = "interrupted"

\* One exit raises one signal, an interrupted accept(2) has taken one, and only a
\* second one can run the handler again before errno is read.
SignalsCount ==
  /\ sigchld \/ Interrupted => One
  /\ sigchld /\ Interrupted => Two
  /\ resume = "interrupted" => Two
  /\ Where = "interrupted" /\ errno # "EINTR" => Two /\ Live = {}
  /\ cause # "none" => pc = "stopped"
  /\ cause = "EINTR lost" => Two /\ Live = {} /\ Zombies = {}

\* Who has exited remains so, and only fork makes children.
LEMMA ExitsRemain ==
  IInv /\ [Next]_vars => Exited \subseteq Exited' /\ (Fork \/ Live' \subseteq Live)
<1> SUFFICES ASSUME IInv, [Next]_vars
             PROVE  Exited \subseteq Exited' /\ (Fork \/ Live' \subseteq Live)
  OBVIOUS
<1> USE DEF IInv, TypeOK, CurState, Where, Exited, Live, Running
<1>1. ASSUME NEW why, Stop(why) PROVE Exited \subseteq Exited' /\ Live' \subseteq Live
  BY <1>1 DEF Stop, ReleaseAll, Unlisten
<1>2. CASE Banner \/ CatchAccept \/ LogAccepted \/ KillParent
  BY <1>1, <1>2 DEF Banner, CatchAccept, LogAccepted, KillParent, Goto
<1>3. ASSUME NEW c \in Conns, proc[c] \in Running, Exit(c)
       PROVE Exited \subseteq Exited' /\ Live' \subseteq Live
  BY <1>3 DEF Exit, ReleaseAll, Unlisten, parentVars
<1>4. ASSUME NEW c \in Conns, ChildLoops(c) \/ ChildEnds(c) \/ ChildAborts(c)
       PROVE Exited \subseteq Exited' /\ Live' \subseteq Live
  BY <1>3, <1>4 DEF ChildLoops, ChildEnds, ChildAborts
<1>5. CASE Fork
  BY <1>5 DEF Fork
<1>6. CASE ReapZombies \/ HandlerReaps
  BY <1>6 DEF ReapZombies, HandlerReaps, Reap, Zombies
<1>7. CASE \E c \in Conns : ChildCloses(c) \/ ChildLogs(c)
  BY <1>7 DEF ChildCloses, ChildLogs
<1>8. CASE \/ ForkFails \/ CloseAccepted \/ NextIteration \/ HandlerReturns \/ Deliver
           \/ AcceptFails \/ \E c \in Conns : Accept(c) \/ Connect(c) \/ Leave(c)
  BY <1>8 DEF ForkFails, CloseAccepted, NextIteration, HandlerReturns, Deliver,
     AcceptFails, Accept, Connect, Leave
<1>9. CASE UNCHANGED vars
  BY <1>9 DEF vars
<1> QED
  BY <1>2, <1>4, <1>5, <1>6, <1>7, <1>8, <1>9 DEF Next, ParentStep, ChildStep

LEMMA SignalsCountStep == IInv /\ SignalsCount /\ [Next]_vars => SignalsCount'
<1> SUFFICES ASSUME IInv, SignalsCount, [Next]_vars PROVE SignalsCount'
  OBVIOUS
<1>0. /\ Exited \subseteq Exited' /\ (Fork \/ Live' \subseteq Live)
      /\ (One => One') /\ (Two => Two')
  BY ExitsRemain DEF One, Two
<1>t. TypeOK /\ HandlerState
  BY DEF IInv
<1> USE DEF SignalsCount, Interrupted, Where, MainLine
<1>1. ASSUME NEW why \in Causes \ {"none"}, Stop(why), pc # "stopped", ~ Fork,
             why = "EINTR lost" => Where = "interrupted" /\ errno # "EINTR"
       PROVE SignalsCount'
  <2>1. Zombies' = {}
    BY <1>1, <1>t DEF Stop, Zombies, TypeOK
  <2> QED BY <1>0, <1>1, <2>1 DEF Stop, Causes
<1>g. ASSUME NEW from \in MainLine, NEW to \in MainLine \ {"interrupted"}, Goto(from, to),
             ~ Fork
       PROVE SignalsCount'
  <2>1. Zombies' = Zombies
    BY <1>g DEF Goto, Zombies
  <2>2. from # "handler" /\ from # "stopped" /\ to # "handler"
    BY <1>g
  <2> QED BY <1>0, <1>g, <1>t, <2>1, <2>2 DEF Goto, HandlerState
<1>2. CASE Banner \/ LogAccepted
  <2>1. ~ Fork
    BY <1>2 DEF Banner, LogAccepted, Goto, Stop, Fork
  <2>2. CASE Goto("banner", "accept") \/ Goto("accepted", "fork")
    BY <1>g, <2>1, <2>2
  <2>3. CASE pc \in {"banner", "accepted"} /\ Stop("lookup")
    BY <1>1, <2>1, <2>3 DEF Causes
  <2> QED BY <1>2, <2>2, <2>3 DEF Banner, LogAccepted
<1>3. CASE KillParent
  <2>1. ~ Fork
    BY <1>3 DEF KillParent, Stop, Fork
  <2> QED BY <1>1, <1>3, <2>1 DEF KillParent, Causes
<1>4. CASE CatchAccept
  <2>1. ~ Fork
    BY <1>4 DEF CatchAccept, Goto, Stop, Fork
  <2>2. CASE pc \in {"interrupted", "failed"} /\ Goto(pc, "accept")
    BY <1>g, <2>1, <2>2
  <2>3. CASE errno # "EINTR" /\ pc = "interrupted" /\ Stop("EINTR lost")
    BY <1>1, <2>1, <2>3 DEF Causes
  <2>4. CASE pc = "failed" /\ Stop("accept failed")
    BY <1>1, <2>1, <2>4 DEF Causes
  <2> QED BY <1>4, <2>2, <2>3, <2>4 DEF CatchAccept
<1>5. ASSUME NEW c \in Conns, proc[c] \in Running, Exit(c) PROVE SignalsCount'
  <2>1. c \notin Exited /\ pc \notin {"stopped"} => c \in Exited'
    BY <1>5, <1>t DEF Exited, Exit, TypeOK
  <2>2. c \notin Exited
    BY <1>5 DEF Exited, Running
  <2>3. pc # "stopped" => One' /\ (One => Two')
    BY <2>1, <2>2, <1>0 DEF One, Two
  <2>4. Live # {}
    BY <1>5 DEF Live
  <2> QED BY <1>0, <1>5, <1>t, <2>3, <2>4 DEF Exit, parentVars, HandlerState
<1>6. ASSUME NEW c \in Conns, ChildLoops(c) \/ ChildEnds(c) \/ ChildAborts(c)
       PROVE SignalsCount'
  BY <1>5, <1>6 DEF ChildLoops, ChildEnds, ChildAborts, Live, Running
<1>7. CASE Fork
  BY <1>0, <1>7, <1>t DEF Fork, HandlerState
<1>8. CASE ForkFails
  BY <1>0, <1>8, <1>t DEF ForkFails, Fork, HandlerState, Zombies
<1>9. CASE CloseAccepted
  BY <1>0, <1>9 DEF CloseAccepted, Fork, Zombies
<1>10. CASE ReapZombies \/ HandlerReaps
  <2>1. UNCHANGED <<pc, resume, errno, cause, sigchld>> /\ pc # "stopped" /\ pc # "fork"
    BY <1>10 DEF ReapZombies, HandlerReaps, parentVars
  <2>2. Live' \subseteq Live
    BY <1>0, <2>1 DEF Fork
  <2> QED BY <1>0, <2>1, <2>2
<1>11. CASE NextIteration
  BY <1>0, <1>11, <1>t DEF NextIteration, Fork, HandlerState
<1>12. CASE HandlerReturns
  BY <1>0, <1>12, <1>t DEF HandlerReturns, Fork, HandlerState, AfterWaitpid
<1>13. CASE Deliver
  BY <1>0, <1>13, <1>t DEF Deliver, Fork, HandlerState
<1>14. CASE AcceptFails
  BY <1>0, <1>14, <1>t DEF AcceptFails, Fork, HandlerState
<1>15. ASSUME NEW c \in Conns, Accept(c) PROVE SignalsCount'
  BY <1>0, <1>15, <1>t DEF Accept, Fork, HandlerState
<1>16. ASSUME NEW c \in Conns, Connect(c) \/ Leave(c) \/ ChildCloses(c) \/ ChildLogs(c)
        PROVE SignalsCount'
  <2>1. Zombies' \subseteq Zombies
    BY <1>16, <1>t DEF Connect, Leave, ChildCloses, ChildLogs, Zombies, TypeOK
  <2>2. UNCHANGED <<parentVars, sigchld>> /\ ~ Fork
    BY <1>16 DEF Connect, Leave, ChildCloses, ChildLogs, Fork, parentVars
  <2>3. Live' \subseteq Live
    BY <1>0, <2>2
  <2> QED BY <1>0, <2>1, <2>2, <2>3 DEF parentVars
<1>17. CASE UNCHANGED vars
  BY <1>0, <1>17 DEF vars, One, Two, Exited, Live, Zombies
<1> QED
  BY <1>2, <1>3, <1>4, <1>6, <1>7, <1>8, <1>9, <1>10, <1>11, <1>12, <1>13, <1>14,
     <1>15, <1>16, <1>17
  DEF Next, ParentStep, ChildStep

\* DaemonSurvives: with any number of children, however their exits and signals come, a
\* child's exit stops the daemon only where two have exited and none is left.
THEOREM ExitsAreSurvived == Spec => []DaemonSurvives
<1>1. Init => SignalsCount
  BY DEF Init, SignalsCount, Interrupted, Where
<1>2. SignalsCount => DaemonSurvives
  BY DEF SignalsCount, DaemonSurvives, Two, Exited, Zombies
<1> QED
  BY Invariance, SignalsCountStep, <1>1, <1>2, PTL DEF Spec

------------------------------------------------------------------------------
(* The refinement. *)

SvcBar == [c \in Conns |-> SvcOf(c)]

LEMMA InitRefines == Init => Service!Init
BY DEF Init, Service!Init, SvcOf

LEMMA StepRefines ==
  IInv /\ IInv' /\ [Next]_vars => [Service!Next]_SvcBar
<1> SUFFICES ASSUME IInv, IInv', [Next]_vars PROVE Service!Next \/ UNCHANGED SvcBar
  OBVIOUS
<1> USE DEF IInv, TypeOK, HandlerState, CurState, AcceptedFirst, ConnOwnership,
            Where, MainLine
\* Steps under which connections, if anything, end.
<1>1. ASSUME \A c \in Conns : \/ SvcOf(c)' = SvcOf(c)
                              \/ SvcOf(c) # "idle" /\ SvcOf(c)' = "over"
      PROVE Service!Next
  <2> DEFINE S == {c \in Conns : SvcOf(c)' # SvcOf(c)}
  <2>1. S \in SUBSET Service!Started
    BY <1>1 DEF Service!Started
  <2>2. Service!End(S)
    BY <1>1 DEF Service!End
  <2> QED BY <2>1, <2>2 DEF Service!Next
\* Steps that move one connection to stage s.
<1>0. ASSUME NEW c \in Conns, NEW s,
             \A d \in Conns : SvcOf(d)' = IF d = c THEN s ELSE SvcOf(d)
      PROVE SvcBar' = [SvcBar EXCEPT ![c] = s]
  BY <1>0 DEF SvcBar
<1> USE DEF SvcOf
<1>2. ASSUME NEW why, Stop(why) PROVE Service!Next
  BY <1>1, <1>2 DEF Stop, ReleaseAll, Unlisten
<1>3. ASSUME NEW c \in Conns, proc[c] \in Running, Exit(c) PROVE Service!Next
  BY <1>1, <1>3 DEF Exit, ReleaseAll, Unlisten, Running
<1>4. ASSUME NEW c \in Conns, ChildLoops(c) \/ ChildEnds(c) \/ ChildAborts(c)
      PROVE Service!Next
  BY <1>3, <1>4 DEF ChildLoops, ChildEnds, ChildAborts, Live, Running
<1>5. ASSUME NEW c \in Conns, ChildCloses(c) PROVE Service!Next
  BY <1>1, <1>5 DEF ChildCloses, Unlisten, Running
<1>6. ASSUME NEW c \in Conns, ChildLogs(c) PROVE Service!Next
  BY <1>1, <1>6 DEF ChildLogs, Running
<1>7. CASE CloseAccepted
  BY <1>1, <1>7 DEF CloseAccepted
<1>8. CASE NextIteration
  BY <1>1, <1>8 DEF NextIteration
<1>9. CASE ReapZombies \/ HandlerReaps
  BY <1>1, <1>9 DEF ReapZombies, HandlerReaps, Zombies, Reap
\* Steps of ConnService.
<1>10. ASSUME NEW c \in Conns, Connect(c) PROVE Service!Next
  <2>1. SvcOf(c) = "idle" /\ SvcOf(c)' \in {"waiting", "over"}
    BY <1>10 DEF Connect
  <2>2. \A d \in Conns : SvcOf(d)' = IF d = c THEN SvcOf(c)' ELSE SvcOf(d)
    BY <1>10 DEF Connect
  <2>3. SvcBar' = [SvcBar EXCEPT ![c] = SvcOf(c)']
    BY <1>0, <2>2
  <2> HIDE DEF SvcOf
  <2>4. Service!Arrive(c)
    BY <2>1, <2>3 DEF Service!Arrive, SvcBar
  <2> QED BY <2>4 DEF Service!Next
<1>11. ASSUME NEW c \in Conns, Accept(c) PROVE Service!Next
  <2>1. \A d \in Conns : SvcOf(d) # "held"
    BY <1>11 DEF Accept, Backlog
  <2>2. SvcOf(c) = "waiting"
    BY <1>11 DEF Accept, Backlog
  <2>3. \A d \in Conns : SvcOf(d)' = IF d = c THEN "held" ELSE SvcOf(d)
    BY <1>11 DEF Accept, Backlog
  <2>4. SvcBar' = [SvcBar EXCEPT ![c] = "held"]
    BY <1>0, <2>3
  <2> HIDE DEF SvcOf
  <2>5. Service!Take(c)
    BY <2>1, <2>2, <2>4 DEF Service!Take, SvcBar
  <2> QED BY <2>5 DEF Service!Next
<1>12. CASE Fork
  <2>1. cur \in Conns /\ SvcOf(cur) = "held"
    BY <1>12 DEF Fork
  <2>2. \A d \in Conns : SvcOf(d)' = IF d = cur THEN "served" ELSE SvcOf(d)
    BY <1>12 DEF Fork
  <2>3. SvcBar' = [SvcBar EXCEPT ![cur] = "served"]
    BY <1>0, <2>1, <2>2
  <2> HIDE DEF SvcOf
  <2>4. Service!HandOff(cur)
    BY <2>1, <2>3 DEF Service!HandOff, SvcBar
  <2> QED BY <2>1, <2>4 DEF Service!Next
\* Steps that a connection does not see.
<1>13. ASSUME NEW from, NEW to, Goto(from, to) PROVE UNCHANGED SvcBar
  BY <1>13 DEF Goto, SvcBar
<1>14. CASE \/ \E c \in Conns : Leave(c)
            \/ ForkFails \/ AcceptFails \/ Deliver \/ HandlerReturns \/ UNCHANGED vars
  BY <1>14 DEF Leave, ForkFails, AcceptFails, Deliver, HandlerReturns,
     SvcBar, parentVars, vars
<1>15. CASE Banner \/ CatchAccept \/ LogAccepted \/ KillParent
  BY <1>2, <1>13, <1>15 DEF Banner, CatchAccept, LogAccepted, KillParent
<1> QED
  BY <1>4, <1>5, <1>6, <1>7, <1>8, <1>9, <1>10, <1>11, <1>12, <1>14, <1>15
  DEF Next, ParentStep, ChildStep

\* ImplementsService: whatever the scheduler, the signals and the clients do, the
\* daemon takes, hands off and ends connections as ConnService allows.
THEOREM Refinement == Spec => ImplementsService
<1>1. Init => Service!Init
  BY InitRefines
<1>2. IInv /\ IInv' /\ [Next]_vars => [Service!Next]_SvcBar
  BY StepRefines
<1> QED
  BY Invariance, <1>1, <1>2, PTL DEF Spec, ImplementsService, Service!Spec, SvcBar
==============================================================================
