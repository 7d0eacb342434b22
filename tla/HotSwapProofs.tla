----------------------------- MODULE HotSwapProofs -----------------------------
(***************************************************************************)
(* Orderly hand-overs, in which processes may crash and Boot may be shut   *)
(* down at any moment, have no split brain, no orphan and no lost rollback *)
(* notice, however many processes are spawned.                             *)
(***************************************************************************)
EXTENDS HotSwap, SequenceTheorems, TLAPS

\* Only one of Boot's handles is in use, and no judge's process.
Handles ==
    /\ candidate = NoProc
    /\ waiting => child = NoProc
    /\ ~waiting => swapChild = NoProc
    /\ Live \subseteq {child, swapChild}

\* What Boot waits for is the Hello of the process it holds.
Awaited ==
    waiting =>
        /\ peer \in {swapChild, NoProc}
        /\ helloQ # <<>> =>
            /\ helloQ = <<swapChild>>
            /\ swapChild \in Procs /\ proc[swapChild] \notin {"unborn", "starting"}

\* A process is behind the router's entry from its connection on, and is
\* waiting for Boot or has an answer.
Connected ==
    \A p \in Procs :
        /\ proc[p] \in {"unborn", "starting"} => outbox[p] = <<>> /\ peer # p
        /\ proc[p] \in {"connecting", "serving", "deaf"} => peer = p
        /\ running /\ proc[p] = "connecting" => outbox[p] # <<>> \/ helloQ # <<>>

\* While a rollback is not told, nobody has been welcomed.
Untold ==
    context =>
        \A p \in Live :
            /\ proc[p] \in {"starting", "connecting"}
            /\ outbox[p] \in {<<>>, <<"shutdown">>}
            /\ running => outbox[p] = <<>>

OrderlyInv == Orderly => Handles /\ Awaited /\ Connected /\ Untold
Inv == TypeOK /\ OrderlyInv

-----------------------------------------------------------------------------
(* Types.                                                                  *)

\* Killing a handle leaves states of processes.
LEMMA KilledType ==
  ASSUME NEW procs \in [Procs -> ProcStates], NEW c
  PROVE  Killed(procs, c) \in [Procs -> ProcStates]
  BY DEF Killed, ProcStates

\* So does a replacement.
LEMMA ReplaceType ==
  ASSUME TypeOK, NEW c, NEW p \in Procs, Replace(c, p)
  PROVE  proc' \in [Procs -> ProcStates] /\ peer' = NoProc /\ lease' = FALSE
<1>1. Killed(proc, c) \in [Procs -> ProcStates]
  BY KilledType DEF TypeOK
<1> QED
  BY <1>1 DEF Replace, ProcStates

\* And one whose spawn fails.
LEMMA ReplaceFailsType ==
  ASSUME TypeOK, NEW c, ReplaceFails(c)
  PROVE  proc' \in [Procs -> ProcStates] /\ peer' = NoProc /\ lease' = FALSE
  BY KilledType DEF TypeOK, ReplaceFails

\* The answer to a Hello is a sequence of messages that begins with Welcome.
LEMMA HelloAnswerType == HelloAnswer \in Seq(Messages) /\ HelloAnswer # <<>>
<1> DEFINE notice == IF context THEN <<"rollback_context">> ELSE <<>>
           stop == IF waiting THEN <<"shutdown">> ELSE <<>>
<1>1. <<"welcome">> \in Seq(Messages)
  BY DEF Messages
<1>2. notice \in Seq(Messages)
  <2>1. <<"rollback_context">> \in Seq(Messages) /\ <<>> \in Seq(Messages)
    BY DEF Messages
  <2> QED
    BY <2>1, Zenon
<1>3. stop \in Seq(Messages)
  <2>1. <<"shutdown">> \in Seq(Messages) /\ <<>> \in Seq(Messages)
    BY DEF Messages
  <2> QED
    BY <2>1, Zenon
<1>4. HelloAnswer = (<<"welcome">> \o notice) \o stop
  BY DEF HelloAnswer
<1> HIDE DEF notice, stop
<1>5. Len(<<"welcome">>) = 1
  OBVIOUS
<1>6. <<"welcome">> \o notice \in Seq(Messages) /\ Len(<<"welcome">> \o notice) >= 1
  BY <1>1, <1>2, <1>5, ConcatProperties, LenProperties
<1>7. HelloAnswer \in Seq(Messages) /\ Len(HelloAnswer) >= 1
  BY <1>3, <1>4, <1>6, ConcatProperties, LenProperties
<1> QED
  BY <1>7

\* Boot's handlers keep the types.
LEMMA BootStepType ==
  ASSUME TypeOK, BootStep
  PROVE  /\ proc' \in [Procs -> ProcStates]
         /\ {child', swapChild', peer'} \subseteq Procs \cup {NoProc}
         /\ helloQ' \in Seq(Procs) /\ outbox' \in [Procs -> Seq(Messages)]
         /\ {waiting', lease', context'} \subseteq BOOLEAN
<1> USE DEF TypeOK
<1>1. CASE HandleHello
  <2>1. helloQ' \in Seq(Procs) /\ lease' = TRUE /\ peer' = peer
    BY <1>1, HeadTailProperties DEF HandleHello
  <2>2. CASE /\ peer = NoProc
             /\ swapChild' = NoProc
             /\ UNCHANGED <<proc, child, waiting, outbox, context>>
    BY <2>1, <2>2
  <2>3. CASE /\ peer # NoProc
             /\ outbox' = [outbox EXCEPT ![peer] = @ \o HelloAnswer]
             /\ context' = FALSE
             /\ waiting' = FALSE
             /\ swapChild' = NoProc
             /\ proc' = IF waiting THEN Killed(proc, child) ELSE proc
             /\ child' = IF waiting THEN swapChild ELSE child
    <3>1. outbox[peer] \o HelloAnswer \in Seq(Messages)
      BY <2>3, HelloAnswerType, ConcatProperties
    <3>2. outbox' \in [Procs -> Seq(Messages)]
      BY <2>3, <3>1
    <3>3. proc' \in [Procs -> ProcStates]
      BY <2>3, KilledType
    <3> QED
      BY <2>1, <2>3, <3>2, <3>3
  <2> QED
    BY <1>1, <2>2, <2>3 DEF HandleHello
<1>2. CASE SwapTimeout
  BY <1>2, ReplaceType, ReplaceFailsType DEF SwapTimeout
<1>3. CASE LeaseDead
  BY <1>3 DEF LeaseDead
<1>4. CASE FinalizeSwitch
  BY <1>4, ReplaceType, ReplaceFailsType DEF FinalizeSwitch
<1>5. CASE AdminForceRollback
  BY <1>5, ReplaceType, ReplaceFailsType DEF AdminForceRollback
<1> QED
  BY <1>1, <1>2, <1>3, <1>4, <1>5 DEF BootStep

\* A process, or the connection it opens, keeps the types.
LEMMA ProcStepType ==
  ASSUME TypeOK, NEW p \in Procs, Connect(p) \/ Receive(p) \/ Abandoned(p) \/ Crash(p)
  PROVE  /\ proc' \in [Procs -> ProcStates] /\ peer' \in Procs \cup {NoProc}
         /\ helloQ' \in Seq(Procs) /\ outbox' \in [Procs -> Seq(Messages)]
         /\ UNCHANGED <<child, waiting, swapChild, lease, context>>
<1> USE DEF TypeOK, ProcStates
<1>1. CASE Connect(p)
  <2>1. Append(helloQ, p) \in Seq(Procs)
    BY AppendProperties
  <2> QED
    BY <1>1, <2>1 DEF Connect
<1>2. CASE Receive(p)
  <2>1. Tail(outbox[p]) \in Seq(Messages)
    BY <1>2, HeadTailProperties DEF Receive
  <2>2. outbox' \in [Procs -> Seq(Messages)]
    BY <1>2, <2>1 DEF Receive
  <2>3. proc' \in [Procs -> ProcStates]
    BY <1>2 DEF Receive
  <2> QED
    BY <1>2, <2>2, <2>3 DEF Receive
<1>3. CASE Abandoned(p)
  BY <1>3 DEF Abandoned
<1>4. CASE Crash(p)
  BY <1>4 DEF Crash
<1> QED
  BY <1>1, <1>2, <1>3, <1>4

\* A shutdown appends to the connection of the peripheral.
LEMMA ShutdownType ==
  ASSUME TypeOK, InitiateShutdown
  PROVE  proc' \in [Procs -> ProcStates] /\ outbox' \in [Procs -> Seq(Messages)]
<1> USE DEF TypeOK
<1>1. proc' \in [Procs -> ProcStates]
  BY KilledType DEF InitiateShutdown
<1>2. CASE peer # NoProc
  <2>1. Append(outbox[peer], "shutdown") \in Seq(Messages)
    BY <1>2, AppendProperties DEF Messages
  <2> QED
    BY <1>1, <1>2, <2>1 DEF InitiateShutdown
<1>3. CASE peer = NoProc
  BY <1>1, <1>3 DEF InitiateShutdown
<1> QED
  BY <1>2, <1>3

\* Every step keeps the types.
LEMMA TypeNext == TypeOK /\ [Next]_vars => TypeOK'
<1> SUFFICES ASSUME TypeOK, [Next]_vars PROVE TypeOK'
  OBVIOUS
<1>1. CASE UNCHANGED vars
  BY <1>1 DEF vars, state, TypeOK
<1>2. CASE BootStep /\ UNCHANGED disturbances
  BY <1>2, BootStepType, Zenon DEF TypeOK, BootStep
<1>3. CASE Shutdown /\ UNCHANGED disturbances
  BY <1>3, ShutdownType DEF TypeOK, Shutdown, InitiateShutdown
<1>4. CASE JudgeStep /\ UNCHANGED disturbances
  <2>1. CASE KillCandidate
    BY <1>4, <2>1, KilledType DEF TypeOK, KillCandidate, JudgeStep
  <2>2. ASSUME NEW p \in Procs, running /\ RunCandidate(p) PROVE TypeOK'
    BY <1>4, <2>2 DEF TypeOK, RunCandidate, JudgeStep, ProcStates
  <2> QED
    BY <1>4, <2>1, <2>2 DEF JudgeStep
<1>5. CASE Disconnect /\ UNCHANGED <<running, candidate, disturbances>>
  BY <1>5 DEF TypeOK, Disconnect
<1>6. ASSUME NEW p \in Procs, ProcStep(p) \/ (Crash(p) /\ UNCHANGED <<running, candidate>>),
             UNCHANGED disturbances
      PROVE  TypeOK'
  <2>1. Connect(p) \/ Receive(p) \/ Abandoned(p) \/ Crash(p)
    BY <1>6 DEF ProcStep
  <2>2. UNCHANGED <<running, candidate, disturbances>>
    BY <1>6 DEF ProcStep
  <2> QED
    BY <2>1, <2>2, ProcStepType DEF TypeOK
<1> QED
  BY <1>1, <1>2, <1>3, <1>4, <1>5, <1>6 DEF Next

-----------------------------------------------------------------------------
(* Orderly steps.                                                          *)

Parts == Handles /\ Awaited /\ Connected /\ Untold

\* NoProc is no process: killing it kills nothing.
LEMMA NoProcIsNone == NoProc \notin Procs
  BY HotSwapAssumption DEF Procs

\* With one handle in use there is one process.
LEMMA OneHandle ==
  ASSUME Handles
  PROVE  OneAlive
<1>1. NoProc \notin Live
  BY NoProcIsNone DEF Live
<1>2. CASE waiting
  BY <1>1, <1>2 DEF Handles, OneAlive
<1>3. CASE ~waiting
  BY <1>1, <1>3 DEF Handles, OneAlive
<1> QED
  BY <1>2, <1>3

\* A process that ends keeps everything when it is the only change.
LEMMA EndKeeps ==
  ASSUME TypeOK, Parts, NEW p \in Procs,
         proc' = [proc EXCEPT ![p] = "exited"],
         UNCHANGED <<child, waiting, swapChild, peer, helloQ, outbox, context,
                     running, candidate>>
  PROVE  Parts'
<1> USE DEF TypeOK, Parts, ProcStates
<1>1. Handles'
  BY DEF Handles, Live
<1>2. Awaited'
  BY DEF Awaited
<1>3. Connected'
  BY DEF Connected
<1>4. Untold'
  BY DEF Untold, Live
<1> QED
  BY <1>1, <1>2, <1>3, <1>4

LEMMA ConnectKeeps ==
  ASSUME TypeOK, Parts, NEW p \in Procs, Connect(p), UNCHANGED <<running, candidate>>
  PROVE  Parts'
<1> USE DEF TypeOK, Parts, ProcStates
<1>1. /\ proc[p] = "starting"
      /\ proc' = [proc EXCEPT ![p] = "connecting"]
      /\ peer' = p
      /\ helloQ' = Append(helloQ, p)
      /\ UNCHANGED <<child, waiting, swapChild, outbox, lease, context, running, candidate>>
  BY DEF Connect
<1>2. \A q \in Live : q = p
  <2>1. p \in Live
    BY <1>1 DEF Live
  <2> QED
    BY <2>1, OneHandle DEF OneAlive
<1>3. Handles'
  BY <1>1 DEF Handles, Live
<1>4. Awaited'
  <2> SUFFICES ASSUME waiting
               PROVE  /\ p = swapChild
                      /\ helloQ' = <<p>>
    BY <1>1 DEF Awaited
  <2>1. p = swapChild
    BY <1>1, NoProcIsNone DEF Handles, Live
  <2>2. helloQ = <<>>
    BY <1>1, <2>1 DEF Awaited
  <2>3. Append(<<>>, p) = <<p>>
    OBVIOUS
  <2> QED
    BY <1>1, <2>1, <2>2, <2>3
<1>5. helloQ' # <<>>
  BY <1>1, AppendProperties
<1>6. Connected'
  BY <1>1, <1>2, <1>5 DEF Connected, Live
<1>7. Untold'
  BY <1>1 DEF Untold, Live
<1> QED
  BY <1>3, <1>4, <1>6, <1>7

\* A process that was not told of a rollback has no Welcome to read.
LEMMA ReceiveKeeps ==
  ASSUME TypeOK, Parts, NEW p \in Procs, Receive(p), UNCHANGED <<running, candidate>>
  PROVE  Parts'
<1> USE DEF TypeOK, Parts, ProcStates
<1>1. /\ proc[p] \in {"connecting", "serving"} /\ outbox[p] # <<>>
      /\ outbox' = [outbox EXCEPT ![p] = Tail(@)]
      /\ UNCHANGED <<child, waiting, swapChild, peer, helloQ, lease, context,
                     running, candidate>>
  BY DEF Receive
<1>2. PICK after \in {"serving", "exited", "deaf"} :
         /\ proc' = [proc EXCEPT ![p] = after]
         /\ proc[p] = "connecting" /\ after # "exited" => Head(outbox[p]) = "welcome"
  <2>1. CASE proc[p] = "connecting"
    BY <1>1, <2>1 DEF Receive
  <2>2. CASE proc[p] = "serving"
    <3>1. [proc EXCEPT ![p] = "serving"] = proc
      BY <2>2
    <3> QED
      BY <1>1, <2>2, <3>1 DEF Receive
  <2> QED
    BY <1>1, <2>1, <2>2
<1>3. Handles'
  BY <1>1, <1>2 DEF Handles, Live
<1>4. Awaited'
  BY <1>1, <1>2 DEF Awaited
<1>5. Connected'
  BY <1>1, <1>2 DEF Connected
<1>6. Untold'
  <2> SUFFICES ASSUME context, NEW q \in Live'
               PROVE  /\ proc'[q] \in {"starting", "connecting"}
                      /\ outbox'[q] \in {<<>>, <<"shutdown">>}
                      /\ running => outbox'[q] = <<>>
    BY <1>1 DEF Untold
  <2>1. CASE q = p
    <3>1. p \in Live
      BY <1>1 DEF Live
    <3>2. outbox[p] = <<"shutdown">> /\ proc[p] = "connecting"
      BY <1>1, <3>1 DEF Untold
    <3>3. Head(<<"shutdown">>) = "shutdown"
      OBVIOUS
    <3>4. proc'[p] = "exited"
      BY <1>2, <3>2, <3>3
    <3> QED
      BY <2>1, <3>4 DEF Live
  <2>2. CASE q # p
    <3>1. q \in Live /\ proc'[q] = proc[q] /\ outbox'[q] = outbox[q]
      BY <1>1, <1>2, <2>2 DEF Live
    <3> QED
      BY <3>1 DEF Untold
  <2> QED
    BY <2>1, <2>2
<1> QED
  BY <1>3, <1>4, <1>5, <1>6

LEMMA DisconnectKeeps ==
  ASSUME TypeOK, Parts, Disconnect, UNCHANGED <<running, candidate>>
  PROVE  Parts'
<1> USE NoProcIsNone DEF TypeOK, Parts, ProcStates, Disconnect
<1>1. Handles'
  BY DEF Handles, Live
<1>2. Awaited'
  BY DEF Awaited
<1>3. Connected'
  BY DEF Connected
<1>4. Untold'
  BY DEF Untold, Live
<1> QED
  BY <1>1, <1>2, <1>3, <1>4

\* What a replacement leaves when only the handle it kills was alive: at most
\* the new process, which has not connected.
LEMMA ReplaceLeaves ==
  ASSUME TypeOK, Parts, NEW c, Live \subseteq {c}, NEW p \in Procs, Replace(c, p)
  PROVE  /\ Live' = {p} /\ proc'[p] = "starting" /\ peer' = NoProc
         /\ outbox[p] = <<>>
         /\ \A q \in Procs \ {p} : proc'[q] \in {proc[q], "exited"}
<1> USE DEF TypeOK, ProcStates
<1>1. /\ proc[p] = "unborn" /\ peer' = NoProc
      /\ proc' = [[q \in Procs |-> IF q = c THEN "exited" ELSE proc[q]] EXCEPT ![p] = "starting"]
  BY DEF Replace, Killed, Unborn
<1>2. /\ proc'[p] = "starting"
      /\ \A q \in Procs \ {p} : proc'[q] = IF q = c THEN "exited" ELSE proc[q]
  BY <1>1
<1> QED
  BY <1>1, <1>2 DEF Live, Parts, Connected

LEMMA ReplaceFailsLeaves ==
  ASSUME TypeOK, Parts, NEW c, Live \subseteq {c}, ReplaceFails(c)
  PROVE  /\ Live' = {} /\ peer' = NoProc
         /\ \A q \in Procs : proc'[q] \in {proc[q], "exited"}
  BY DEF TypeOK, ProcStates, ReplaceFails, Killed, Live

\* After a replacement the connections are as for a process just spawned.
LEMMA ReplacedConnected ==
  ASSUME TypeOK, Parts, peer' = NoProc, UNCHANGED <<outbox, helloQ, running>>,
         \/ Live' = {}
         \/ \E p \in Procs : Live' = {p} /\ proc'[p] = "starting" /\ outbox[p] = <<>>,
         \A q \in Procs : proc'[q] \in {proc[q], "exited", "starting"}
  PROVE  Connected' /\ Untold'
<1> USE NoProcIsNone DEF TypeOK, ProcStates, Parts
<1>1. \A q \in Live' : proc'[q] = "starting" /\ outbox[q] = <<>>
  OBVIOUS
<1>2. \A q \in Procs : proc'[q] = "unborn" => proc[q] = "unborn"
  OBVIOUS
<1>3. Connected'
  BY <1>1, <1>2 DEF Connected, Live
<1>4. Untold'
  BY <1>1 DEF Untold
<1> QED
  BY <1>3, <1>4

LEMMA FinalizeKeeps ==
  ASSUME TypeOK, Orderly, Parts, FinalizeSwitch, UNCHANGED <<running, candidate>>
  PROVE  Parts'
<1> USE NoProcIsNone DEF TypeOK
<1>1. ~waiting /\ helloQ = <<>> /\ swapChild = NoProc /\ Live \subseteq {child}
  BY DEF FinalizeSwitch, MayFinalize, Orderly, Parts, Handles, Live
<1>2. child' = NoProc /\ UNCHANGED <<helloQ, outbox>>
  BY DEF FinalizeSwitch
<1>3. ASSUME NEW p \in Procs, Replace(child, p), waiting' = TRUE, swapChild' = p
      PROVE  Parts'
  <2>1. /\ Live' = {p} /\ proc'[p] = "starting" /\ peer' = NoProc /\ outbox[p] = <<>>
        /\ \A q \in Procs \ {p} : proc'[q] \in {proc[q], "exited"}
    BY <1>1, <1>3, ReplaceLeaves
  <2>2. Connected' /\ Untold'
    BY <1>2, <2>1, ReplacedConnected
  <2>3. Handles' /\ Awaited'
    BY <1>1, <1>2, <1>3, <2>1 DEF Parts, Handles, Awaited
  <2> QED
    BY <2>2, <2>3 DEF Parts
<1>4. ASSUME ReplaceFails(child), UNCHANGED <<waiting, swapChild>>
      PROVE  Parts'
  <2>1. /\ Live' = {} /\ peer' = NoProc
        /\ \A q \in Procs : proc'[q] \in {proc[q], "exited"}
    BY <1>1, <1>4, ReplaceFailsLeaves
  <2>2. Connected' /\ Untold'
    BY <1>2, <2>1, ReplacedConnected
  <2>3. Handles' /\ Awaited'
    BY <1>1, <1>2, <1>4, <2>1 DEF Parts, Handles, Awaited
  <2> QED
    BY <2>2, <2>3 DEF Parts
<1> QED
  BY <1>3, <1>4 DEF FinalizeSwitch

\* A timeout, or a rollback by the operator, leaves the one process spawned.
LEMMA RollbackKeeps ==
  ASSUME TypeOK, Parts, NEW c, Live \subseteq {c}, ~waiting', swapChild' = NoProc,
         \/ \E p \in Procs : Replace(c, p) /\ child' = p
         \/ ReplaceFails(c) /\ child' = NoProc,
         UNCHANGED <<helloQ, outbox, running, candidate>>
  PROVE  Parts'
<1> USE NoProcIsNone DEF TypeOK
<1>1. ASSUME NEW p \in Procs, Replace(c, p), child' = p
      PROVE  Parts'
  <2>1. /\ Live' = {p} /\ proc'[p] = "starting" /\ peer' = NoProc /\ outbox[p] = <<>>
        /\ \A q \in Procs \ {p} : proc'[q] \in {proc[q], "exited"}
    BY <1>1, ReplaceLeaves
  <2>2. Connected' /\ Untold'
    BY <2>1, ReplacedConnected
  <2>3. Handles' /\ Awaited'
    BY <1>1, <2>1 DEF Parts, Handles, Awaited
  <2> QED
    BY <2>2, <2>3 DEF Parts
<1>2. ASSUME ReplaceFails(c), child' = NoProc
      PROVE  Parts'
  <2>1. /\ Live' = {} /\ peer' = NoProc
        /\ \A q \in Procs : proc'[q] \in {proc[q], "exited"}
    BY <1>2, ReplaceFailsLeaves
  <2>2. Connected' /\ Untold'
    BY <2>1, ReplacedConnected
  <2>3. Handles' /\ Awaited'
    BY <1>2, <2>1 DEF Parts, Handles, Awaited
  <2> QED
    BY <2>2, <2>3 DEF Parts
<1> QED
  BY <1>1, <1>2

LEMMA TimeoutKeeps ==
  ASSUME TypeOK, Parts, SwapTimeout, UNCHANGED <<running, candidate>>
  PROVE  Parts'
<1>1. Live \subseteq {swapChild}
  BY NoProcIsNone DEF SwapTimeout, Parts, Handles, Live
<1> QED
  BY <1>1, RollbackKeeps DEF SwapTimeout

LEMMA AdminKeeps ==
  ASSUME TypeOK, Orderly, Parts, AdminForceRollback, UNCHANGED <<running, candidate>>
  PROVE  Parts'
<1>1. ~waiting /\ swapChild = NoProc
  BY DEF AdminForceRollback, Orderly, Parts, Handles
<1>2. Live \subseteq {child}
  BY <1>1, NoProcIsNone DEF Parts, Handles, Live
<1> QED
  BY <1>1, <1>2, RollbackKeeps DEF AdminForceRollback

\* The lease cannot be found dead before the Hello of a process is answered.
LEMMA LeaseDeadKeeps ==
  ASSUME TypeOK, Orderly, Parts, running, LeaseDead, UNCHANGED <<running, candidate>>
  PROVE  Parts'
<1> USE NoProcIsNone DEF TypeOK, Parts
<1>1. /\ helloQ = <<>> /\ peer' = NoProc
      /\ \A p \in Procs : proc[p] # "serving" /\ proc[p] # "deaf"
      /\ peer # NoProc => outbox[peer] = <<>>
      /\ UNCHANGED <<proc, child, waiting, swapChild, helloQ, outbox, context>>
  BY DEF LeaseDead, Orderly
<1>2. \A p \in Procs : proc[p] # "connecting"
  BY <1>1 DEF Connected
<1>3. Handles' /\ Awaited' /\ Untold'
  BY <1>1 DEF Handles, Awaited, Untold, Live
<1>4. Connected'
  BY <1>1, <1>2 DEF Connected
<1> QED
  BY <1>3, <1>4

\* Only the process Boot waits for completes a hand-over, and a Hello that
\* finds no connection is that of a process that has ended.
LEMMA HelloKeeps ==
  ASSUME TypeOK, Parts, HandleHello, UNCHANGED <<running, candidate>>
  PROVE  Parts'
<1> USE NoProcIsNone DEF TypeOK, Parts, ProcStates
<1>1. helloQ # <<>> /\ helloQ' = Tail(helloQ) /\ peer' = peer
  BY DEF HandleHello
<1>2. waiting => helloQ' = <<>>
  <2> SUFFICES ASSUME waiting PROVE helloQ' = <<>>
    OBVIOUS
  <2>1. helloQ = <<swapChild>>
    BY <1>1 DEF Awaited
  <2>2. Tail(<<swapChild>>) = <<>>
    OBVIOUS
  <2> QED
    BY <1>1, <2>1, <2>2
<1>3. CASE /\ peer = NoProc
           /\ swapChild' = NoProc
           /\ UNCHANGED <<proc, child, waiting, outbox, context>>
  <2>1. \A p \in Live : proc[p] = "starting"
    BY <1>3 DEF Connected, Live
  <2>2. waiting => Live = {}
    BY <1>1, <2>1 DEF Handles, Awaited, Live
  <2>3. Handles'
    BY <1>3, <2>2 DEF Handles, Live
  <2>4. Awaited'
    BY <1>1, <1>2, <1>3 DEF Awaited
  <2>5. Connected'
    BY <1>1, <1>3 DEF Connected
  <2>6. Untold'
    BY <1>3 DEF Untold, Live
  <2> QED
    BY <2>3, <2>4, <2>5, <2>6
<1>4. CASE /\ peer # NoProc
           /\ outbox' = [outbox EXCEPT ![peer] = @ \o HelloAnswer]
           /\ context' = FALSE
           /\ waiting' = FALSE
           /\ swapChild' = NoProc
           /\ proc' = IF waiting THEN Killed(proc, child) ELSE proc
           /\ child' = IF waiting THEN swapChild ELSE child
  <2>1. proc' = proc
    BY <1>4 DEF Handles, Killed
  <2>2. Handles'
    BY <1>4, <2>1 DEF Handles, Live
  <2>3. Awaited' /\ Untold'
    BY <1>4 DEF Awaited, Untold
  <2>4. outbox[peer] \o HelloAnswer # <<>>
    BY <1>4, HelloAnswerType, ConcatProperties, LenProperties, ConcatEmptySeq,
       ConcatEqualIffEmpty
  <2>5. /\ outbox'[peer] # <<>>
        /\ \A p \in Procs \ {peer} : outbox'[p] = outbox[p]
    BY <1>4, <2>4
  <2>6. Connected'
    BY <1>1, <1>4, <2>1, <2>5 DEF Connected
  <2> QED
    BY <2>2, <2>3, <2>6
<1> QED
  BY <1>3, <1>4 DEF HandleHello

LEMMA ShutdownKeeps ==
  ASSUME TypeOK, Parts, running, ~running', InitiateShutdown, UNCHANGED candidate
  PROVE  Parts'
<1> USE NoProcIsNone DEF TypeOK, Parts, ProcStates
<1>1. /\ \A p \in Procs : proc'[p] = IF p = child THEN "exited" ELSE proc[p]
      /\ child' = NoProc
      /\ UNCHANGED <<waiting, swapChild, peer, helloQ, context>>
  BY DEF InitiateShutdown, Killed
<1>2. \A p \in Procs :
         outbox'[p] = IF p = peer THEN Append(outbox[p], "shutdown") ELSE outbox[p]
  BY DEF InitiateShutdown
<1>3. Handles'
  BY <1>1 DEF Handles, Live
<1>4. Awaited'
  BY <1>1 DEF Awaited
<1>5. Connected'
  BY <1>1, <1>2 DEF Connected
<1>6. Untold'
  <2> SUFFICES ASSUME context, NEW q \in Live'
               PROVE  /\ proc'[q] \in {"starting", "connecting"}
                      /\ outbox'[q] \in {<<>>, <<"shutdown">>}
    BY <1>1 DEF Untold
  <2>1. q \in Live /\ proc'[q] = proc[q]
    BY <1>1 DEF Live
  <2>2. proc[q] \in {"starting", "connecting"} /\ outbox[q] = <<>>
    BY <2>1 DEF Untold
  <2>3. Append(<<>>, "shutdown") = <<"shutdown">>
    OBVIOUS
  <2>4. q \in Procs
    BY <2>1 DEF Live
  <2> QED
    BY <1>2, <2>1, <2>2, <2>3, <2>4
<1> QED
  BY <1>3, <1>4, <1>5, <1>6

\* At the start there is one process, which has not connected.
LEMMA InitInv == Init => Inv
<1> SUFFICES ASSUME Init PROVE Inv
  OBVIOUS
<1> USE DEF Init
<1>1. <<>> \in Seq(Procs) /\ <<>> \in Seq(Messages)
  OBVIOUS
<1>2. proc \in [Procs -> ProcStates] /\ 1 \in Procs
  BY HotSwapAssumption DEF ProcStates, Procs
<1>3. TypeOK
  <2>1. outbox = [p \in Procs |-> <<>>] /\ helloQ = <<>>
    OBVIOUS
  <2>2. outbox \in [Procs -> Seq(Messages)] /\ helloQ \in Seq(Procs)
    BY <1>1, <2>1, Zenon
  <2> QED
    BY <1>2, <2>2 DEF TypeOK
<1>4. Handles /\ Awaited /\ Connected /\ Untold
  BY NoProcIsNone DEF Orderly, Handles, Awaited, Connected, Untold, Live
<1> QED
  BY <1>3, <1>4 DEF Inv, OrderlyInv

\* Every orderly step keeps the invariant.
LEMMA PartsNext ==
  ASSUME TypeOK, Orderly, Parts, [Next]_vars
  PROVE  Parts'
<1>1. CASE UNCHANGED vars
  BY <1>1 DEF vars, state, Parts, Handles, Awaited, Connected, Untold, Live
<1>2. CASE BootStep
  <2>1. running /\ UNCHANGED <<running, candidate>>
    BY <1>2 DEF BootStep
  <2>2. HandleHello \/ SwapTimeout \/ LeaseDead \/ FinalizeSwitch \/ AdminForceRollback
    BY <1>2 DEF BootStep
  <2> QED
    BY <2>1, <2>2, HelloKeeps, TimeoutKeeps, LeaseDeadKeeps, FinalizeKeeps, AdminKeeps
<1>3. CASE Shutdown
  BY <1>3, ShutdownKeeps DEF Shutdown
<1>4. ~JudgeStep
  BY DEF JudgeStep, KillCandidate, RunCandidate, Orderly, Parts, Handles
<1>5. CASE Disconnect /\ UNCHANGED <<running, candidate>>
  BY <1>5, DisconnectKeeps
<1>6. ASSUME NEW p \in Procs, Connect(p) \/ Receive(p), UNCHANGED <<running, candidate>>
      PROVE  Parts'
  BY <1>6, ConnectKeeps, ReceiveKeeps
<1>7. ASSUME NEW p \in Procs, Abandoned(p) \/ Crash(p), UNCHANGED <<running, candidate>>
      PROVE  Parts'
  BY <1>7, EndKeeps DEF Abandoned, Crash
<1> QED
  BY <1>1, <1>2, <1>3, <1>4, <1>5, <1>6, <1>7 DEF Next, ProcStep

\* The invariant holds; a behaviour is orderly throughout or not at all.
LEMMA InvAlways == Spec => []Inv
<1>1. Inv /\ [Next]_vars => Inv'
  <2> SUFFICES ASSUME Inv, [Next]_vars PROVE Inv'
    OBVIOUS
  <2>1. TypeOK'
    BY TypeNext DEF Inv
  <2>2. Orderly' <=> Orderly
    BY DEF Next, vars, Orderly
  <2>3. Orderly => Parts'
    BY PartsNext DEF Inv, OrderlyInv, Parts
  <2> QED
    BY <2>1, <2>2, <2>3 DEF Inv, OrderlyInv, Parts
<1> QED
  BY <1>1, InitInv, PTL DEF Spec

-----------------------------------------------------------------------------
(* Theorems.                                                               *)

\* The state of a hand-over keeps its types, whatever disturbs it and
\* however many processes are spawned.
THEOREM TypeCorrect == Spec => []TypeOK
<1>1. Inv => TypeOK
  BY DEF Inv
<1> QED
  BY <1>1, InvAlways, PTL

\* No split brain: in orderly behaviours at most one peripheral process is
\* alive (microkernel.rs:1600, kill before spawn).
THEOREM NoSplitBrain == Spec => []OneAliveWhenOrderly
<1>1. Inv => OneAliveWhenOrderly
  BY OneHandle DEF Inv, OrderlyInv, OneAliveWhenOrderly
<1> QED
  BY <1>1, InvAlways, PTL

\* In orderly behaviours Boot has a handle on every process that is alive.
THEOREM HandlesAll == Spec => []NoOrphan
<1>1. Inv => NoOrphan
  BY DEF Inv, OrderlyInv, Handles, NoOrphan
<1> QED
  BY <1>1, InvAlways, PTL

\* Only the process waited for completes an orderly hand-over: neither a
\* Hello from before it nor another connection does (microkernel.rs:441).
THEOREM AwaitedCompletes == Spec => []AwaitedHandshake
<1>1. Inv => AwaitedHandshake
  <2> SUFFICES ASSUME Inv, Orderly, waiting, helloQ # <<>>
               PROVE  Head(helloQ) = swapChild /\ peer \in {swapChild, NoProc}
    BY DEF AwaitedHandshake
  <2>1. helloQ = <<swapChild>> /\ peer \in {swapChild, NoProc}
    BY DEF Inv, OrderlyInv, Awaited
  <2> QED
    BY <2>1
<1> QED
  BY <1>1, InvAlways, PTL

\* A peripheral that serves after an orderly rollback has been told of it
\* (microkernel.rs:509).
THEOREM RollbackTold == Spec => []ServingKnowsRollback
<1>1. Inv => ServingKnowsRollback
  BY DEF Inv, OrderlyInv, Untold, ServingKnowsRollback
<1> QED
  BY <1>1, InvAlways, PTL

=============================================================================
