------------------------------ MODULE AgentProofs ------------------------------
(***************************************************************************)
(* As long as the agent has left no answer waiting, and no older process   *)
(* is connected, at most one answer is under way, and it is to the         *)
(* submission the agent waits for; so the answer it takes is its own, and  *)
(* Boot reads the file that was submitted, if no older process edits it.   *)
(* This holds for any file, edits, channel size and number of submissions. *)
(***************************************************************************)
EXTENDS Agent, SourceFileProofs

\* No answer to the last submission is in queue q.
Clean(q) == \A i \in 1..Len(q) : q[i] # Outcome(asked)
Once(q) ==
    \A i, j \in 1..Len(q) : q[i] = Outcome(asked) /\ q[j] = Outcome(asked) => i = j

Kinds ==
    /\ asked \in Nat
    /\ inbox \in Seq({Outcome(asked), ShutdownMsg, RollbackMsg})
    /\ results \in Seq({Outcome(asked), ShutdownMsg})

\* The last submission, or its answer, is in one place at most.
OnePlace ==
    /\ mail # <<>> => /\ mail = <<mail[1]>> /\ mail[1].id = asked
                      /\ others = "none" => mail[1].source = file
                      /\ building = {} /\ Clean(inbox) /\ Clean(results)
    /\ building \subseteq {asked}
    /\ building # {} => Clean(inbox) /\ Clean(results)
    /\ Once(inbox) /\ Once(results)
    /\ Clean(inbox) \/ Clean(results)

\* Nothing is under way for an agent that does not wait.
Quiet == mail = <<>> /\ building = {} /\ Clean(inbox) /\ Clean(results)

Parts ==
    /\ Kinds
    /\ OnePlace
    /\ phase # "waiting" /\ serving # "down" => Quiet
    /\ serving = "down" => phase = "idle"
    /\ answer.from \in {answer.to, None}
    /\ others = "none" => ~misread

Inv ==
    /\ gaveUp \in BOOLEAN /\ asked \in Nat
    /\ ~gaveUp /\ others # "connected" => Parts

-----------------------------------------------------------------------------

\* The three kinds of messages are told apart.
LEMMA MessagesDiffer ==
  ASSUME NEW id
  PROVE  Outcome(id) # ShutdownMsg /\ Outcome(id) # RollbackMsg
<1>1. Outcome(id).kind = "result" /\ ShutdownMsg.kind = "shutdown"
      /\ RollbackMsg.kind = "rollback"
  BY DEF Outcome, ShutdownMsg, RollbackMsg
<1> QED
  BY <1>1

\* A queue without the answer stays without it when something else is added,
\* and has it once when the answer is.
LEMMA AppendedQueue ==
  ASSUME NEW S, NEW q \in Seq(S), NEW x \in S, Clean(q), UNCHANGED asked
  PROVE  /\ Append(q, x) \in Seq(S)
         /\ x # Outcome(asked) => \A i \in 1..Len(Append(q, x)) : Append(q, x)[i] # Outcome(asked)
         /\ \A i, j \in 1..Len(Append(q, x)) :
              Append(q, x)[i] = Outcome(asked) /\ Append(q, x)[j] = Outcome(asked) => i = j
  BY DEF Clean

\* An answer that is taken from a queue was the only one in it.
LEMMA TakenFromQueue ==
  ASSUME NEW S, NEW q \in Seq(S), q # <<>>, Once(q)
  PROVE  /\ Head(q) \in S /\ Tail(q) \in Seq(S)
         /\ Once(Tail(q)) /\ (Clean(q) => Clean(Tail(q)) /\ Head(q) # Outcome(asked))
         /\ Head(q) = Outcome(asked) => Clean(Tail(q))
<1>1. /\ Head(q) = q[1] /\ Len(q) \in Nat \ {0} /\ Len(Tail(q)) = Len(q) - 1
      /\ Head(q) \in S /\ Tail(q) \in Seq(S)
      /\ \A i \in 1..Len(Tail(q)) : Tail(q)[i] = q[i + 1]
  BY HeadTailProperties, LenProperties
<1> QED
  BY <1>1 DEF Clean, Once

-----------------------------------------------------------------------------
(* Steps.                                                                  *)

\* Steps of the conversation that leave Boot and the queues alone.
LEMMA TalkKeeps ==
  ASSUME Parts, UNCHANGED <<inbox, results, asked, mail, building, misread, others, answer>>,
         file' = file \/ Quiet,
         phase' # "waiting" /\ serving' # "down" => Quiet,
         serving' = "down" => phase' = "idle"
  PROVE  Parts'
  BY DEF Parts, Kinds, OnePlace, Quiet, Clean, Once

\* A submission starts from nothing under way.
LEMMA SubmitKeeps ==
  ASSUME Parts, SubmitUpdate
  PROVE  Parts'
<1>1. /\ phase = "calling" /\ asked' = asked + 1
      /\ mail' = Append(mail, [id |-> asked', source |-> file])
      /\ phase' = "waiting"
      /\ UNCHANGED <<file, results, serving, inbox, building, misread, others, answer>>
  BY DEF SubmitUpdate
<1>2. Quiet /\ serving' # "down"
  BY <1>1 DEF Parts
<1>3. ASSUME NEW q \in Seq({Outcome(asked), ShutdownMsg, RollbackMsg}), Clean(q)
      PROVE  /\ q \in Seq({ShutdownMsg, RollbackMsg})
             /\ \A i \in 1..Len(q) : q[i] # Outcome(asked')
  <2>1. \A i \in 1..Len(q) : q[i] \in {ShutdownMsg, RollbackMsg}
    BY <1>3 DEF Clean
  <2>2. \A i \in 1..Len(q) : q[i] # Outcome(asked')
    BY <2>1, MessagesDiffer
  <2> QED
    BY <1>3, <2>1, <2>2, IsASeq, LenProperties
<1>4. results \in Seq({Outcome(asked), ShutdownMsg, RollbackMsg})
  BY SeqMonotonic DEF Parts, Kinds
<1>5. /\ inbox' \in Seq({Outcome(asked'), ShutdownMsg, RollbackMsg})
      /\ \A i \in 1..Len(inbox') : inbox'[i] # Outcome(asked')
  <2>1. inbox \in Seq({ShutdownMsg, RollbackMsg})
        /\ \A i \in 1..Len(inbox) : inbox[i] # Outcome(asked')
    BY <1>2, <1>3 DEF Parts, Kinds, Quiet
  <2> QED
    BY <1>1, <2>1, SeqMonotonic
<1>6. /\ results' \in Seq({Outcome(asked'), ShutdownMsg})
      /\ \A i \in 1..Len(results') : results'[i] # Outcome(asked')
  <2>1. \A i \in 1..Len(results) : results[i] = ShutdownMsg
    BY <1>2, ElementOfSeq DEF Parts, Kinds, Quiet, Clean
  <2>2. results \in Seq({Outcome(asked'), ShutdownMsg})
    BY <2>1, IsASeq, LenProperties DEF Parts, Kinds
  <2>3. \A i \in 1..Len(results) : results[i] # Outcome(asked')
    BY <2>1, MessagesDiffer
  <2> QED
    BY <1>1, <2>2, <2>3
<1>7. mail' = <<[id |-> asked', source |-> file']>>
  <2>1. mail = <<>>
    BY <1>2 DEF Quiet
  <2>2. \A x : Append(<<>>, x) = <<x>>
    OBVIOUS
  <2> QED
    BY <1>1, <2>1, <2>2
<1>8. Kinds'
  BY <1>1, <1>5, <1>6 DEF Parts, Kinds
<1>9. OnePlace'
  <2>1. mail' = <<mail'[1]>> /\ mail'[1].id = asked' /\ mail'[1].source = file'
    BY <1>7
  <2> QED
    BY <1>1, <1>2, <1>5, <1>6, <2>1 DEF OnePlace, Quiet, Clean, Once
<1> QED
  BY <1>1, <1>2, <1>8, <1>9 DEF Parts

\* The result that is taken is that of the submission, or a shutdown, which
\* leaves the answer waiting.
LEMMA TakingKeeps ==
  ASSUME Parts, TakeResult, ~gaveUp'
  PROVE  Parts'
<1>1. /\ phase = "waiting" /\ results # <<>> /\ Head(results) # ShutdownMsg
      /\ answer' = [to |-> asked, from |-> Head(results).id]
      /\ results' = Tail(results)
      /\ phase' \in {"asking", "calling"}
      /\ UNCHANGED <<file, serving, inbox, asked, mail, building, misread, others>>
  BY DEF TakeResult, CallDone, bootVars
<1>2. /\ Head(results) \in {Outcome(asked), ShutdownMsg}
      /\ Tail(results) \in Seq({Outcome(asked), ShutdownMsg})
      /\ Once(Tail(results)) /\ (Clean(results) => Head(results) # Outcome(asked))
      /\ Head(results) = Outcome(asked) => Clean(Tail(results))
  BY <1>1, TakenFromQueue DEF Parts, Kinds, OnePlace
<1>3. Head(results) = Outcome(asked) /\ ~Clean(results) /\ Clean(Tail(results))
  BY <1>1, <1>2
<1>4. mail = <<>> /\ building = {} /\ Clean(inbox)
  BY <1>3 DEF Parts, OnePlace
<1>5. answer'.from = answer'.to
  BY <1>1, <1>3 DEF Outcome
<1>6. Kinds'
  BY <1>1, <1>2 DEF Parts, Kinds
<1>7. Quiet' /\ OnePlace'
  BY <1>1, <1>2, <1>3, <1>4 DEF Quiet, Clean, OnePlace, Once, Parts
<1> QED
  BY <1>1, <1>5, <1>6, <1>7 DEF Parts

\* What is dispatched moves from one queue to the other.
LEMMA DispatchKeeps ==
  ASSUME Parts, Dispatch
  PROVE  Parts'
<1>1. /\ inbox # <<>> /\ serving = "up" /\ serving' # "down"
      /\ inbox' = Tail(inbox)
      /\ UNCHANGED <<file, phase, asked, mail, building, misread, others, answer>>
  BY DEF Dispatch, bootVars
<1>2. /\ Head(inbox) \in {Outcome(asked), ShutdownMsg, RollbackMsg}
      /\ Tail(inbox) \in Seq({Outcome(asked), ShutdownMsg, RollbackMsg})
      /\ Once(Tail(inbox))
      /\ Clean(inbox) => Clean(Tail(inbox)) /\ Head(inbox) # Outcome(asked)
      /\ Head(inbox) = Outcome(asked) => Clean(Tail(inbox))
  BY <1>1, TakenFromQueue DEF Parts, Kinds, OnePlace
<1>3. CASE results' = results
  BY <1>1, <1>2, <1>3 DEF Parts, Kinds, OnePlace, Quiet, Clean, Once
<1>4. CASE Head(inbox) # RollbackMsg /\ results' = Append(results, Head(inbox))
  <2> DEFINE x == Head(inbox)
  <2>1. x \in {Outcome(asked), ShutdownMsg}
    BY <1>2, <1>4
  <2>2. results' \in Seq({Outcome(asked), ShutdownMsg})
    BY <1>4, <2>1, AppendProperties DEF Parts, Kinds
  <2>3. CASE x = Outcome(asked)
    <3>1. ~Clean(inbox) /\ Clean(results) /\ Clean(Tail(inbox))
      BY <1>2, <2>3 DEF Parts, OnePlace
    <3>2. \A i, j \in 1..Len(results') :
              results'[i] = Outcome(asked) /\ results'[j] = Outcome(asked) => i = j
      BY <1>1, <1>4, <2>1, <3>1, AppendedQueue DEF Parts, Kinds
    <3>3. mail = <<>> /\ building = {} /\ ~Quiet
      BY <3>1 DEF Parts, OnePlace, Quiet
    <3> QED
      BY <1>1, <1>2, <2>2, <3>1, <3>2, <3>3 DEF Parts, Kinds, OnePlace, Clean, Once
  <2>4. CASE x # Outcome(asked)
    <3>1. Len(results') = Len(results) + 1
          /\ results'[Len(results) + 1] = x
          /\ \A i \in 1..Len(results) : results'[i] = results[i]
      BY <1>4, <2>1, AppendProperties DEF Parts, Kinds
    <3>2. Len(results) \in Nat
      BY LenProperties DEF Parts, Kinds
    <3>3. /\ \A i \in 1..Len(results') : results'[i] = Outcome(asked) => i \in 1..Len(results)
          /\ \A i \in 1..Len(results) : results'[i] = results[i]
      BY <2>4, <3>1, <3>2
    <3>4. Once(results) => Once(results)'
      BY <1>1, <3>3 DEF Once
    <3>5. Clean(results) => Clean(results)'
      BY <1>1, <3>3 DEF Clean
    <3>6. Clean(inbox) => Clean(inbox)'
      BY <1>1, <1>2 DEF Clean
    <3>7. Once(inbox)'
      BY <1>1, <1>2 DEF Once
    <3> QED
      BY <1>1, <1>2, <2>2, <3>4, <3>5, <3>6, <3>7 DEF Parts, Kinds, OnePlace, Quiet
  <2> QED
    BY <2>3, <2>4
<1> QED
  BY <1>3, <1>4 DEF Dispatch

\* An answer of Boot is the only one.
LEMMA AnswerKeeps ==
  ASSUME Parts, Clean(inbox), Clean(results), mail' = <<>>, building' = {},
         inbox' \in {inbox, Append(inbox, Outcome(asked))},
         phase = "waiting" \/ serving = "down",
         UNCHANGED <<file, phase, serving, results, asked, misread, others, answer>>
  PROVE  Parts'
<1>1. /\ inbox' \in Seq({Outcome(asked), ShutdownMsg, RollbackMsg})
      /\ \A i, j \in 1..Len(inbox') :
            inbox'[i] = Outcome(asked) /\ inbox'[j] = Outcome(asked) => i = j
  <2>1. CASE inbox' = inbox
    BY <2>1 DEF Parts, Kinds, OnePlace, Once
  <2>2. CASE inbox' = Append(inbox, Outcome(asked))
    BY <2>2, AppendedQueue DEF Parts, Kinds
  <2> QED
    BY <2>1, <2>2
<1>2. Kinds'
  BY <1>1 DEF Parts, Kinds
<1>3. Once(inbox)' /\ Once(results)' /\ Clean(results)'
  BY <1>1 DEF Parts, OnePlace, Once, Clean
<1> QED
  BY <1>2, <1>3 DEF Parts, OnePlace

\* Boot reads the file of the last submission, which has not been edited.
LEMMA BootHandlesKeeps ==
  ASSUME Parts, BootHandles
  PROVE  Parts'
<1>1. /\ mail = <<mail[1]>> /\ mail[1].id = asked
      /\ others = "none" => mail[1].source = file
      /\ building = {} /\ Clean(inbox) /\ Clean(results)
      /\ phase = "waiting" \/ serving = "down"
  BY DEF BootHandles, Parts, OnePlace, Quiet
<1>2. /\ Head(mail).id = asked /\ (others = "none" => Head(mail).source = file)
      /\ Tail(mail) = <<>>
  <2>1. \A x : Head(<<x>>) = x /\ Tail(<<x>>) = <<>>
    OBVIOUS
  <2> QED
    BY <1>1, <2>1
<1>3. mail' = <<>> /\ UNCHANGED <<file, phase, results, serving, asked, others, answer>>
  BY <1>2 DEF BootHandles, processVars
<1>4. CASE inbox' = Append(inbox, Outcome(asked)) /\ UNCHANGED <<building, misread>>
  BY <1>1, <1>3, <1>4, AnswerKeeps
<1>5. CASE /\ building' = building \cup {asked} /\ UNCHANGED inbox
           /\ misread' = (misread \/ Head(mail).source # file)
  BY <1>1, <1>2, <1>3, <1>5 DEF Parts, Kinds, OnePlace, Clean, Once
<1> QED
  BY <1>2, <1>4, <1>5 DEF BootHandles

\* The answer to the update under way is the only one, if it is not lost.
LEMMA BootAnswersKeeps ==
  ASSUME Parts, BootAnswers
  PROVE  Parts'
<1>1. PICK id \in building :
        /\ building' = building \ {id}
        /\ inbox' \in {inbox, Append(inbox, Outcome(id))}
        /\ UNCHANGED <<file, processVars, asked, mail, misread, others, gaveUp, answer>>
  BY DEF BootAnswers
<1>2. /\ id = asked /\ building' = {} /\ mail = <<>>
      /\ Clean(inbox) /\ Clean(results)
      /\ phase = "waiting" \/ serving = "down"
  BY <1>1 DEF Parts, OnePlace, Quiet
<1> QED
  BY <1>1, <1>2, AnswerKeeps DEF processVars

\* A shutdown behind the other messages is no answer.
LEMMA BootShutsDownKeeps ==
  ASSUME Parts, BootShutsDown
  PROVE  Parts'
<1>1. /\ inbox' = Append(inbox, ShutdownMsg)
      /\ UNCHANGED <<file, phase, results, serving, asked, mail, building, misread, others, answer>>
  BY DEF BootShutsDown, processVars, bootVars
<1>2. Len(inbox) \in Nat /\ inbox' \in Seq({Outcome(asked), ShutdownMsg, RollbackMsg})
  BY <1>1, AppendProperties, LenProperties DEF Parts, Kinds
<1>3. /\ Len(inbox') = Len(inbox) + 1 /\ inbox'[Len(inbox) + 1] = ShutdownMsg
      /\ \A i \in 1..Len(inbox) : inbox'[i] = inbox[i]
  BY <1>1, AppendProperties DEF Parts, Kinds
<1>4. \A i \in 1..Len(inbox') :
          inbox'[i] = Outcome(asked) => i \in 1..Len(inbox)
  BY <1>2, <1>3, MessagesDiffer
<1>5. (Clean(inbox) => Clean(inbox)') /\ (Once(inbox) => Once(inbox)')
  BY <1>1, <1>3, <1>4 DEF Clean, Once
<1>6. (Clean(results) <=> Clean(results)') /\ (Once(results) <=> Once(results)')
  BY <1>1 DEF Clean, Once
<1> QED
  BY <1>1, <1>2, <1>5, <1>6 DEF Parts, Kinds, OnePlace, Quiet

\* A process that starts with nothing under way but, perhaps, a rollback to
\* be told of.
LEMMA StartedKeeps ==
  ASSUME asked \in Nat, UNCHANGED asked, Started, inbox' \in FirstMessages,
         mail' = <<>>, building' = {}, others' = "none" => ~misread'
  PROVE  Parts'
<1>1. results' = <<>> /\ serving' = "up" /\ answer'.from = None
  BY DEF Started
<1>2. /\ inbox' \in Seq({Outcome(asked), ShutdownMsg, RollbackMsg})
      /\ \A i \in 1..Len(inbox') : inbox'[i] = RollbackMsg
  <2>1. <<>> \in Seq({Outcome(asked), ShutdownMsg, RollbackMsg}) /\ Len(<<>>) = 0
    OBVIOUS
  <2>2. /\ <<RollbackMsg>> \in Seq({Outcome(asked), ShutdownMsg, RollbackMsg})
        /\ Len(<<RollbackMsg>>) = 1 /\ <<RollbackMsg>>[1] = RollbackMsg
    OBVIOUS
  <2>3. CASE inbox' = <<>>
    BY <2>1, <2>3
  <2>4. CASE inbox' = <<RollbackMsg>>
    BY <2>2, <2>4
  <2> QED
    BY <2>3, <2>4 DEF FirstMessages
<1>3. Clean(inbox)' /\ Once(inbox)'
  BY <1>1, <1>2, MessagesDiffer DEF Clean, Once
<1>4. results' \in Seq({Outcome(asked), ShutdownMsg}) /\ Clean(results)' /\ Once(results)'
  BY <1>1 DEF Clean, Once
<1> QED
  BY <1>1, <1>2, <1>3, <1>4 DEF Parts, Kinds, OnePlace, Quiet

\* A process that takes over with nothing under way.
LEMMA NewProcessKeeps ==
  ASSUME Parts, NewProcess, ~gaveUp', others' # "connected"
  PROVE  Parts'
<1>1. /\ mail = <<>> /\ building = {} /\ Started /\ inbox' \in FirstMessages
      /\ UNCHANGED <<asked, mail, building, misread, others>>
  BY DEF NewProcess
<1>2. asked \in Nat /\ (others = "none" => ~misread)
  BY DEF Parts, Kinds
<1> QED
  BY <1>1, <1>2, StartedKeeps

\* A restart of Boot loses what was under way, even what an older process
\* with a connection had asked for.
LEMMA RestartKeeps ==
  ASSUME Inv, BootRestarts, ~gaveUp'
  PROVE  Parts'
<1>1. /\ mail' = <<>> /\ building' = {} /\ Started /\ inbox' = <<>>
      /\ UNCHANGED <<asked, misread, gaveUp>> /\ (others' = "none" => others = "none")
  BY DEF BootRestarts
<1>2. asked \in Nat
  BY DEF Inv
<1>3. others' = "none" => ~misread
  BY <1>1 DEF Inv, Parts
<1> QED
  BY <1>1, <1>2, <1>3, StartedKeeps DEF FirstMessages

\* An older process may edit the file while the submission of the agent waits.
LEMMA StrayEditsKeeps ==
  ASSUME Parts, StrayEdits
  PROVE  Parts'
  BY DEF StrayEdits, processVars, bootVars, Parts, Kinds, OnePlace, Quiet, Clean, Once

-----------------------------------------------------------------------------
(* The invariant.                                                          *)

\* Only a timeout, the news of a shutdown or a new process leaves an answer
\* waiting, and once one is left the invariant says nothing more.
LEMMA StepKeeps ==
  ASSUME Parts, [Next]_vars, ~BootRestarts, ~StraySubmits, ~gaveUp', others' # "connected"
  PROVE  Parts'
<1>1. CASE Input \/ Reset \/ Reply \/ OtherTool
  <2>1. /\ UNCHANGED <<inbox, results, asked, mail, building, misread, others, answer,
                       file, serving>>
        /\ phase # "waiting" /\ phase' # "waiting" /\ (phase' = phase \/ serving # "down")
    BY <1>1 DEF Input, Reset, Reply, OtherTool, CallDone, bootVars, Parts
  <2> QED
    BY <2>1, TalkKeeps DEF Parts
<1>2. CASE Edit
  <2>1. /\ UNCHANGED <<inbox, results, asked, mail, building, misread, others, answer, serving>>
        /\ phase = "calling" /\ phase' # "waiting"
    BY <1>2 DEF Edit, CallDone, bootVars
  <2>2. Quiet /\ serving # "down"
    BY <2>1 DEF Parts
  <2> QED
    BY <2>1, <2>2, TalkKeeps
<1>3. CASE Stopped
  <2>1. /\ UNCHANGED <<inbox, results, asked, mail, building, misread, others, answer, file>>
        /\ serving' = "down" /\ phase' = "idle"
    BY <1>3 DEF Stopped, bootVars
  <2> QED
    BY <2>1, TalkKeeps
<1>4. ~TimeOut
  BY DEF TimeOut
<1>5. CASE UNCHANGED vars
  BY <1>5 DEF vars, processVars, bootVars, Parts, Kinds, OnePlace, Quiet, Clean, Once
<1> QED
  BY <1>1, <1>2, <1>3, <1>4, <1>5, SubmitKeeps, TakingKeeps, DispatchKeeps, StrayEditsKeeps,
     BootHandlesKeeps, BootAnswersKeeps, BootShutsDownKeeps, NewProcessKeeps DEF Next

\* An answer that was left waiting stays in the account, and an older process
\* that is connected stays so until Boot restarts.
LEMMA AccountStays ==
  ASSUME gaveUp \in BOOLEAN, [Next]_vars
  PROVE  /\ gaveUp' \in BOOLEAN /\ (gaveUp => gaveUp')
         /\ others = "connected" => others' = "connected" \/ BootRestarts
<1>1. gaveUp' \in BOOLEAN /\ (gaveUp => gaveUp')
  BY Zenon DEF Next, Input, Reset, Reply, Edit, OtherTool, SubmitUpdate, TakeResult, TimeOut,
     Dispatch, Stopped, NewProcess, BootRestarts, StrayEdits, StraySubmits,
     BootHandles, BootAnswers, BootShutsDown, vars
<1>2. others' = others \/ others' = "connected" \/ BootRestarts
  <2>1. CASE UNCHANGED bootVars
    BY <2>1 DEF bootVars
  <2>2. CASE SubmitUpdate \/ NewProcess \/ StraySubmits \/ BootHandles \/ BootAnswers
    BY <2>2 DEF SubmitUpdate, NewProcess, StraySubmits, BootHandles, BootAnswers
  <2> QED
    BY <2>1, <2>2
       DEF Next, Input, Reset, Reply, Edit, OtherTool, TakeResult, TimeOut,
           Dispatch, Stopped, StrayEdits, BootShutsDown, vars
<1> QED
  BY <1>1, <1>2

\* Submissions are counted.
LEMMA AskedStays ==
  ASSUME asked \in Nat, [Next]_vars
  PROVE  asked' \in Nat
<1>1. asked' = asked \/ SubmitUpdate
  BY DEF Next, Input, Reset, Reply, Edit, OtherTool, TakeResult, TimeOut,
     Dispatch, Stopped, NewProcess, BootRestarts, StrayEdits, StraySubmits,
     BootHandles, BootAnswers, BootShutsDown, vars
<1> QED
  BY <1>1 DEF SubmitUpdate

\* A new agent has nothing under way.
LEMMA InitInv == Init => Inv
<1> SUFFICES ASSUME Init
             PROVE  Inv
  OBVIOUS
<1>1. /\ inbox \in FirstMessages /\ results = <<>> /\ asked = 0 /\ mail = <<>>
      /\ building = {} /\ gaveUp = FALSE /\ misread = FALSE
      /\ answer.from = None /\ serving = "up" /\ others = "none"
  BY DEF Init
<1>2. inbox \in Seq({Outcome(asked), ShutdownMsg, RollbackMsg})
      /\ \A i \in 1..Len(inbox) : inbox[i] = RollbackMsg
  <2>1. CASE inbox = <<>>
    BY <2>1
  <2>2. CASE inbox = <<RollbackMsg>>
    BY <2>2
  <2> QED
    BY <1>1, <2>1, <2>2 DEF FirstMessages
<1>3. Clean(inbox) /\ Once(inbox) /\ Clean(results) /\ Once(results)
  BY <1>1, <1>2, MessagesDiffer DEF Clean, Once
<1>4. Kinds
  <2>1. asked \in Nat /\ results \in Seq({Outcome(asked), ShutdownMsg})
    BY <1>1
  <2> QED
    BY <1>2, <2>1 DEF Kinds
<1>5. Quiet /\ OnePlace
  BY <1>1, <1>3 DEF Quiet, OnePlace
<1> QED
  BY <1>1, <1>4, <1>5 DEF Inv, Parts, Kinds

\* The account is kept by every step, from the start.
LEMMA InvAlways == Spec => []Inv
<1>1. Inv /\ [Next]_vars => Inv'
  <2> SUFFICES ASSUME Inv, [Next]_vars
               PROVE  Inv'
    OBVIOUS
  <2>1. /\ gaveUp' \in BOOLEAN /\ (gaveUp => gaveUp')
        /\ others = "connected" => others' = "connected" \/ BootRestarts
    BY AccountStays DEF Inv
  <2>2. asked' \in Nat
    BY AskedStays DEF Inv
  <2>3. ASSUME ~gaveUp', others' # "connected"
        PROVE  Parts'
    <3>1. CASE BootRestarts
      BY <2>3, <3>1, RestartKeeps
    <3>2. CASE ~BootRestarts
      <4>1. others # "connected" /\ Parts
        BY <2>1, <2>3, <3>2 DEF Inv
      <4>2. ~StraySubmits
        BY <4>1 DEF StraySubmits
      <4> QED
        BY <2>3, <3>2, <4>1, <4>2, StepKeeps
    <3> QED
      BY <3>1, <3>2
  <2> QED
    BY <2>1, <2>2, <2>3 DEF Inv
<1> QED
  BY <1>1, InitInv, PTL DEF Spec

-----------------------------------------------------------------------------
(* Types, and the edits of the file the agent has.                         *)

\* A call is at hand while the agent runs calls or waits in one, so that the
\* count of calls never falls below zero.
CallAtHand == phase \in {"calling", "waiting"} => calls # 0

Typed == TypeOK /\ CallAtHand

\* The editing tools leave text.
LEMMA EditedType ==
  ASSUME file \in Seq(Pieces)
  PROVE  Edited \subseteq Seq(Pieces)
<1>1. Contents \subseteq Seq(Pieces)
  BY AgentAssumption
<1>2. LineCount(file) \in Nat
  BY EndsFinite
<1>3. \A range \in Ranges : range[1] \in Nat /\ range[2] \in Nat
  <2>1. ASSUME NEW start \in Nat, NEW end \in Nat
        PROVE  /\ LinesOf(start, end)[1] \in Nat /\ LinesOf(start, end)[2] \in Nat
               /\ OffsetLimit(start, end)[1] \in Nat /\ OffsetLimit(start, end)[2] \in Nat
    BY DEF LinesOf, OffsetLimit
  <2>2. 0..(LineCount(file) + 2) \subseteq Nat
    BY <1>2
  <2> QED
    BY <2>1, <2>2 DEF Ranges
<1>4. ASSUME NEW new \in Contents, NEW range \in Ranges,
             ~CannotEdit(file, range[1], range[2])
      PROVE  EditLines(file, new, range[1], range[2]) \in Seq(Pieces)
  BY <1>1, <1>3, <1>4, EditLinesType
<1>5. ASSUME NEW new \in Contents, NEW old \in Contents \ {<<>>}, ~CannotReplace(file, old)
      PROVE  Replaced(file, old, new) \in Seq(Pieces)
  BY <1>1, <1>5, ReplacedType
<1> QED
  BY <1>1, <1>4, <1>5 DEF Edited

\* After a call there is one more at hand, or the model is asked.
LEMMA CallDoneTyped ==
  ASSUME Typed, phase \in {"calling", "waiting"}, CallDone
  PROVE  /\ calls' \in 0..MaxCalls /\ phase' \in {"asking", "calling"}
         /\ phase' = "calling" => calls' # 0
<1>1. calls \in 1..MaxCalls /\ MaxCalls \in Nat
  BY AgentAssumption DEF Typed, TypeOK, CallAtHand
<1> QED
  BY <1>1 DEF CallDone

\* What a queue holds besides the message that is taken from it.
LEMMA QueueTyped ==
  ASSUME NEW S, NEW q \in Seq(S)
  PROVE  /\ q # <<>> => /\ Head(q) \in S /\ Tail(q) \in Seq(S)
                        /\ Len(Tail(q)) = Len(q) - 1
         /\ \A x \in S : Append(q, x) \in Seq(S) /\ Len(Append(q, x)) = Len(q) + 1
  OBVIOUS

\* A message is added to a queue, or lost.
LEMMA AddedTyped ==
  ASSUME NEW S, NEW q \in Seq(S), NEW x \in S, NEW r, r \in {q, Append(q, x)}
  PROVE  r \in Seq(S)
  BY AppendProperties

\* The messages and what they are about.
LEMMA MessagesTyped ==
  /\ ShutdownMsg \in Messages /\ RollbackMsg \in Messages
  /\ ShutdownMsg # RollbackMsg
  /\ \A id \in Ids : Outcome(id) \in Messages
  /\ \A m \in Messages : m.id \in Ids \cup {None}
<1>1. ShutdownMsg.kind # RollbackMsg.kind
  BY DEF ShutdownMsg, RollbackMsg
<1> QED
  BY <1>1 DEF Messages, Outcome, ShutdownMsg, RollbackMsg

\* A rollback may be before a new process.
LEMMA FirstTyped == FirstMessages \subseteq Seq(Messages)
  BY MessagesTyped DEF FirstMessages

\* The agent starts with its types.
LEMMA InitTyped == Init => Typed
<1> SUFFICES ASSUME Init
             PROVE  Typed
  OBVIOUS
<1>1. /\ file \in Seq(Pieces) /\ Len(file) <= MaxLen
      /\ ResultSlots \in Nat /\ MaxCalls \in Nat /\ MaxSubmissions \in Nat
  BY AgentAssumption DEF Init
<1>2. inbox \in Seq(Messages)
  BY FirstTyped DEF Init
<1>3. /\ results \in Seq(Messages \ {RollbackMsg}) /\ Len(results) <= ResultSlots
      /\ mail \in Seq([id : Ids, source : Seq(Pieces)])
  BY <1>1 DEF Init
<1>4. answer \in [to : Submissions \cup {None}, from : Ids \cup {None}]
  BY DEF Init
<1>5. calls \in 0..MaxCalls /\ asked \in 0..MaxSubmissions
  BY <1>1 DEF Init
<1>6. {told, injected, notice, gaveUp, misread} \subseteq BOOLEAN
  BY DEF Init
<1>7. /\ phase = "idle" /\ serving = "up" /\ building = {} /\ others \in Others
  BY DEF Init, Others
<1> QED
  BY <1>1, <1>2, <1>3, <1>4, <1>5, <1>6, <1>7 DEF Typed, TypeOK, CallAtHand

\* Steps of the conversation.
LEMMA TalkTyped ==
  ASSUME Typed, Input \/ Reset \/ Reply \/ Edit \/ OtherTool
  PROVE  Typed'
<1> USE DEF Typed, TypeOK, CallAtHand
<1>1. CASE Input
  BY <1>1 DEF Input, bootVars
<1>2. CASE Reset
  BY <1>2 DEF Reset, bootVars
<1>3. CASE Reply
  <2>1. \A n \in 1..MaxCalls : n \in 0..MaxCalls /\ n # 0
    BY AgentAssumption
  <2> QED
    BY <1>3, <2>1 DEF Reply, bootVars
<1>4. CASE Edit
  <2>1. file' \in Seq(Pieces) /\ Len(file') <= MaxLen
    BY <1>4, EditedType DEF Edit
  <2> QED
    BY <1>4, <2>1, CallDoneTyped DEF Edit, bootVars
<1>5. CASE OtherTool
  BY <1>5, CallDoneTyped DEF OtherTool, bootVars
<1> QED
  BY <1>1, <1>2, <1>3, <1>4, <1>5

\* The agent submits, and takes a result or gives up.
LEMMA WaitTyped ==
  ASSUME Typed, SubmitUpdate \/ TakeResult \/ TimeOut
  PROVE  Typed'
<1> USE DEF Typed, TypeOK, CallAtHand
<1>1. CASE SubmitUpdate
  <2>1. asked' \in 0..MaxSubmissions /\ asked' \in Submissions
    BY <1>1, AgentAssumption DEF SubmitUpdate, Submissions
  <2>2. mail' \in Seq([id : Ids, source : Seq(Pieces)])
    <3>1. [id |-> asked', source |-> file] \in [id : Ids, source : Seq(Pieces)]
      BY <2>1 DEF Ids
    <3> QED
      BY <1>1, <3>1, QueueTyped DEF SubmitUpdate
  <2>3. calls # 0
    BY <1>1 DEF SubmitUpdate
  <2> QED
    BY <1>1, <2>1, <2>2, <2>3 DEF SubmitUpdate
<1>2. CASE TakeResult
  <2>1. /\ Head(results) \in Messages \ {RollbackMsg}
        /\ Tail(results) \in Seq(Messages \ {RollbackMsg})
        /\ Len(Tail(results)) = Len(results) - 1
    BY <1>2, QueueTyped DEF TakeResult
  <2>2. Len(Tail(results)) <= ResultSlots
    <3>1. Len(results) \in Nat /\ ResultSlots \in Nat
      BY AgentAssumption
    <3> QED
      BY <2>1, <3>1
  <2>3. answer' \in [to : Submissions \cup {None}, from : Ids \cup {None}]
    <3>1. asked \in Submissions \cup {None}
      BY AgentAssumption DEF Submissions, None
    <3>2. Head(results).id \in Ids \cup {None}
      BY <2>1, MessagesTyped
    <3> QED
      BY <1>2, <3>1, <3>2 DEF TakeResult
  <2>4. gaveUp' \in BOOLEAN
    BY <1>2, Zenon DEF TakeResult
  <2> QED
    BY <1>2, <2>1, <2>2, <2>3, <2>4, CallDoneTyped DEF TakeResult, bootVars
<1>3. CASE TimeOut
  BY <1>3, CallDoneTyped DEF TimeOut, bootVars
<1> QED
  BY <1>1, <1>2, <1>3

\* The process dispatches, stops, and is replaced.
LEMMA ProcessTyped ==
  ASSUME Typed, Dispatch \/ Stopped \/ NewProcess \/ BootRestarts
  PROVE  Typed'
<1> USE DEF Typed, TypeOK, CallAtHand
<1>1. CASE Dispatch
  <2>1. Head(inbox) \in Messages /\ Tail(inbox) \in Seq(Messages)
    BY <1>1, QueueTyped DEF Dispatch
  <2>2. /\ results' \in Seq(Messages \ {RollbackMsg}) /\ Len(results') <= ResultSlots
        /\ notice' \in BOOLEAN /\ serving' \in {"up", "stopping", "down"}
    <3>1. CASE Head(inbox) = RollbackMsg
      BY <1>1, <3>1 DEF Dispatch
    <3>2. CASE Head(inbox) # RollbackMsg
      <4>1. /\ results' = Append(results, Head(inbox)) /\ Len(results) < ResultSlots
            /\ notice' = notice /\ serving' \in {"stopping", serving}
        BY <1>1, <3>2 DEF Dispatch
      <4>2. results' \in Seq(Messages \ {RollbackMsg}) /\ Len(results') = Len(results) + 1
        BY <2>1, <3>2, <4>1, QueueTyped
      <4>3. Len(results) \in Nat /\ ResultSlots \in Nat
        BY AgentAssumption
      <4>4. Len(results') <= ResultSlots
        BY <4>1, <4>2, <4>3
      <4> QED
        BY <4>1, <4>2, <4>4
    <3> QED
      BY <3>1, <3>2
  <2> QED
    BY <1>1, <2>1, <2>2 DEF Dispatch, bootVars
<1>2. CASE Stopped
  BY <1>2, AgentAssumption DEF Stopped, bootVars
<1>3. CASE Started /\ inbox' \in Seq(Messages) /\ gaveUp' \in BOOLEAN /\ others' \in Others
           /\ mail' \in {mail, <<>>} /\ building' \in {building, {}}
           /\ UNCHANGED <<file, asked, misread>>
  <2>1. results' \in Seq(Messages \ {RollbackMsg}) /\ Len(results') <= ResultSlots
    BY <1>3, AgentAssumption DEF Started
  <2>2. /\ calls' = 0 /\ told' = FALSE /\ injected' = FALSE /\ notice' = FALSE
        /\ phase' = "idle" /\ serving' = "up"
    BY <1>3 DEF Started
  <2>3. calls' \in 0..MaxCalls
    BY <2>2, AgentAssumption
  <2>4. answer' \in [to : Submissions \cup {None}, from : Ids \cup {None}]
    BY <1>3 DEF Started
  <2>5. mail' \in Seq([id : Ids, source : Seq(Pieces)])
    BY <1>3, EmptySeq
  <2>6. building' \subseteq Ids
    BY <1>3
  <2> HIDE DEF Started
  <2> QED
    BY <1>3, <2>1, <2>2, <2>3, <2>4, <2>5, <2>6
<1>4. CASE NewProcess
  <2>1. gaveUp' \in BOOLEAN
    BY <1>4, Zenon DEF NewProcess
  <2>2. others' \in Others
    BY <1>4 DEF NewProcess, Others
  <2>3. inbox' \in Seq(Messages)
    BY <1>4, FirstTyped DEF NewProcess
  <2> QED
    BY <1>3, <1>4, <2>1, <2>2, <2>3 DEF NewProcess
<1>5. CASE BootRestarts
  <2>1. /\ Started /\ inbox' = <<>> /\ mail' = <<>> /\ building' = {}
        /\ others' \in Others /\ UNCHANGED <<file, asked, misread, gaveUp>>
    BY <1>5 DEF BootRestarts
  <2>2. inbox' \in Seq(Messages) /\ gaveUp' \in BOOLEAN
    BY <2>1
  <2> QED
    BY <1>3, <2>1, <2>2
<1> QED
  BY <1>1, <1>2, <1>4, <1>5

\* An older process edits and submits.
LEMMA StrayTyped ==
  ASSUME Typed, StrayEdits \/ StraySubmits
  PROVE  Typed'
<1> USE DEF Typed, TypeOK, CallAtHand
<1>1. CASE StrayEdits
  <2>1. file' \in Seq(Pieces) /\ Len(file') <= MaxLen
    BY <1>1, EditedType DEF StrayEdits
  <2> QED
    BY <1>1, <2>1 DEF StrayEdits, processVars, bootVars
<1>2. CASE StraySubmits
  <2>1. [id |-> Stray, source |-> file] \in [id : Ids, source : Seq(Pieces)]
    BY DEF Ids
  <2>2. mail' \in Seq([id : Ids, source : Seq(Pieces)])
    BY <1>2, <2>1, QueueTyped DEF StraySubmits
  <2> QED
    BY <1>2, <2>2 DEF StraySubmits, processVars
<1> QED
  BY <1>1, <1>2

\* Boot handles a submission, answers it, and ends the process.
LEMMA BootTyped ==
  ASSUME Typed, BootHandles \/ BootAnswers \/ BootShutsDown
  PROVE  Typed'
<1> USE DEF Typed, TypeOK, CallAtHand
<1>1. CASE BootHandles
  <2>1. /\ Head(mail) \in [id : Ids, source : Seq(Pieces)]
        /\ Tail(mail) \in Seq([id : Ids, source : Seq(Pieces)])
    BY <1>1, QueueTyped DEF BootHandles
  <2>2. Head(mail).id \in Ids
    BY <2>1
  <2>3. inbox' \in Seq(Messages)
    <3>1. /\ Outcome(Head(mail).id) \in Messages /\ inbox \in Seq(Messages)
          /\ inbox' \in {inbox, Append(inbox, Outcome(Head(mail).id))}
      BY <1>1, <2>2, MessagesTyped DEF BootHandles
    <3> HIDE DEF Typed, TypeOK
    <3> QED
      BY <3>1, AddedTyped
  <2>4. building' \subseteq Ids
    <3>1. building' = building \/ building' = building \cup {Head(mail).id}
      BY <1>1 DEF BootHandles
    <3> QED
      BY <2>2, <3>1
  <2>5. misread' \in BOOLEAN
    <3>1. misread' = misread \/ misread' = (misread \/ Head(mail).source # file)
      BY <1>1, Zenon DEF BootHandles
    <3>2. misread \in BOOLEAN
      OBVIOUS
    <3> HIDE DEF Typed, TypeOK
    <3> QED
      BY <3>1, <3>2, Zenon
  <2> QED
    BY <1>1, <2>1, <2>3, <2>4, <2>5 DEF BootHandles, processVars
<1>2. CASE BootAnswers
  <2>1. PICK id \in building :
          /\ building' = building \ {id}
          /\ inbox' \in {inbox, Append(inbox, Outcome(id))}
    BY <1>2 DEF BootAnswers
  <2>2. inbox' \in Seq(Messages)
    <3>1. Outcome(id) \in Messages /\ inbox \in Seq(Messages)
      BY <2>1, MessagesTyped
    <3> HIDE DEF Typed, TypeOK
    <3> QED
      BY <2>1, <3>1, AddedTyped
  <2> QED
    BY <1>2, <2>1, <2>2 DEF BootAnswers, processVars
<1>3. CASE BootShutsDown
  <2>1. inbox' \in Seq(Messages)
    BY <1>3, MessagesTyped, QueueTyped DEF BootShutsDown
  <2> QED
    BY <1>3, <2>1 DEF BootShutsDown, processVars, bootVars
<1> QED
  BY <1>1, <1>2, <1>3

\* Every step keeps the types.
LEMMA TypedAlways == Spec => []Typed
<1>1. Typed /\ [Next]_vars => Typed'
  <2> SUFFICES ASSUME Typed, [Next]_vars
               PROVE  Typed'
    OBVIOUS
  <2>1. CASE UNCHANGED vars
    BY <2>1 DEF vars, processVars, bootVars, Typed, TypeOK, CallAtHand
  <2> QED
    BY <2>1, TalkTyped, WaitTyped, ProcessTyped, StrayTyped, BootTyped DEF Next
<1> QED
  BY <1>1, InitTyped, PTL DEF Spec

-----------------------------------------------------------------------------
(* Results.                                                                *)

\* submit_and_wait_result takes the oldest message of the channel and does not
\* look at its identity (agent.rs); it is still the answer to the submission
\* it waits for, as long as no answer was left waiting and no older process is
\* connected, over any restarts of Boot.
THEOREM AnswersMatch == Spec => []AnswerMatches
<1>1. Inv => AnswerMatches
  BY DEF Inv, Parts, AnswerMatches
<1> QED
  BY <1>1, InvAlways, PTL

\* handle_submit_update commits the source tree as it finds it
\* (microkernel.rs); it finds it as the agent submitted it, as long as no
\* answer was left waiting and no older process serves on beside the agent.
THEOREM CommitsSubmitted == Spec => []CommittedAsSubmitted
<1>1. Inv => CommittedAsSubmitted
  BY DEF Inv, Parts, CommittedAsSubmitted
<1> QED
  BY <1>1, InvAlways, PTL

\* Type correctness: among others, the channel of results holds at most
\* ResultSlots, the count of calls never falls below zero, and whatever the
\* editing tools leave is a file (agent.rs, main.rs, tools.rs).
THEOREM TypeCorrect == Spec => []TypeOK
<1>1. Typed => TypeOK
  BY DEF Typed
<1> QED
  BY <1>1, TypedAlways, PTL

\* Whatever the agent has made of its file, the tools edit what they are asked
\* to edit (source.rs, tools.rs): lines, lines read and put back, and texts
\* that have one place.
THEOREM EditsAreExact == Spec => []EditsExact
<1>1. TypeOK => EditsExact
  <2> SUFFICES ASSUME TypeOK, NEW more \in Contents, NEW content, content = file \o more
               PROVE  LineEditExact(content) /\ ReadBack(content) /\ TextEditUnique(content)
    BY DEF EditsExact
  <2>1. content \in Seq(Pieces) /\ Contents \subseteq Seq(Pieces) /\ NL \in Pieces
    BY AgentAssumption DEF TypeOK, Pieces
  <2>2. LineCount(content) \in Nat
    BY <2>1, EndsFinite
  <2>3. LineEditExact(content)
    <3> SUFFICES ASSUME NEW new \in Contents,
                        NEW start \in 0..(LineCount(content) + 2),
                        NEW end \in 0..(LineCount(content) + 2),
                        ~CannotEdit(content, start, end), Whole(new),
                        start <= LineCount(content) \/ Whole(content)
                 PROVE  Lines(EditLines(content, new, start, end)) =
                          SubSeq(Lines(content), 1, start - 1) \o Lines(new)
                            \o SubSeq(Lines(content), end + 1, LineCount(content))
      BY DEF LineEditExact
    <3>1. start \in Nat /\ end \in Nat /\ new \in Seq(Pieces)
      BY <2>1, <2>2
    <3> QED
      BY <2>1, <3>1, LineEdit
  <2>4. ReadBack(content)
    BY <2>1, LineRead, LineBack DEF ReadBack
  <2>5. TextEditUnique(content)
    BY <2>1, CountIsPlaces DEF TextEditUnique, CannotReplace
  <2> QED
    BY <2>3, <2>4, <2>5
<1> QED
  BY <1>1, TypeCorrect, PTL

=============================================================================
