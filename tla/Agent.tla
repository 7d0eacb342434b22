-------------------------------- MODULE Agent --------------------------------
(***************************************************************************)
(* The peripheral's agent (crates/peripheral/src/agent.rs, tools.rs), the  *)
(* task that dispatches the messages of Boot to it (main.rs), and the      *)
(* update they wait for.                                                   *)
(*                                                                         *)
(* The agent holds one conversation at a time; the model's replies ask for *)
(* tool calls, which it runs in order.  Boot is the environment: it reads  *)
(* the source tree some time after the submission, and answers some time   *)
(* later, once, or never.  Answers carry the identity of the submission,   *)
(* and the agent does not look at it.                                      *)
(*                                                                         *)
(* Processes that Boot has not ended serve on beside the agent, each with  *)
(* a port of its own, and work on the same source tree (others).           *)
(***************************************************************************)
EXTENDS SourceFile

CONSTANTS
    Contents,        \* texts the model may write or search for
    InitialFile,     \* the source file at first
    ResultSlots,     \* capacity of the channel of update results
    MaxLen,          \* bound: length of the file
    MaxCalls,        \* bound: tool calls of one reply
    MaxSubmissions   \* bound: submissions of all processes

ASSUME AgentAssumption ==
    /\ Contents \subseteq Seq(Pieces)
    /\ InitialFile \in Seq(Pieces) /\ Len(InitialFile) <= MaxLen
    /\ ResultSlots \in Nat \ {0}
    /\ MaxLen \in Nat /\ MaxCalls \in Nat \ {0} /\ MaxSubmissions \in Nat

VARIABLES
    file,       \* the source file
    phase,      \* what the agent does
    calls,      \* tool calls of the current reply that are left
    told,       \* is the rollback in the conversation?
    injected,   \* Agent::rollback_context_injected
    notice,     \* is a RollbackContext in its channel?
    inbox,      \* messages of Boot before the dispatching task
    results,    \* the channel of update results
    serving,    \* "up", "stopping" (told to shut down) or "down"
    asked,      \* number of submissions so far; the last is the agent's
    mail,       \* submissions Boot has not handled, with the file as submitted
    building,   \* submissions Boot has not answered
    gaveUp,     \* has the answer to a submission been left waiting, by a
                \* timeout, a shutdown or a new process?
    answer,     \* the last result the process took, and for which submission
    misread,    \* has Boot read another file than was submitted?
    others      \* older processes beside the agent: "none" yet, only some
                \* "cut off" from Boot, or some that are "connected"

processVars == <<phase, calls, told, injected, notice, results, serving>>
bootVars == <<mail, building, misread, others>>
vars == <<file, processVars, inbox, asked, bootVars, gaveUp, answer>>

Submissions == 1..MaxSubmissions
None == 0   \* no submission
Stray == MaxSubmissions + 1   \* a submission of an older process
Ids == Submissions \cup {Stray}
Outcome(id) == [kind |-> "result", id |-> id]
ShutdownMsg == [kind |-> "shutdown", id |-> None]
RollbackMsg == [kind |-> "rollback", id |-> None]
Messages == {Outcome(id) : id \in Ids} \cup {ShutdownMsg, RollbackMsg}

Others == {"none", "cut off", "connected"}

TypeOK ==
    /\ file \in Seq(Pieces) /\ Len(file) <= MaxLen
    /\ phase \in {"idle", "asking", "calling", "waiting"}
    /\ calls \in 0..MaxCalls
    /\ {told, injected, notice, gaveUp, misread} \subseteq BOOLEAN
    /\ inbox \in Seq(Messages)
    /\ results \in Seq(Messages \ {RollbackMsg}) /\ Len(results) <= ResultSlots
    /\ serving \in {"up", "stopping", "down"}
    /\ asked \in 0..MaxSubmissions
    /\ mail \in Seq([id : Ids, source : Seq(Pieces)])
    /\ building \subseteq Ids
    /\ answer \in [to : Submissions \cup {None}, from : Ids \cup {None}]
    /\ others \in Others

\* What is before a process that has its Welcome: Boot may have a rollback to
\* tell it of.
FirstMessages == {<<>>, <<RollbackMsg>>}

Init ==
    /\ file = InitialFile
    /\ phase = "idle" /\ calls = 0
    /\ told = FALSE /\ injected = FALSE /\ notice = FALSE
    /\ results = <<>>
    /\ serving = "up"
    /\ inbox \in FirstMessages
    /\ asked = 0
    /\ mail = <<>> /\ building = {}
    /\ gaveUp = FALSE
    /\ answer = [to |-> None, from |-> None]
    /\ misread = FALSE
    /\ others = "none"

-----------------------------------------------------------------------------
(* The conversation.                                                       *)

\* handle_input_stream: only the first input looks for a rollback.  An input
\* that waited for the conversation before it may begin during a shutdown.
Input ==
    /\ phase = "idle" /\ serving # "down"
    /\ phase' = "asking"
    /\ injected' = TRUE
    /\ told' = (told \/ (~injected /\ notice))
    /\ notice' = (notice /\ injected)
    /\ UNCHANGED <<file, calls, results, serving, inbox, asked, bootVars, gaveUp, answer>>

\* reset_conversation, which waits for the conversation in progress.
Reset ==
    /\ phase = "idle" /\ serving # "down"
    /\ told' = FALSE
    /\ UNCHANGED <<file, phase, calls, injected, notice, results, serving, inbox,
                   asked, bootVars, gaveUp, answer>>

\* The model replies: it asks for tool calls, or it is done or has failed.
Reply ==
    /\ phase = "asking"
    /\ \/ phase' = "calling" /\ calls' \in 1..MaxCalls
       \/ phase' = "idle" /\ UNCHANGED calls
    /\ UNCHANGED <<file, told, injected, notice, results, serving, inbox,
                   asked, bootVars, gaveUp, answer>>

\* The call at hand is done; after the last, the model is asked again.
CallDone ==
    /\ calls' = calls - 1
    /\ phase' = IF calls = 1 THEN "asking" ELSE "calling"

\* The line ranges a call may ask for, in its two forms.
Ranges ==
    LET last == LineCount(file) + 2
    IN  {LinesOf(start, end) : start, end \in 0..last}
        \cup {OffsetLimit(offset, limit) : offset \in 0..last, limit \in 0..last}

\* The contents the editing tools may leave in the file.
Edited ==
    LET editable == {range \in Ranges : ~CannotEdit(file, range[1], range[2])}
        unique == {old \in Contents \ {<<>>} : ~CannotReplace(file, old)}
    IN  Contents
        \cup {EditLines(file, new, range[1], range[2]) : new \in Contents, range \in editable}
        \cup {Replaced(file, old, new) : new \in Contents, old \in unique}

\* write_source_file and edit_source_file.
Edit ==
    /\ phase = "calling"
    /\ file' \in Edited
    /\ Len(file') <= MaxLen
    /\ CallDone
    /\ UNCHANGED <<told, injected, notice, results, serving, inbox,
                   asked, bootVars, gaveUp, answer>>

\* Every other tool, a call that fails, or a submission without connection.
OtherTool ==
    /\ phase = "calling"
    /\ CallDone
    /\ UNCHANGED <<file, told, injected, notice, results, serving, inbox,
                   asked, bootVars, gaveUp, answer>>

\* Mutant: the agent goes on without waiting for the result.
SubmitOnly ==
    /\ phase = "calling" /\ asked < MaxSubmissions
    /\ asked' = asked + 1
    /\ mail' = Append(mail, [id |-> asked', source |-> file])
    /\ CallDone
    /\ UNCHANGED <<file, told, injected, notice, results, serving, inbox,
                   building, misread, others, gaveUp, answer>>

\* submit_and_wait_result, the submission.
SubmitUpdate ==
    /\ phase = "calling" /\ asked < MaxSubmissions
    /\ asked' = asked + 1
    /\ mail' = Append(mail, [id |-> asked', source |-> file])
    /\ phase' = "waiting"
    /\ UNCHANGED <<file, calls, told, injected, notice, results, serving, inbox,
                   building, misread, others, gaveUp, answer>>

\* Mutant: the result stays in the channel.
TakeResultKeeps ==
    /\ phase = "waiting" /\ results # <<>>
    /\ answer' = [to |-> asked, from |-> Head(results).id]
    /\ gaveUp' = (gaveUp \/ Head(results) = ShutdownMsg)
    /\ CallDone
    /\ UNCHANGED <<file, told, injected, notice, results, serving, inbox,
                   asked, bootVars>>

\* submit_and_wait_result, the oldest result in the channel; a shutdown is
\* taken for one.
TakeResult ==
    /\ phase = "waiting" /\ results # <<>>
    /\ answer' = [to |-> asked, from |-> Head(results).id]
    /\ results' = Tail(results)
    /\ gaveUp' = (gaveUp \/ Head(results) = ShutdownMsg)
    /\ CallDone
    /\ UNCHANGED <<file, told, injected, notice, serving, inbox,
                   asked, bootVars>>

\* No result within 300 s.
TimeOut ==
    /\ phase = "waiting" /\ results = <<>>
    /\ gaveUp' = TRUE
    /\ CallDone
    /\ UNCHANGED <<file, told, injected, notice, results, serving, inbox,
                   asked, bootVars, answer>>

-----------------------------------------------------------------------------
(* The process.                                                            *)

\* Mutant: the channel of results is not bounded.
DispatchUnbounded ==
    /\ inbox # <<>> /\ serving = "up"
    /\ inbox' = Tail(inbox)
    /\ IF Head(inbox) = RollbackMsg
       THEN notice' = TRUE /\ UNCHANGED <<results, serving>>
       ELSE /\ results' = Append(results, Head(inbox))
            /\ serving' = IF Head(inbox) = ShutdownMsg THEN "stopping" ELSE serving
            /\ UNCHANGED notice
    /\ UNCHANGED <<file, phase, calls, told, injected, asked, bootVars, gaveUp, answer>>

\* run, the task that takes the messages of Boot: it waits for room in the
\* channel of results, for a shutdown too, and ends with the shutdown.
Dispatch ==
    /\ inbox # <<>> /\ serving = "up"
    /\ inbox' = Tail(inbox)
    /\ IF Head(inbox) = RollbackMsg
       THEN notice' = TRUE /\ UNCHANGED <<results, serving>>
       ELSE /\ Len(results) < ResultSlots
            /\ results' = Append(results, Head(inbox))
            /\ serving' = IF Head(inbox) = ShutdownMsg THEN "stopping" ELSE serving
            /\ UNCHANGED notice
    /\ UNCHANGED <<file, phase, calls, told, injected, asked, bootVars, gaveUp, answer>>

\* The server stops when no client is left, and the process with it: a
\* conversation whose client has left ends where it is.
Stopped ==
    /\ serving = "stopping"
    /\ serving' = "down"
    /\ phase' = "idle" /\ calls' = 0
    /\ UNCHANGED <<file, told, injected, notice, results, inbox,
                   asked, bootVars, gaveUp, answer>>

\* A process starts, before its first conversation.
Started ==
    /\ phase' = "idle" /\ calls' = 0
    /\ told' = FALSE /\ injected' = FALSE /\ notice' = FALSE
    /\ results' = <<>>
    /\ serving' = "up"
    /\ answer' = [to |-> None, from |-> None]

\* replace_peripheral: another process takes over, in a hand-over or after a
\* rollback, and this one is killed, unless it is a candidate Boot has
\* forgotten: then it serves on.
NewProcess ==
    /\ Started
    /\ inbox' \in FirstMessages
    /\ gaveUp' = (gaveUp \/ mail # <<>> \/ building # {})
    /\ \/ UNCHANGED others
       \/ serving # "down" /\ others' = "connected"
    /\ UNCHANGED <<file, asked, mail, building, misread>>

\* Boot stops and starts again, and starts a process.  What it had to handle
\* and to answer is gone, and so is a rollback it had to tell of.  The old
\* process is not killed: unless it ends by itself, it serves on without its
\* connection, or, if it was about to connect, with one.
BootRestarts ==
    /\ Started
    /\ inbox' = <<>>
    /\ mail' = <<>> /\ building' = {}
    /\ others' \in Others
    /\ others' = "none" => others = "none"
    /\ others' = "cut off" => others # "none" \/ serving # "down"
    /\ others' = "connected" => serving # "down"
    /\ UNCHANGED <<file, asked, misread, gaveUp>>

\* The conversation of an older process edits the same tree.
StrayEdits ==
    /\ others # "none"
    /\ file' \in Edited
    /\ Len(file') <= MaxLen
    /\ UNCHANGED <<processVars, inbox, asked, bootVars, gaveUp, answer>>

\* An older process submits the tree; its result will go to the agent.  (One
\* such submission is under way at a time.)
StraySubmits ==
    /\ others = "connected"
    /\ Stray \notin building
    /\ \A i \in 1..Len(mail) : mail[i].id # Stray
    /\ \A i \in 1..Len(inbox) : inbox[i] # Outcome(Stray)
    /\ \A i \in 1..Len(results) : results[i] # Outcome(Stray)
    /\ mail' = Append(mail, [id |-> Stray, source |-> file])
    /\ UNCHANGED <<file, processVars, inbox, asked, building, misread, others,
                   gaveUp, answer>>

-----------------------------------------------------------------------------
(* Boot.                                                                   *)

\* handle_submit_update: refused (the answer may be lost with the connection),
\* or the source tree is committed as it is now.
BootHandles ==
    /\ mail # <<>>
    /\ mail' = Tail(mail)
    /\ \/ /\ inbox' = Append(inbox, Outcome(Head(mail).id))
          /\ UNCHANGED <<building, misread>>
       \/ /\ building' = building \cup {Head(mail).id}
          /\ misread' = (misread \/ Head(mail).source # file)
          /\ UNCHANGED inbox
    /\ UNCHANGED <<file, processVars, asked, others, gaveUp, answer>>

\* An UpdateAccepted or UpdateRejected is sent, or lost with the connection.
BootAnswers ==
    /\ \E id \in building :
          /\ building' = building \ {id}
          /\ inbox' \in {inbox, Append(inbox, Outcome(id))}
    /\ UNCHANGED <<file, processVars, asked, mail, misread, others, gaveUp, answer>>

\* A Shutdown reaches the process, the last message it is sent.
BootShutsDown ==
    /\ \A i \in 1..Len(inbox) : inbox[i] # ShutdownMsg
    /\ serving = "up"
    /\ inbox' = Append(inbox, ShutdownMsg)
    /\ UNCHANGED <<file, processVars, asked, bootVars, gaveUp, answer>>

-----------------------------------------------------------------------------

Next ==
    \/ Input \/ Reset \/ Reply
    \/ Edit \/ OtherTool
    \/ SubmitUpdate \/ TakeResult \/ TimeOut
    \/ Dispatch \/ Stopped
    \/ NewProcess \/ BootRestarts \/ StrayEdits \/ StraySubmits
    \/ BootHandles \/ BootAnswers \/ BootShutsDown

Spec == Init /\ [][Next]_vars

-----------------------------------------------------------------------------
(* Properties.                                                             *)

\* The result the agent is given is that of its submission, or the news of a
\* shutdown, as long as no answer was ever left waiting, and no older process
\* is connected.  After an answer was left, the next submissions are given
\* the results of earlier ones; the results of an older process are sent to
\* the agent.  A restart of Boot, with whatever was under way, does no harm.
AnswerMatches ==
    ~gaveUp /\ others # "connected" => answer.from \in {answer.to, None}

\* What Boot commits is what was submitted: the agent does not edit while
\* its submission waits, as long as it has left none and is alone.  (After a
\* shutdown it goes on with the conversation, and may edit; so may an older
\* process that a restart of Boot has left, or a hand-over forgotten.)
CommittedAsSubmitted == ~gaveUp /\ others = "none" => ~misread

\* An edit of lines changes these lines and no other, if what is put in ends
\* its last line, and so does the file when lines are added behind it.
LineEditExact(content) ==
    \A new \in Contents, start, end \in 0..(LineCount(content) + 2) :
        (/\ ~CannotEdit(content, start, end)
         /\ Whole(new)
         /\ start <= LineCount(content) \/ Whole(content))
        => Lines(EditLines(content, new, start, end)) =
              SubSeq(Lines(content), 1, start - 1) \o Lines(new)
                  \o SubSeq(Lines(content), end + 1, LineCount(content))

\* Reading a line and writing it back restores the file, but for a missing
\* end of the last line.
ReadBack(content) ==
    \A k \in 1..LineCount(content) :
        /\ ~CannotRead(content, k, k)
        /\ LET line == Append(ReadLines(content, k, k)[1], NL)
           IN  EditLines(content, line, k, k) \in {content, Append(content, NL)}

\* An edit by text is refused unless the text has exactly one place, for
\* texts that cannot overlap themselves.
TextEditUnique(content) ==
    \A old \in Contents \ {<<>>} :
        ~Overlaps(old) =>
            (~CannotReplace(content, old) <=> Cardinality(Places(content, old)) = 1)

\* The editing tools do to the file, and to the file with a text behind it,
\* what the agent asked for.
EditsExact ==
    \A more \in Contents :
        LET content == file \o more
        IN  LineEditExact(content) /\ ReadBack(content) /\ TextEditUnique(content)

=============================================================================
