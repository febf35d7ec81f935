-------------------------- MODULE CliVerdict_proofs --------------------------
(***************************************************************************)
(* The command line implements ProofVerdict: the statuses 0 and 1 of a     *)
(* command that answers with the state of a proof are the truth about that *)
(* proof, looked up after the command's own work on it succeeded.          *)
(***************************************************************************)
EXTENDS Cli_proofs

\* A run waits for no task before it has one, or where it starts none.
TaskFree(c) ==
    step[c] \in {"connect", "start", "submit", "save", "open"} => taskOf[c] = None

\* The replies with the state of a proof.
OfProof == {"closed", "open", "unsaid"}

\* What no step takes back, seen from one run: its own work is done for good.
DoneStays(c) == WorkDone(c) => WorkDone(c)'

\* The run has nothing to tell and does not get it in this step, or keeps it.
SampleStays(c) == Sample(c)' = Sample(c) /\ Told(c)' = Told(c)

-----------------------------------------------------------------------------
LEMMA DoneFrame ==
  ASSUME NEW c \in Clients, Grows, cmd'[c] = cmd[c],
         taskOf'[c] = taskOf[c] \/ taskOf[c] = None \/ taskOf[c] \notin Tasks
  PROVE  DoneStays(c)
  BY ServerAssumption DEF DoneStays, WorkDone, Grows

LEMMA SameFrame ==
  ASSUME NEW c \in Clients, Same(c), Grows PROVE DoneStays(c) /\ SampleStays(c)
  BY DoneFrame DEF Same, SampleStays, Sample, Told

LEMMA TruthLater ==
  ASSUME IInv, IInv', Grows, NEW p \in Proofs
  PROVE  Truth(p)' \in Abstract!Later(Truth(p)) /\ Truth(p)' \in Abstract!States
<1>1. p # None
  BY ServerAssumption
<1>2. /\ closed \subseteq issued /\ issued \subseteq issued' /\ closed \subseteq closed'
      /\ closed' \subseteq issued'
  BY DEF IInv, ServerInv, ServerTypeOK, Grows
<1>3. QED
  BY <1>1, <1>2 DEF Truth, StateOf, Abstract!Later, Abstract!States

\* Nothing is looked up, told or forgotten: the proofs and the work go on.
LEMMA Progresses ==
  ASSUME IInv, IInv', Grows, \A c \in Clients : DoneStays(c) /\ SampleStays(c)
  PROVE  Abstract!Progress
<1>1. [p \in Proofs |-> Truth(p)]' \in [Proofs -> Abstract!States]
  BY TruthLater
<1>2. [c \in Clients |-> WorkDone(c)]' \in [Clients -> BOOLEAN]
  BY Zenon DEF WorkDone
<1>3. \A p \in Proofs : [q \in Proofs |-> Truth(q)]'[p]
                            \in Abstract!Later([q \in Proofs |-> Truth(q)][p])
  BY TruthLater
<1>4. \A c \in Clients : [d \in Clients |-> WorkDone(d)][c]
                            => [d \in Clients |-> WorkDone(d)]'[c]
  BY DEF DoneStays
<1>5. /\ [c \in Clients |-> Sample(c)]' = [c \in Clients |-> Sample(c)]
      /\ [c \in Clients |-> Told(c)]' = [c \in Clients |-> Told(c)]
  BY DEF SampleStays
<1>6. QED
  BY <1>1, <1>2, <1>3, <1>4, <1>5 DEF Abstract!Progress

\* Truth and work are as they were.
LEMMA NothingMoves ==
  ASSUME UNCHANGED <<serverVars, cmd, taskOf>>
  PROVE  /\ [p \in Proofs |-> Truth(p)]' = [p \in Proofs |-> Truth(p)]
         /\ [c \in Clients |-> WorkDone(c)]' = [c \in Clients |-> WorkDone(c)]
<1>1. UNCHANGED <<issued, closed, task, cmd, taskOf>>
  BY DEF serverVars
<1>2. \A p \in Proofs : Truth(p)' = Truth(p)
  BY <1>1 DEF Truth, StateOf
<1>3. \A c \in Clients : WorkDone(c)' = WorkDone(c)
  BY <1>1 DEF WorkDone
<1>4. QED
  BY <1>2, <1>3

\* A run ends and tells no verdict.
LEMMA Forgets ==
  ASSUME IInv, NEW c \in Clients, NEW code \in ExitCodes, NEW n, End(c, code, n),
         step[c] # "end", code = "FAILED" \/ cmd[c] \notin VerdictCommands
  PROVE  Abstract!Forget(c)
<1>1. /\ \A d \in Clients : exit'[d] = IF d = c THEN code ELSE exit[d]
      /\ \A d \in Clients : reply'[d] = IF d = c THEN NoReply ELSE reply[d]
      /\ UNCHANGED <<serverVars, cmd, proofOf, taskOf>>
      /\ exit[c] = "NONE"
  BY DEF IInv, ClientTypeOK, End, RunInv
<1>2. Told(c) = "none" /\ Told(c)' = "none"
  BY <1>1 DEF Told
<1>3. Sample(c)' = Abstract!NoSample
  BY <1>1, <1>2 DEF Sample, NoReply, Abstract!NoSample
<1>4. \A d \in Clients : d # c => Sample(d)' = Sample(d)
  BY <1>1 DEF Sample, Told
<1>5. \A d \in Clients : Told(d)' = Told(d)
  BY <1>1, <1>2 DEF Told
<1>6. QED
  BY <1>1, <1>2, <1>3, <1>4, <1>5, NothingMoves DEF Abstract!Forget

\* The server answers with the state of the proof of c.
LEMMA Looks ==
  ASSUME IInv, NEW c \in Clients, ServeStatistics(c)
  PROVE  Abstract!Look(c)
<1>1. /\ step[c] = "statistics" /\ proofOf[c] \in live
      /\ UNCHANGED serverVars
  BY DEF ServeStatistics
<1>0. PICK says \in {StateOf(proofOf[c])} \cup (Faults \cap {"unsaid"}) :
          Answer(c, says, None)
  BY DEF ServeStatistics
<1> DEFINE row == [proof |-> proofOf[c], state |-> ReadAs(says)]
<1>2. /\ RunInv(c) /\ proofOf[c] \in Proofs /\ proofOf[c] \in issued
      /\ reply' = [reply EXCEPT ![c] = [says |-> says, id |-> None]]
      /\ reply \in [Clients -> [says : Says, id : Proofs \cup Tasks \cup {None}]]
      /\ UNCHANGED <<serverVars, cmd, proofOf, taskOf, exit>>
  BY <1>1, <1>0, ServerAssumption
     DEF IInv, ServerInv, ServerTypeOK, ClientTypeOK, Answer
<1>3. Told(c) = "none" /\ \A d \in Clients : Told(d)' = Told(d)
  BY <1>1, <1>2 DEF Told, RunInv
<1>4. Truth(proofOf[c]) = StateOf(proofOf[c]) /\ Truth(proofOf[c]) \in {"open", "closed"}
  BY <1>2, ServerAssumption DEF Truth, StateOf
<1>5. Sample(c)' = row
  <2>1. says \in OfProof
    BY <1>4 DEF OfProof
  <2>2. QED
    BY <1>2, <1>3, <2>1 DEF Sample, OfProof, ReadAs
<1>6. \A d \in Clients : d # c => Sample(d)' = Sample(d)
  BY <1>2, <1>3 DEF Sample
<1>7. WorkDone(c)
  BY <1>1, <1>2 DEF RunInv, Worked, WorkDone
<1>8. [d \in Clients |-> Sample(d)]' = [[d \in Clients |-> Sample(d)] EXCEPT ![c] = row]
  BY <1>5, <1>6
<1>9. ReadAs(says) \in Abstract!Seen(proofOf[c])
  BY <1>2, <1>4 DEF ReadAs, Abstract!Seen
<1>10. QED
  BY <1>2, <1>3, <1>4, <1>7, <1>8, <1>9, NothingMoves DEF Abstract!Look

\* The command ends with what the server answered.
LEMMA Tells ==
  ASSUME IInv, NEW c \in Clients, HearStatistics(c)
  PROVE  Abstract!Tell(c)
<1>1. /\ reply[c].says \in OfProof /\ step[c] = "statistics"
      /\ RunInv(c)
      /\ End(c, Verdict(reply[c].says), 1)
  BY DEF HearStatistics, Heard, IInv, RunInv, ReplyInv, OfProof
<1>2. /\ \A d \in Clients : exit'[d] = IF d = c THEN Verdict(reply[c].says) ELSE exit[d]
      /\ \A d \in Clients : d # c => reply'[d] = reply[d]
      /\ UNCHANGED <<serverVars, cmd, proofOf, taskOf>>
      /\ exit[c] = "NONE" /\ cmd[c] \in VerdictCommands
  BY <1>1 DEF IInv, ClientTypeOK, End, RunInv, StepInv
<1>3. Told(c) = "none" /\ Told(c)' = ReadAs(reply[c].says)
  BY <1>1, <1>2 DEF Told, Verdict, ReadAs, OfProof
<1>4. /\ Sample(c) = [proof |-> proofOf[c], state |-> ReadAs(reply[c].says)]
      /\ Sample(c)' = Sample(c)
  BY <1>1, <1>2, <1>3 DEF Sample, OfProof, ReadAs
<1>5. \A d \in Clients : d # c => Told(d)' = Told(d) /\ Sample(d)' = Sample(d)
  BY <1>2 DEF Told, Sample
<1>6. Sample(c) # Abstract!NoSample /\ Sample(c).state = ReadAs(reply[c].says)
  BY <1>1, <1>4 DEF Abstract!NoSample, OfProof, ReadAs
<1>7. /\ [d \in Clients |-> Sample(d)]' = [d \in Clients |-> Sample(d)]
      /\ [d \in Clients |-> Told(d)]'
            = [[d \in Clients |-> Told(d)] EXCEPT ![c] = Sample(c).state]
  BY <1>3, <1>4, <1>5, <1>6
<1>8. QED
  BY <1>2, <1>3, <1>6, <1>7, NothingMoves DEF Abstract!Tell

\* A run goes on to its next request, with no verdict in its reply.
LEMMA Proceeds ==
  ASSUME IInv, IInv', Grows, NEW c \in Clients, TaskFree(c), NEW p, NEW t, Proceed(c, p, t),
         step[c] # "end",
         t = taskOf[c] \/ step[c] \in {"connect", "start", "submit", "save", "open"},
         reply[c].says \notin OfProof
  PROVE  Abstract!Progress
<1>1. /\ \A d \in Clients : d # c => Same(d)
      /\ reply'[c] = NoReply /\ taskOf'[c] = t
      /\ UNCHANGED <<cmd, exit>>
      /\ exit[c] = "NONE"
  BY DEF IInv, ClientTypeOK, Proceed, Same, RunInv
<1>2. SampleStays(c)
  BY <1>1 DEF SampleStays, Sample, Told, NoReply, OfProof
<1>3. DoneStays(c)
  BY <1>1, DoneFrame DEF TaskFree
<1>4. ASSUME NEW d \in Clients PROVE DoneStays(d) /\ SampleStays(d)
  BY <1>1, <1>2, <1>3, SameFrame
<1>5. QED
  BY <1>4, Progresses

\* The server answers something else than the state of a proof.
LEMMA Answers ==
  ASSUME IInv, IInv', Grows, NEW c \in Clients, NEW says, NEW id, Answer(c, says, id),
         says \notin OfProof
  PROVE  Abstract!Progress
<1>1. /\ \A d \in Clients : d # c => Same(d)
      /\ reply[c] = NoReply /\ reply'[c] = [says |-> says, id |-> id]
      /\ UNCHANGED <<cmd, proofOf, taskOf, exit>>
  BY DEF IInv, ClientTypeOK, Answer, Waiting, Same
<1>2. SampleStays(c)
  BY <1>1 DEF SampleStays, Sample, Told, NoReply, OfProof
<1>3. DoneStays(c)
  BY <1>1, DoneFrame
<1>4. ASSUME NEW d \in Clients PROVE DoneStays(d) /\ SampleStays(d)
  BY <1>1, <1>2, <1>3, SameFrame
<1>5. QED
  BY <1>4, Progresses

-----------------------------------------------------------------------------
(* Every step of a command is one of ProofVerdict.                         *)

LEMMA ServeImplements ==
  ASSUME IInv, IInv', Grows, NEW c \in Clients, Serve(c)
  PROVE  Abstract!AbsNext
<1>1. CASE ServeStatistics(c)
  BY <1>1, Looks DEF Abstract!AbsNext
<1>2. CASE ServeAwait(c)
  <2>1. /\ Answer(c, task[taskOf[c]].status, task[taskOf[c]].proof)
        /\ step[c] = "await" /\ RunInv(c)
    BY <1>2 DEF ServeAwait, IInv
  <2>2. task[taskOf[c]].status \notin OfProof
    BY <2>1 DEF IInv, RunInv, Started, ServerInv, ServerTypeOK, TaskRows, Terminal, OfProof
  <2>3. QED
    BY <2>1, <2>2, Answers DEF Abstract!AbsNext
<1>3. CASE ServeStart(c) \/ ServeSubmit(c) \/ ServeSave(c) \/ ServeQuery(c) \/ Refuse(c)
  <2>1. \E says \in {"ok", "error"} : \E id : Answer(c, says, id)
    BY <1>3 DEF ServeStart, ServeSubmit, ServeSave, ServeQuery, Refuse
  <2>2. QED
    BY <2>1, Answers DEF Abstract!AbsNext, OfProof
<1>4. QED
  BY <1>1, <1>2, <1>3 DEF Serve

LEMMA HearImplements ==
  ASSUME IInv, IInv', Grows, NEW c \in Clients, TaskFree(c), Hear(c)
  PROVE  Abstract!AbsNext
<1> USE DEF Abstract!AbsNext
<1>0. RunInv(c) /\ ReplyInv(c) /\ StepInv(c) /\ cmd[c] \in Commands
  BY DEF IInv, RunInv, ClientTypeOK
<1>1. CASE HearStatistics(c)
  BY <1>1, Tells
<1>2. CASE HearProof(c) \/ HearTask(c) \/ HearSaved(c) \/ HearStream(c)
  <2>1. /\ step[c] \in {"start", "submit", "save", "open"} /\ reply[c].says = "ok"
        /\ \/ step[c] \in {"start", "submit"} /\ \E p, t : Proceed(c, p, t)
           \/ \E p : Proceed(c, p, None)
    BY <1>2 DEF HearProof, HearTask, HearSaved, HearStream, Heard
  <2>2. QED
    BY <2>1, Proceeds DEF OfProof
<1>3. CASE TaskSucceeded(c)
  <2>1. step[c] = "await" /\ reply[c].says = "SUCCEEDED"
    BY <1>0, <1>3 DEF TaskSucceeded, Heard, ReplyInv
  <2>2. CASE Following(c) = "end"
    <3>1. cmd[c] \notin VerdictCommands
      BY <1>0, <2>1, <2>2, FollowingFacts DEF VerdictCommands
    <3>2. QED
      BY <1>3, <2>1, <2>2, <3>1, Forgets DEF TaskSucceeded, ExitCodes
  <2>3. CASE Following(c) # "end"
    <3>1. \E p : Proceed(c, p, taskOf[c])
      BY <1>3, <2>3 DEF TaskSucceeded
    <3>2. QED
      BY <2>1, <3>1, Proceeds DEF OfProof
  <2>4. QED
    BY <2>2, <2>3
<1>4. CASE PollAgain(c) \/ Event(c)
  <2>1. /\ \A d \in Clients : d # c => Same(d)
        /\ reply[c].says \notin OfProof \/ reply'[c] = reply[c]
        /\ reply'[c] = NoReply \/ reply'[c] = reply[c]
        /\ UNCHANGED <<cmd, proofOf, taskOf, exit>>
    BY <1>4 DEF PollAgain, Event, Heard, Same, IInv, ClientTypeOK, OfProof
  <2>2. SampleStays(c)
    BY <2>1 DEF SampleStays, Sample, Told, NoReply, OfProof
  <2>3. DoneStays(c)
    BY <2>1, DoneFrame
  <2>4. QED
    BY <2>1, <2>2, <2>3, SameFrame, Progresses
<1>5. CASE GiveUp(c) \/ TaskFailed(c) \/ RpcError(c)
  <2>1. End(c, "FAILED", 1) /\ step[c] # "end"
    BY <1>5 DEF GiveUp, TaskFailed, RpcError, Heard, Requests
  <2>2. QED
    BY <2>1, Forgets DEF ExitCodes
<1>6. CASE HearQuery(c) \/ HearNothing(c) \/ StreamEnds(c)
  <2>1. /\ step[c] \in {"query", "stream"} /\ \E n : End(c, "CLOSED", n)
    BY <1>6 DEF HearQuery, HearNothing, StreamEnds
  <2>2. cmd[c] \notin VerdictCommands
    BY <1>0, <2>1 DEF StepInv, VerdictCommands
  <2>3. QED
    BY <2>1, <2>2, Forgets DEF ExitCodes
<1>7. QED
  BY <1>1, <1>2, <1>3, <1>4, <1>5, <1>6 DEF Hear

LEMMA StepImplements ==
  ASSUME NoTornRead, IInv, IInv', \A c \in Clients : TaskFree(c), [Next]_vars
  PROVE  Abstract!AbsNext
<1> USE DEF Abstract!AbsNext
<1>1. Grows
  BY StepGrows
<1>2. CASE UNCHANGED clientVars
  <2>1. \A c \in Clients : Same(c)
    BY <1>2 DEF clientVars, Same
  <2>2. QED
    BY <1>1, <2>1, SameFrame, Progresses
<1>3. ASSUME NEW c \in Clients, Serve(c) PROVE Abstract!AbsNext
  BY <1>1, <1>3, ServeImplements
<1>4. ASSUME NEW c \in Clients, Hear(c) PROVE Abstract!AbsNext
  BY <1>1, <1>4, HearImplements
<1>5. ASSUME NEW c \in Clients, Connect(c) PROVE Abstract!AbsNext
  <2>1. /\ step[c] = "connect" /\ \E p : Proceed(c, p, None)
        /\ RunInv(c)
    BY <1>5 DEF Connect, Connecting, IInv
  <2>2. reply[c].says \notin OfProof
    BY <2>1 DEF RunInv, ReplyInv, OfProof
  <2>3. QED
    BY <1>1, <2>1, <2>2, Proceeds
<1>6. ASSUME NEW c \in Clients,
             NoCommand(c) \/ NoInstance(c) \/ Lost(c) \/ Interrupt(c)
      PROVE  Abstract!AbsNext
  <2>1. step[c] # "end" /\ \E n : End(c, "FAILED", n)
    BY <1>6 DEF NoCommand, Connecting, NoInstance, Lost, Interrupt, Requests
  <2>2. QED
    BY <2>1, Forgets DEF ExitCodes
<1>7. ASSUME NEW c \in Clients, List(c) PROVE Abstract!AbsNext
  <2>1. step[c] # "end" /\ cmd[c] \notin VerdictCommands /\ End(c, "CLOSED", 1)
    BY <1>7 DEF List, VerdictCommands
  <2>2. QED
    BY <2>1, Forgets DEF ExitCodes
<1>8. ASSUME NEW c \in Clients, Escape(c) PROVE Abstract!AbsNext
  <2>1. step[c] = "stream" /\ End(c, "NOT_CLOSED", 0)
    BY <1>8 DEF Escape, TornReply, BadRecord, StreamBreaks, NoTornRead
  <2>2. cmd[c] \notin VerdictCommands
    BY <2>1 DEF IInv, RunInv, StepInv, VerdictCommands
  <2>3. QED
    BY <2>1, <2>2, Forgets DEF ExitCodes
<1>9. QED
  BY <1>2, <1>3, <1>4, <1>5, <1>6, <1>7, <1>8 DEF Next, vars

LEMMA TaskFreeStep ==
  ASSUME IInv, [Next]_vars, NEW c \in Clients, TaskFree(c) PROVE TaskFree(c)'
<1>0. /\ RunInv(c) /\ StepInv(c) /\ ReplyInv(c) /\ cmd[c] \in Commands
  BY DEF IInv, RunInv, ClientTypeOK
<1>1. ASSUME step'[c] = step[c], taskOf'[c] = taskOf[c] PROVE TaskFree(c)'
  BY <1>1 DEF TaskFree
<1>2. ASSUME NEW d \in Clients, NEW code, NEW n, End(d, code, n) PROVE TaskFree(c)'
  BY <1>2 DEF TaskFree, End, IInv, ClientTypeOK
<1>3. ASSUME NEW d \in Clients, NEW p, NEW t, Proceed(d, p, t),
             d = c => \/ t = None
                      \/ Following(c) \notin {"connect", "start", "submit", "save", "open"}
      PROVE  TaskFree(c)'
  BY <1>3 DEF TaskFree, Proceed, IInv, ClientTypeOK
<1>4. CASE UNCHANGED clientVars
  BY <1>1, <1>4 DEF clientVars
<1>5. ASSUME NEW d \in Clients, Serve(d) \/ PollAgain(d) \/ Event(d) PROVE TaskFree(c)'
  BY <1>1, <1>5 DEF Serve, ServeStart, ServeSubmit, ServeAwait, ServeSave, ServeStatistics,
     ServeQuery, Refuse, Answer, PollAgain, Event
<1>6. ASSUME NEW d \in Clients, Connect(d) \/ HearProof(d) \/ HearSaved(d) \/ HearStream(d)
      PROVE  TaskFree(c)'
  BY <1>3, <1>6 DEF Connect, Connecting, HearProof, HearSaved, HearStream
<1>7. ASSUME NEW d \in Clients, HearTask(d) PROVE TaskFree(c)'
  <2>1. step[d] = "submit" /\ \E p, t : Proceed(d, p, t)
    BY <1>7 DEF HearTask
  <2>2. d = c => Following(c) = "await"
    BY <1>0, <2>1, FollowingFacts
  <2>3. QED
    BY <1>3, <2>1, <2>2
<1>8. ASSUME NEW d \in Clients, TaskSucceeded(d) PROVE TaskFree(c)'
  <2>1. reply[d].says = "SUCCEEDED"
        /\ ((\E p, t : Proceed(d, p, t)) \/ (\E code, n : End(d, code, n)))
    BY <1>8 DEF TaskSucceeded, Heard
  <2>2. d = c => Following(c) \in {"end", "statistics"}
    BY <1>0, <2>1, FollowingFacts DEF ReplyInv
  <2>3. QED
    BY <1>2, <1>3, <2>1, <2>2
<1>9. ASSUME NEW d \in Clients,
             \/ List(d) \/ NoCommand(d) \/ NoInstance(d)
             \/ Lost(d) \/ Escape(d) \/ Interrupt(d)
             \/ HearQuery(d) \/ HearNothing(d) \/ StreamEnds(d) \/ GiveUp(d) \/ TaskFailed(d)
             \/ HearStatistics(d) \/ RpcError(d)
      PROVE  TaskFree(c)'
  <2>1. \E code, n : End(d, code, n)
    BY <1>9 DEF List, NoCommand, NoInstance, Lost, Escape, TornReply, BadRecord,
       StreamBreaks, Interrupt, HearQuery, HearNothing, StreamEnds, GiveUp, TaskFailed,
       HearStatistics, RpcError
  <2>2. QED
    BY <1>2, <2>1
<1>10. QED
  BY <1>4, <1>5, <1>6, <1>7, <1>8, <1>9 DEF Next, Hear, vars

-----------------------------------------------------------------------------
\* The commands implement ProofVerdict, when what they read is what was written: a
\* status 0 or 1 is the truth about the proof at one moment after the command's
\* own work, for any number of runs, proofs and tasks; only where the server leaves
\* out that a proof is closed may status 1 be given for a closed one.
THEOREM Refinement ==
  ASSUME NoTornRead PROVE Spec => ImplementsProofVerdict
<1>1. Init => Abstract!AbsInit
  <2> SUFFICES ASSUME Init PROVE Abstract!AbsInit
    OBVIOUS
  <2>1. \A p \in Proofs : Truth(p) = "absent"
    BY DEF Init, ServerInit, Truth
  <2>2. \A c \in Clients : Told(c) = "none" /\ Sample(c) = Abstract!NoSample
    BY DEF Init, Told, Sample, NoReply, Abstract!NoSample
  <2>3. [c \in Clients |-> WorkDone(c)] \in [Clients -> BOOLEAN]
    BY Zenon DEF WorkDone
  <2>4. QED
    BY <2>1, <2>2, <2>3 DEF Abstract!AbsInit
<1>2. Init => \A c \in Clients : TaskFree(c)
  BY DEF Init, TaskFree
<1>3. IInv /\ (\A c \in Clients : TaskFree(c)) /\ [Next]_vars
        => (\A c \in Clients : TaskFree(c))'
  BY TaskFreeStep
<1>4. IInv /\ IInv' /\ (\A c \in Clients : TaskFree(c)) /\ [Next]_vars
        => [Abstract!AbsNext]_(Abstract!verdictVars)
  BY StepImplements
<1>5. QED
  BY <1>1, <1>2, <1>3, <1>4, Inductive, PTL
     DEF Spec, ImplementsProofVerdict, Abstract!AbsSpec
=============================================================================
