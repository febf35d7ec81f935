----------------------------- MODULE Cli_proofs -----------------------------
(***************************************************************************)
(* The exit status of key-agent for any number of runs, proofs and tasks.  *)
(***************************************************************************)
EXTENDS Cli, TLAPS

\* What is true of a task row: a task the server knows was started, and a
\* result that says closed is about a closed proof.
TaskInv(t) ==
    /\ t \in live => task[t].status # "NONE"
    /\ task[t].left = "closed" => task[t].proof \in closed
    /\ task[t].status = "SUCCEEDED" /\ task[t].proof \in Proofs =>
           task[t].left \in {"open", "closed"}

ServerInv ==
    /\ ServerTypeOK
    /\ live \cap Proofs \subseteq issued
    /\ \A t \in Tasks : TaskInv(t)

\* What no step of the server takes back: a closed proof, an identifier given to
\* one, the kind of a task and the proof it works on, and the end of one that
\* succeeded.
Grows ==
    /\ closed \subseteq closed'
    /\ issued \subseteq issued'
    /\ \A t \in Tasks : task[t].status # "NONE" =>
          /\ task'[t].status # "NONE"
          /\ task'[t].kind = task[t].kind
          /\ task[t].kind # "REPLAY" => task'[t].proof = task[t].proof
          /\ task[t].status = "SUCCEEDED" => task'[t] = task[t]

-----------------------------------------------------------------------------
(* The server.                                                             *)

LEMMA StartProofStep ==
  ASSUME ServerInv, NEW p \in Proofs, StartProof(p) PROVE ServerInv' /\ Grows
  BY ServerAssumption DEF ServerInv, ServerTypeOK, TaskInv, Grows, StartProof

LEMMA StartTaskStep ==
  ASSUME ServerInv, NEW t \in Tasks, NEW p \in Proofs \cup {None},
         NEW kind \in Kinds, StartTask(t, kind, p)
  PROVE  ServerInv' /\ Grows
<1> USE DEF ServerInv, ServerTypeOK, TaskInv, TaskRows
<1>1. task'[t] = [kind |-> kind, status |-> "RUNNING", proof |-> p, left |-> "NONE"]
  BY DEF StartTask, NoTask
<1>2. \A u \in Tasks : u # t => task'[u] = task[u]
  BY DEF StartTask
<1>3. ServerTypeOK'
  BY DEF StartTask, NoTask
<1>4. Grows
  BY <1>1, <1>2 DEF Grows, StartTask, NoTask
<1>5. \A u \in Tasks : TaskInv(u)'
  BY <1>1, <1>2 DEF StartTask
<1>6. (live \cap Proofs \subseteq issued)'
  BY ServerAssumption DEF StartTask
<1>7. QED
  BY <1>3, <1>4, <1>5, <1>6

LEMMA TaskEndStep ==
  ASSUME ServerInv, NEW t \in Tasks, Succeed(t) \/ Stop(t)
  PROVE  ServerInv' /\ Grows
<1>0. ServerTypeOK /\ live \cap Proofs \subseteq issued /\ \A u \in Tasks : TaskInv(u)
  BY DEF ServerInv
<1>1. CASE Succeed(t)
  <2> DEFINE l == StateOf(task[t].proof)
  <2>1. /\ l \in {"NONE", "open", "closed"}
        /\ l = "closed" => task[t].proof \in closed
        /\ task[t].proof \in Proofs => l \in {"open", "closed"}
    BY ServerAssumption DEF StateOf
  <2> HIDE DEF l
  <2>2. /\ task' = [task EXCEPT ![t] = [task[t] EXCEPT !.status = "SUCCEEDED", !.left = l]]
        /\ task[t].status = "RUNNING"
        /\ UNCHANGED <<up, issued, closed, live>>
    BY <1>0, <1>1 DEF Succeed, Running, l, ServerTypeOK
  <2>3. ServerTypeOK'
    <3>1. [task[t] EXCEPT !.status = "SUCCEEDED", !.left = l] \in TaskRows
      BY <1>0, <2>1 DEF ServerTypeOK, TaskRows, Terminal
    <3>2. task' \in [Tasks -> TaskRows]
      BY <1>0, <2>2, <3>1 DEF ServerTypeOK
    <3>3. QED
      BY <1>0, <2>2, <3>2 DEF ServerTypeOK
  <2>4. \A u \in Tasks : TaskInv(u)'
    BY <1>0, <2>1, <2>2 DEF TaskInv, ServerTypeOK, TaskRows
  <2>5. Grows
    BY <1>0, <2>2 DEF Grows, ServerTypeOK, TaskRows
  <2>6. QED
    BY <1>0, <2>2, <2>3, <2>4, <2>5 DEF ServerInv
<1>2. CASE Stop(t)
  BY <1>2 DEF Stop, ServerInv, ServerTypeOK, TaskInv, TaskRows, Terminal, Grows, Running
<1>3. QED
  BY <1>1, <1>2

LEMMA SucceedReplayStep ==
  ASSUME ServerInv, NEW t \in Tasks, NEW p \in Proofs, SucceedReplay(t, p)
  PROVE  ServerInv' /\ Grows
<1> DEFINE l == IF p \in closed' THEN "closed" ELSE "open"
<1>0. ServerTypeOK /\ live \cap Proofs \subseteq issued /\ \A u \in Tasks : TaskInv(u)
  BY DEF ServerInv
<1>1. /\ l \in {"open", "closed"}
      /\ l = "closed" => p \in closed'
  OBVIOUS
<1> HIDE DEF l
<1>2. /\ task' = [task EXCEPT ![t] = [task[t] EXCEPT !.status = "SUCCEEDED",
                                             !.proof = p, !.left = l]]
      /\ task[t].status = "RUNNING"
      /\ task[t].kind = "REPLAY"
  BY <1>0 DEF SucceedReplay, Running, l, ServerTypeOK
<1>3. /\ issued' = issued \cup {p}
      /\ live' = live \cup {p}
      /\ closed \subseteq closed'
      /\ closed' \subseteq closed \cup {p}
      /\ up' = up
  BY DEF SucceedReplay
<1>4. ServerTypeOK' /\ (live \cap Proofs \subseteq issued)'
  BY <1>0, <1>1, <1>2, <1>3 DEF ServerTypeOK, TaskRows, Terminal
<1>5. \A u \in Tasks : TaskInv(u)'
  BY <1>0, <1>1, <1>2, <1>3, ServerAssumption DEF TaskInv, ServerTypeOK, TaskRows
<1>6. Grows
  BY <1>0, <1>2, <1>3 DEF Grows, ServerTypeOK, TaskRows
<1>7. QED
  BY <1>4, <1>5, <1>6 DEF ServerInv

LEMMA ElsewhereStep ==
  ASSUME ServerInv, Elsewhere PROVE ServerInv' /\ Grows
<1> USE DEF ServerInv, ServerTypeOK, TaskInv, Grows
<1>1. ASSUME NEW p \in Proofs, StartProof(p) PROVE ServerInv' /\ Grows
  BY <1>1, StartProofStep
<1>2. ASSUME NEW p \in Proofs, CloseLastGoal(p) \/ Release(p)
      PROVE  ServerInv' /\ Grows
  BY <1>2 DEF CloseLastGoal, Release
<1>3. ASSUME NEW t \in Tasks, NEW p \in Proofs \cup {None}, NEW kind \in Kinds,
             StartTask(t, kind, p)
      PROVE  ServerInv' /\ Grows
  BY <1>3, StartTaskStep
<1>4. ASSUME NEW t \in Tasks, Succeed(t) \/ Stop(t) PROVE ServerInv' /\ Grows
  BY <1>4, TaskEndStep
<1>5. ASSUME NEW t \in Tasks, NEW p \in Proofs, SucceedReplay(t, p)
      PROVE  ServerInv' /\ Grows
  BY <1>5, SucceedReplayStep
<1>6. ASSUME Crash PROVE ServerInv' /\ Grows
  <2> USE <1>6 DEF Crash, Running, TaskRows, Terminal
  <2>1. \A t \in Tasks : task'[t] \in TaskRows
    OBVIOUS
  <2>2. ServerTypeOK'
    BY <2>1
  <2>3. Grows
    OBVIOUS
  <2>4. \A t \in Tasks : TaskInv(t)'
    OBVIOUS
  <2>5. QED
    BY <2>2, <2>3, <2>4
<1>7. ASSUME Restart PROVE ServerInv' /\ Grows
  BY <1>7 DEF Restart
<1>8. QED
  BY <1>1, <1>2, <1>3, <1>4, <1>5, <1>6, <1>7 DEF Elsewhere, Kinds

-----------------------------------------------------------------------------
(* The plans.                                                              *)

LEMMA CommandNames ==
  Commands = {"prove", "script", "replay", "load", "save", "status", "query", "inspect",
              "watch", "list", "none"}
  BY DEF Commands, Plan

\* Which command can be at which request.
StepInv(c) ==
    /\ step[c] = "start" => cmd[c] = "prove"
    /\ step[c] \in {"submit", "await"} => cmd[c] \in {"prove", "script", "replay", "load"}
    /\ step[c] = "save" => cmd[c] = "save"
    /\ step[c] = "statistics" => cmd[c] \in VerdictCommands
    /\ step[c] = "query" => cmd[c] \in {"query", "inspect"}
    /\ step[c] \in {"open", "stream"} => cmd[c] = "watch"

LEMMA FollowingFacts ==
  ASSUME NEW c \in Clients, cmd[c] \in Commands, StepInv(c)
  PROVE  /\ step[c] = "connect" =>
              Following(c) = IF cmd[c] = "prove" THEN "start"
                             ELSE IF cmd[c] \in {"script", "replay", "load"} THEN "submit"
                             ELSE IF cmd[c] = "save" THEN "save"
                             ELSE IF cmd[c] = "status" THEN "statistics"
                             ELSE IF cmd[c] = "watch" THEN "open"
                             ELSE IF cmd[c] \in {"list", "none"} THEN "end"
                             ELSE "query"
         /\ step[c] = "start" => Following(c) = "submit"
         /\ step[c] = "submit" => Following(c) = "await"
         /\ step[c] = "await" =>
              Following(c) = IF cmd[c] = "load" THEN "end" ELSE "statistics"
         /\ step[c] = "save" => Following(c) = "statistics"
         /\ step[c] = "open" => Following(c) = "stream"
<1> USE CommandNames DEF StepInv, Following, Plan, VerdictCommands
<1>1. CASE cmd[c] = "prove"
  BY <1>1 DEF ProvePlan
<1>2. CASE cmd[c] = "script"
  BY <1>2 DEF ScriptPlan
<1>3. CASE cmd[c] = "replay"
  BY <1>3 DEF ReplayPlan
<1>4. CASE cmd[c] = "load"
  BY <1>4 DEF LoadPlan
<1>5. CASE cmd[c] = "save"
  BY <1>5 DEF SavePlan
<1>6. CASE cmd[c] = "status"
  BY <1>6 DEF StatusPlan
<1>7. CASE cmd[c] \in {"query", "inspect"}
  BY <1>7 DEF QueryPlan, InspectPlan
<1>8. CASE cmd[c] \in {"watch", "list", "none"}
  BY <1>8 DEF WatchPlan, ListPlan, NoPlan
<1>9. QED
  BY <1>1, <1>2, <1>3, <1>4, <1>5, <1>6, <1>7, <1>8

-----------------------------------------------------------------------------
(* The runs.                                                               *)

\* The types of the variables of the runs.
ClientTypeOK ==
    /\ cmd \in [Clients -> Commands]
    /\ step \in [Clients -> Requests \cup {"connect", "stream", "end"}]
    /\ reply \in [Clients -> [says : Says, id : Proofs \cup Tasks \cup {None}]]
    /\ proofOf \in [Clients -> Proofs \cup {None}]
    /\ taskOf \in [Clients -> Tasks \cup {None}]
    /\ waited \in [Clients -> 0..Patience]
    /\ saved \in [Clients -> {"NONE", "open", "closed"}]
    /\ exit \in [Clients -> ExitCodes \cup {"NONE"}]
    /\ printed \in [Clients -> Nat]

\* The task is the one the run asked for, on the proof it asked it for.
Started(c, t) ==
    /\ t \in Tasks
    /\ task[t].status # "NONE"
    /\ task[t].kind = KindOf[cmd[c]]
    /\ cmd[c] \in {"prove", "script"} => task[t].proof = proofOf[c]

\* A reply is an answer to the request the run is at, and was true when given.
ReplyInv(c) ==
    /\ reply[c].says = "ok" /\ step[c] = "start" => reply[c].id \in Proofs
    /\ reply[c].says = "ok" /\ step[c] = "submit" => Started(c, reply[c].id)
    /\ reply[c].says = "SUCCEEDED" =>
           /\ step[c] = "await"
           /\ task[taskOf[c]].status = "SUCCEEDED"
           /\ task[taskOf[c]].proof = reply[c].id
    /\ reply[c].says = "RUNNING" => step[c] = "await"
    /\ reply[c].says \in {"closed", "open", "unsaid"} => step[c] = "statistics"
    /\ reply[c].says = "closed" => proofOf[c] \in closed

\* Statistics are asked only of work that ended well, and a status of 0 is only
\* given for a proof that closed.
RunInv(c) ==
    /\ StepInv(c)
    /\ ReplyInv(c)
    /\ reply[c] # NoReply => step[c] \in Requests
    /\ step[c] # "end" => exit[c] = "NONE"
    /\ step[c] = "await" => Started(c, taskOf[c])
    /\ step[c] = "statistics" => Worked(c)
    /\ exit[c] = "CLOSED" /\ cmd[c] \in VerdictCommands =>
           proofOf[c] \in closed /\ Worked(c)

IInv == ClientTypeOK /\ ServerInv /\ \A c \in Clients : RunInv(c)

\* A step leaves a run where it is.
Same(c) ==
    /\ cmd'[c] = cmd[c] /\ step'[c] = step[c] /\ reply'[c] = reply[c]
    /\ proofOf'[c] = proofOf[c] /\ taskOf'[c] = taskOf[c] /\ exit'[c] = exit[c]

\* Whatever the server does, a run that is not touched keeps its invariant.
LEMMA WorkedFrame ==
  ASSUME NEW c \in Clients, ServerInv, Grows, Worked(c),
         cmd'[c] = cmd[c], proofOf'[c] = proofOf[c], taskOf'[c] = taskOf[c]
  PROVE  Worked(c)'
  BY DEF Worked, Grows

LEMMA StartedFrame ==
  ASSUME NEW c \in Clients, NEW t, Grows, ClientTypeOK, Started(c, t), StepInv(c),
         step[c] \in {"submit", "await"},
         cmd'[c] = cmd[c], proofOf'[c] = proofOf[c]
  PROVE  /\ t \in Tasks
         /\ task'[t].status # "NONE"
         /\ task'[t].kind = KindOf[cmd[c]]
         /\ cmd[c] \in {"prove", "script"} => task'[t].proof = proofOf[c]
<1>1. cmd[c] \in {"prove", "script"} => KindOf[cmd[c]] # "REPLAY"
  BY DEF KindOf
<1>2. QED
  BY <1>1 DEF Started, Grows

LEMMA RunFrame ==
  ASSUME NEW c \in Clients, ClientTypeOK, ServerInv, Grows, RunInv(c), Same(c)
  PROVE  RunInv(c)'
<1>1. StepInv(c)'
  BY DEF RunInv, StepInv, Same
<1>2. step[c] = "await" => Started(c, taskOf[c])'
  BY StartedFrame DEF Same, RunInv, Started
<1>3. step[c] = "submit" /\ reply[c].says = "ok" => Started(c, reply[c].id)'
  BY StartedFrame DEF Same, RunInv, ReplyInv, Started
<1>4. reply[c].says = "SUCCEEDED" =>
          task'[taskOf[c]].status = "SUCCEEDED" /\ task'[taskOf[c]].proof = reply[c].id
  BY DEF RunInv, ReplyInv, Started, Grows
<1>5. ReplyInv(c)'
  BY <1>3, <1>4 DEF RunInv, ReplyInv, Same, Grows
<1>6. step[c] = "statistics" => Worked(c)'
  BY WorkedFrame DEF RunInv, Same
<1>7. exit[c] = "CLOSED" /\ cmd[c] \in VerdictCommands => proofOf[c] \in closed' /\ Worked(c)'
  BY WorkedFrame DEF RunInv, Same, Grows
<1>8. QED
  BY <1>1, <1>2, <1>5, <1>6, <1>7 DEF RunInv, Same

\* A run ends: with 0 only if it may.
LEMMA EndStep ==
  ASSUME IInv, NEW c \in Clients, NEW code \in ExitCodes, NEW n \in {0, 1},
         End(c, code, n),
         code = "CLOSED" /\ cmd[c] \in VerdictCommands =>
             proofOf[c] \in closed /\ Worked(c)
  PROVE  IInv'
<1> USE DEF IInv, End
<1>1. ServerInv' /\ Grows
  BY DEF serverVars, ServerInv, ServerTypeOK, TaskInv, Grows
<1>2. ClientTypeOK'
  BY DEF ClientTypeOK, NoReply, Says
<1>3. RunInv(c)'
  <2>1. /\ step'[c] = "end" /\ exit'[c] = code /\ reply'[c] = NoReply
        /\ UNCHANGED <<cmd, proofOf, taskOf, task, closed>>
    BY DEF ClientTypeOK, serverVars
  <2>2. code = "CLOSED" /\ cmd[c] \in VerdictCommands => Worked(c)'
    BY <2>1 DEF Worked
  <2>3. QED
    BY <2>1, <2>2 DEF RunInv, StepInv, ReplyInv, NoReply
<1>4. ASSUME NEW d \in Clients, d # c PROVE RunInv(d)'
  <2>1. Same(d)
    BY <1>4 DEF Same, ClientTypeOK
  <2>2. QED
    BY <1>1, <2>1, RunFrame
<1>5. QED
  BY <1>1, <1>2, <1>3, <1>4

\* A run goes on to its next request with proof p and task t.
LEMMA ProceedStep ==
  ASSUME IInv, NEW c \in Clients, step[c] # "end",
         NEW p \in Proofs \cup {None}, NEW t \in Tasks \cup {None},
         Proceed(c, p, t),
         step[c] = "connect" => cmd[c] \notin {"list", "none"},
         step[c] = "submit" => Started(c, t) /\ p = proofOf[c],
         step[c] = "await" => cmd[c] # "load",
         step[c] = "await" =>
             /\ t \in Tasks
             /\ task[t].status = "SUCCEEDED"
             /\ task[t].proof = p,
         step[c] \notin {"query", "statistics", "stream"}
  PROVE  IInv'
<1> USE DEF IInv, Proceed
<1>1. ServerInv' /\ Grows
  BY DEF serverVars, ServerInv, ServerTypeOK, TaskInv, Grows
<1>2. cmd[c] \in Commands /\ StepInv(c)
  BY DEF ClientTypeOK, RunInv
<1>3. step[c] \in {"connect", "start", "submit", "await", "save", "open"}
  BY DEF ClientTypeOK, Requests
<1>4. Following(c) \in Requests \cup {"stream"}
  BY <1>2, <1>3, FollowingFacts DEF Requests
<1>5. ClientTypeOK'
  BY <1>4 DEF ClientTypeOK, NoReply, Says
<1>6. RunInv(c)'
  <2>1. /\ step'[c] = Following(c) /\ reply'[c] = NoReply
        /\ proofOf'[c] = p /\ taskOf'[c] = t
        /\ UNCHANGED <<cmd, exit, task, closed>>
    BY DEF ClientTypeOK, serverVars
  <2>2. StepInv(c)'
    BY <1>2, <1>3, <2>1, FollowingFacts, CommandNames DEF StepInv, VerdictCommands
  <2>3. ReplyInv(c)'
    BY <2>1 DEF ReplyInv, NoReply
  <2>4. exit'[c] = "NONE"
    BY <2>1 DEF RunInv
  <2>5. step'[c] = "await" => Started(c, taskOf[c])'
    BY <1>2, <1>3, <2>1, FollowingFacts DEF Started, StepInv
  <2>6. step'[c] = "statistics" => Worked(c)'
    BY <1>2, <1>3, <2>1, FollowingFacts DEF Worked, StepInv
  <2>7. QED
    BY <2>1, <2>2, <2>3, <2>4, <2>5, <2>6 DEF RunInv
<1>7. ASSUME NEW d \in Clients, d # c PROVE RunInv(d)'
  <2>1. Same(d)
    BY <1>7 DEF Same, ClientTypeOK
  <2>2. QED
    BY <1>1, <2>1, RunFrame
<1>8. QED
  BY <1>1, <1>5, <1>6, <1>7

\* The server answers a request of c, and the answer is true.
LEMMA AnswerStep ==
  ASSUME IInv, NEW c \in Clients, ServerInv', Grows,
         NEW says \in Says, NEW id \in Proofs \cup Tasks \cup {None},
         Answer(c, says, id),
         saved' \in [Clients -> {"NONE", "open", "closed"}],
         says = "ok" /\ step[c] = "start" => id \in Proofs,
         says = "ok" /\ step[c] = "submit" =>
             /\ id \in Tasks
             /\ task'[id].status # "NONE"
             /\ task'[id].kind = KindOf[cmd[c]]
             /\ cmd[c] \in {"prove", "script"} => task'[id].proof = proofOf[c],
         says = "SUCCEEDED" =>
             /\ step[c] = "await"
             /\ task'[taskOf[c]].status = "SUCCEEDED"
             /\ task'[taskOf[c]].proof = id,
         says = "RUNNING" => step[c] = "await",
         says \in {"closed", "open", "unsaid"} => step[c] = "statistics",
         says = "closed" => proofOf[c] \in closed'
  PROVE  IInv'
<1> USE DEF IInv, Answer
<1>1. ClientTypeOK'
  BY DEF ClientTypeOK
<1>2. RunInv(c)'
  <2>1. /\ reply'[c] = [says |-> says, id |-> id]
        /\ UNCHANGED <<cmd, step, exit, proofOf, taskOf>>
    BY DEF ClientTypeOK
  <2>2. RunInv(c) /\ step[c] \in Requests
    BY DEF Waiting
  <2>3. StepInv(c)'
    BY <2>1, <2>2 DEF RunInv, StepInv
  <2>4. ReplyInv(c)'
    BY <2>1 DEF ReplyInv, Started
  <2>5. step[c] = "await" => Started(c, taskOf[c])'
    BY <2>1, <2>2, StartedFrame DEF RunInv, Started
  <2>6. step[c] = "statistics" => Worked(c)'
    BY <2>1, <2>2, WorkedFrame DEF RunInv
  <2>7. exit[c] = "NONE"
    BY <2>2 DEF RunInv, Requests
  <2>8. QED
    BY <2>1, <2>2, <2>3, <2>4, <2>5, <2>6, <2>7 DEF RunInv
<1>3. ASSUME NEW d \in Clients, d # c PROVE RunInv(d)'
  <2>1. Same(d)
    BY <1>3 DEF Same, ClientTypeOK
  <2>2. QED
    BY <2>1, RunFrame
<1>4. QED
  BY <1>1, <1>2, <1>3

-----------------------------------------------------------------------------
(* The steps.                                                              *)

LEMMA ServerStutter ==
  ASSUME ServerInv, UNCHANGED serverVars PROVE ServerInv' /\ Grows
  BY DEF serverVars, ServerInv, ServerTypeOK, TaskInv, Grows

LEMMA ServeStep ==
  ASSUME IInv, NEW c \in Clients, Serve(c) PROVE IInv'
<1>0. /\ ClientTypeOK /\ ServerInv /\ RunInv(c)
      /\ {"ok", "error", "open", "closed", "unsaid", "RUNNING"} \cup Terminal \subseteq Says
  BY DEF IInv, Says
<1>1. CASE ServeStart(c)
  <2>1. PICK p \in Proofs : StartProof(p) /\ Answer(c, "ok", p)
    BY <1>1 DEF ServeStart
  <2>2. ServerInv' /\ Grows
    BY <1>0, <2>1, StartProofStep
  <2>3. saved' \in [Clients -> {"NONE", "open", "closed"}] /\ step[c] = "start"
    BY <1>0, <1>1 DEF ServeStart, ClientTypeOK
  <2>4. QED
    BY <1>0, <2>1, <2>2, <2>3, AnswerStep
<1>2. CASE ServeSubmit(c)
  <2>1. PICK t \in Tasks :
            StartTask(t, KindOf[cmd[c]], proofOf[c]) /\ Answer(c, "ok", t)
    BY <1>2 DEF ServeSubmit
  <2>2. KindOf[cmd[c]] \in Kinds /\ proofOf[c] \in Proofs \cup {None} /\ step[c] = "submit"
    BY <1>0, <1>2 DEF ServeSubmit, RunInv, StepInv, KindOf, Kinds, ClientTypeOK
  <2>3. ServerInv' /\ Grows
    BY <1>0, <2>1, <2>2, StartTaskStep
  <2>4. /\ task'[t].status # "NONE"
        /\ task'[t].kind = KindOf[cmd[c]]
        /\ task'[t].proof = proofOf[c]
    <3> HIDE DEF KindOf
    <3>1. QED
      BY <1>0, <2>1 DEF StartTask, NoTask, ServerInv, ServerTypeOK
  <2>5. saved' \in [Clients -> {"NONE", "open", "closed"}]
    BY <1>0, <1>2 DEF ServeSubmit, ClientTypeOK
  <2>6. QED
    BY <1>0, <2>1, <2>2, <2>3, <2>4, <2>5, AnswerStep
<1>3. CASE ServeAwait(c)
  <2>1. /\ Answer(c, task[taskOf[c]].status, task[taskOf[c]].proof)
        /\ step[c] = "await" /\ UNCHANGED serverVars /\ saved' = saved
    BY <1>3 DEF ServeAwait
  <2>2. taskOf[c] \in Tasks /\ task[taskOf[c]] \in TaskRows
        /\ task[taskOf[c]].status # "NONE"
    BY <1>0, <2>1 DEF RunInv, Started, ServerInv, ServerTypeOK
  <2>3. task[taskOf[c]].status \in Terminal \cup {"RUNNING"}
        /\ task[taskOf[c]].proof \in Proofs \cup Tasks \cup {None}
    BY <2>2 DEF TaskRows
  <2>4. task[taskOf[c]].status \notin {"ok", "closed", "open", "unsaid"}
    BY <2>3 DEF Terminal
  <2>5. task' = task
    BY <2>1 DEF serverVars
  <2>6. saved' \in [Clients -> {"NONE", "open", "closed"}]
    BY <1>0, <2>1 DEF ClientTypeOK
  <2>7. QED
    BY <1>0, <2>1, <2>3, <2>4, <2>5, <2>6, ServerStutter, AnswerStep
<1>4. CASE ServeSave(c)
  <2>1. Answer(c, "ok", None) /\ step[c] = "save" /\ UNCHANGED serverVars
    BY <1>4 DEF ServeSave
  <2>2. StateOf(proofOf[c]) \in {"NONE", "open", "closed"}
    BY DEF StateOf
  <2>3. saved' \in [Clients -> {"NONE", "open", "closed"}]
    BY <1>0, <1>4, <2>2 DEF ServeSave, ClientTypeOK
  <2>4. QED
    BY <1>0, <2>1, <2>3, ServerStutter, AnswerStep
<1>5. CASE ServeStatistics(c)
  <2>1. PICK says \in {StateOf(proofOf[c])} \cup (Faults \cap {"unsaid"}) :
            Answer(c, says, None)
    BY <1>5 DEF ServeStatistics
  <2>2. /\ step[c] = "statistics" /\ proofOf[c] \in live
        /\ UNCHANGED serverVars /\ saved' = saved
    BY <1>5 DEF ServeStatistics
  <2>3. proofOf[c] # None
    BY <1>0, <2>2, ServerAssumption DEF ServerInv, ServerTypeOK
  <2>4. says \in {"open", "closed", "unsaid"} /\ (says = "closed" => proofOf[c] \in closed)
    BY <2>1, <2>3 DEF StateOf
  <2>5. closed' = closed
    BY <2>2 DEF serverVars
  <2>6. saved' \in [Clients -> {"NONE", "open", "closed"}]
    BY <1>0, <2>2 DEF ClientTypeOK
  <2>7. says \in Says /\ says # "ok" /\ says # "SUCCEEDED"
    BY <1>0, <2>4
  <2>8. QED
    BY <1>0, <2>1, <2>2, <2>4, <2>5, <2>6, <2>7, ServerStutter, AnswerStep
<1>6. CASE ServeQuery(c)
  <2>1. Answer(c, "ok", None) /\ step[c] \in {"query", "open"} /\ UNCHANGED serverVars
    BY <1>6 DEF ServeQuery
  <2>2. saved' \in [Clients -> {"NONE", "open", "closed"}]
    BY <1>0, <1>6 DEF ServeQuery, ClientTypeOK
  <2>3. QED
    BY <1>0, <2>1, <2>2, ServerStutter, AnswerStep
<1>7. CASE Refuse(c)
  <2>1. Answer(c, "error", None) /\ UNCHANGED serverVars
    BY <1>7 DEF Refuse
  <2>2. saved' \in [Clients -> {"NONE", "open", "closed"}]
    BY <1>0, <1>7 DEF Refuse, ClientTypeOK
  <2>3. QED
    BY <1>0, <2>1, <2>2, ServerStutter, AnswerStep
<1>8. QED
  BY <1>1, <1>2, <1>3, <1>4, <1>5, <1>6, <1>7 DEF Serve

LEMMA ConnectStep ==
  ASSUME IInv, NEW c \in Clients, Connect(c) PROVE IInv'
<1>1. PICK p \in Proofs \cup {None} : Proceed(c, p, None)
  BY DEF Connect, Connecting, IInv, ServerInv, ServerTypeOK
<1>2. step[c] = "connect" /\ cmd[c] \notin {"list", "none"}
  BY DEF Connect, Connecting
<1>3. QED
  BY <1>1, <1>2, ProceedStep

LEMMA HearStep ==
  ASSUME IInv, NEW c \in Clients, Hear(c) PROVE IInv'
<1>0. /\ ClientTypeOK /\ ServerInv /\ RunInv(c) /\ ReplyInv(c) /\ StepInv(c)
      /\ {"CLOSED", "NOT_CLOSED", "FAILED"} \subseteq ExitCodes
      /\ cmd[c] \in Commands
      /\ proofOf[c] \in Proofs \cup {None} /\ taskOf[c] \in Tasks \cup {None}
  BY DEF IInv, RunInv, ExitCodes, ClientTypeOK
<1>1. CASE HearProof(c)
  <2>1. step[c] = "start" /\ reply[c].says = "ok" /\ Proceed(c, reply[c].id, None)
    BY <1>1 DEF HearProof, Heard
  <2>2. reply[c].id \in Proofs
    BY <1>0, <2>1 DEF ReplyInv
  <2>3. QED
    BY <2>1, <2>2, ProceedStep
<1>2. CASE HearTask(c)
  <2>1. step[c] = "submit" /\ reply[c].says = "ok" /\ Proceed(c, proofOf[c], reply[c].id)
    BY <1>2 DEF HearTask, Heard
  <2>2. Started(c, reply[c].id)
    BY <1>0, <2>1 DEF ReplyInv
  <2>3. reply[c].id \in Tasks
    BY <2>2 DEF Started
  <2>4. QED
    BY <1>0, <2>1, <2>2, <2>3, ProceedStep
<1>3. CASE HearSaved(c) \/ HearStream(c)
  <2>1. step[c] \in {"save", "open"} /\ Proceed(c, proofOf[c], None)
    BY <1>3 DEF HearSaved, HearStream
  <2>2. QED
    BY <1>0, <2>1, ProceedStep
<1>4. CASE HearQuery(c) \/ HearNothing(c)
  <2>1. step[c] = "query" /\ End(c, "CLOSED", 1)
    BY <1>4 DEF HearQuery, HearNothing
  <2>2. cmd[c] \notin VerdictCommands
    BY <1>0, <2>1 DEF StepInv, VerdictCommands
  <2>3. QED
    BY <1>0, <2>1, <2>2, EndStep
<1>5. CASE PollAgain(c)
  <2>1. ServerInv' /\ Grows
    BY <1>0, <1>5, ServerStutter DEF PollAgain
  <2>2. ClientTypeOK'
    BY <1>0, <1>5, CliAssumption DEF PollAgain, ClientTypeOK, NoReply, Says
  <2>3. ASSUME NEW d \in Clients PROVE RunInv(d)'
    <3>1. CASE d = c
      <4>1. /\ reply'[c] = NoReply
            /\ UNCHANGED <<cmd, step, proofOf, taskOf, exit, task, closed>>
        BY <1>0, <1>5 DEF PollAgain, ClientTypeOK, serverVars
      <4>2. QED
        BY <1>0, <3>1, <4>1
           DEF RunInv, StepInv, ReplyInv, NoReply, Started, Worked
    <3>2. CASE d # c
      <4>1. Same(d)
        BY <1>0, <1>5, <3>2 DEF PollAgain, Same, ClientTypeOK
      <4>2. QED
        BY <2>1, <4>1, RunFrame DEF IInv
    <3>3. QED
      BY <3>1, <3>2
  <2>4. QED
    BY <2>1, <2>2, <2>3 DEF IInv
<1>6. CASE GiveUp(c) \/ TaskFailed(c) \/ RpcError(c)
  BY <1>0, <1>6, EndStep DEF GiveUp, TaskFailed, RpcError
<1>7. CASE TaskSucceeded(c)
  <2>1. step[c] = "await" /\ reply[c].says = "SUCCEEDED"
        /\ task[taskOf[c]].status = "SUCCEEDED"
        /\ task[taskOf[c]].proof = reply[c].id
        /\ Started(c, taskOf[c])
    BY <1>0, <1>7 DEF TaskSucceeded, Heard, ReplyInv, RunInv
  <2>2. cmd[c] \in {"prove", "script", "replay", "load"}
    BY <1>0, <2>1 DEF StepInv
  <2>3. CASE cmd[c] = "load"
    <3>1. End(c, "CLOSED", 1) /\ cmd[c] \notin VerdictCommands
      BY <1>0, <1>7, <2>1, <2>3, FollowingFacts DEF TaskSucceeded, VerdictCommands
    <3>2. QED
      BY <1>0, <3>1, EndStep
  <2>4. CASE cmd[c] # "load"
    <3> DEFINE found == IF cmd[c] = "replay" THEN reply[c].id ELSE proofOf[c]
    <3>1. Following(c) = "statistics"
      BY <1>0, <2>1, <2>4, FollowingFacts
    <3>2. Proceed(c, found, taskOf[c])
      BY <1>7, <3>1 DEF TaskSucceeded
    <3>3. taskOf[c] \in Tasks /\ task[taskOf[c]].proof = found
      BY <2>1, <2>2, <2>4 DEF Started
    <3>4. found \in Proofs \cup {None}
      BY <1>0, <3>3 DEF ServerInv, ServerTypeOK, TaskRows
    <3> HIDE DEF found
    <3>5. QED
      BY <2>1, <2>4, <3>2, <3>3, <3>4, ProceedStep
  <2>5. QED
    BY <2>3, <2>4
<1>8. CASE HearStatistics(c)
  <2>1. /\ reply[c].says \in {"closed", "open", "unsaid"}
        /\ End(c, Verdict(reply[c].says), 1)
    BY <1>8 DEF HearStatistics, Heard
  <2>2. Verdict(reply[c].says) = "CLOSED" => proofOf[c] \in closed /\ Worked(c)
    BY <1>0, <2>1 DEF Verdict, ReplyInv, RunInv
  <2>3. Verdict(reply[c].says) \in ExitCodes
    BY <1>0 DEF Verdict
  <2>4. QED
    BY <2>1, <2>2, <2>3, EndStep
<1>9. CASE Event(c)
  <2>1. ServerInv' /\ Grows
    BY <1>0, <1>9, ServerStutter DEF Event
  <2>2. ClientTypeOK'
    BY <1>0, <1>9 DEF Event, ClientTypeOK
  <2>3. ASSUME NEW d \in Clients PROVE RunInv(d)'
    <3>1. Same(d)
      BY <1>9 DEF Event, Same
    <3>2. QED
      BY <2>1, <3>1, RunFrame DEF IInv
  <2>4. QED
    BY <2>1, <2>2, <2>3 DEF IInv
<1>10. CASE StreamEnds(c)
  <2>1. step[c] = "stream" /\ End(c, "CLOSED", 0)
    BY <1>10 DEF StreamEnds
  <2>2. cmd[c] \notin VerdictCommands
    BY <1>0, <2>1 DEF StepInv, VerdictCommands
  <2>3. QED
    BY <1>0, <2>1, <2>2, EndStep
<1>11. QED
  BY <1>1, <1>2, <1>3, <1>4, <1>5, <1>6, <1>7, <1>8, <1>9, <1>10 DEF Hear

LEMMA Inductive == Spec => []IInv
<1>1. Init => IInv
  BY ServerAssumption, CliAssumption
     DEF Init, ServerInit, IInv, ClientTypeOK, ServerInv, ServerTypeOK, TaskInv, NoTask,
         TaskRows, RunInv, StepInv, ReplyInv, NoReply, Requests, ExitCodes, Says
<1>2. IInv /\ [Next]_vars => IInv'
  <2> SUFFICES ASSUME IInv, [Next]_vars PROVE IInv'
    OBVIOUS
  <2>1. ASSUME UNCHANGED clientVars, ServerInv', Grows PROVE IInv'
    <3>1. ASSUME NEW c \in Clients PROVE RunInv(c)'
      <4>1. Same(c)
        BY <2>1 DEF clientVars, Same
      <4>2. QED
        BY <2>1, <4>1, RunFrame DEF IInv
    <3>2. ClientTypeOK'
      BY <2>1 DEF IInv, clientVars, ClientTypeOK
    <3>3. QED
      BY <2>1, <3>1, <3>2 DEF IInv
  <2>2. CASE UNCHANGED vars
    BY <2>1, <2>2, ServerStutter DEF vars, IInv
  <2>3. CASE Elsewhere /\ UNCHANGED clientVars
    BY <2>1, <2>3, ElsewhereStep DEF IInv
  <2>4. ASSUME NEW c \in Clients, Serve(c) PROVE IInv'
    BY <2>4, ServeStep
  <2>5. ASSUME NEW c \in Clients, Connect(c) PROVE IInv'
    BY <2>5, ConnectStep
  <2>6. ASSUME NEW c \in Clients, Hear(c) PROVE IInv'
    BY <2>6, HearStep
  <2>7. ASSUME NEW c \in Clients,
               List(c) \/ NoCommand(c) \/ NoInstance(c) \/ Lost(c) \/ Escape(c) \/ Interrupt(c)
        PROVE  IInv'
    BY <2>7, EndStep
       DEF List, NoCommand, Connecting, NoInstance, Lost, Escape, TornReply, BadRecord,
            StreamBreaks, Interrupt, ExitCodes, VerdictCommands
  <2>8. QED
    BY <2>2, <2>3, <2>4, <2>5, <2>6, <2>7 DEF Next
<1>3. QED
  BY <1>1, <1>2, PTL DEF Spec

\* The type of the state, for any number of runs, proofs and tasks.
THEOREM TypeCorrect == Spec => []TypeOK
<1>1. IInv => TypeOK
  BY DEF IInv, ClientTypeOK, ServerInv, TypeOK
<1>2. QED
  BY <1>1, Inductive, PTL

\* Status 0 of a command that answers with the state of a proof: the proof is
\* closed and the command's own work on it ended well, whatever the other
\* clients did, whatever was lost and however often the server died.
THEOREM ExitZeroCorrect == Spec => []ExitZeroMeansClosed
<1>1. IInv => ExitZeroMeansClosed
  BY DEF IInv, RunInv, ExitZeroMeansClosed
<1>2. QED
  BY <1>1, Inductive, PTL

-----------------------------------------------------------------------------
(* Status 1, when what is read is complete.                                *)

\* What is read, a reply or an instance record, is what was written.
NoTornRead == Faults \cap {"torn", "record"} = {}

CompleteReplies == NoTornRead /\ Faults \cap {"unsaid", "reset"} = {}

\* The run's work ended well, and left its proof open.
LeftOpen(c) ==
    /\ cmd[c] \in VerdictCommands
    /\ Worked(c)
    /\ taskOf[c] # None => cmd[c] \in {"prove", "script", "replay"}
                           /\ task[taskOf[c]].left = "open"
    /\ saved[c] # "closed"

\* A file that holds a closed proof was saved of a closed proof; and where the
\* answer open is given, it was open all along.
OpenInv(c) ==
    /\ saved[c] # "NONE" => cmd[c] = "save" /\ step[c] # "connect"
    /\ saved[c] = "closed" => proofOf[c] \in closed
    /\ taskOf[c] # None => cmd[c] \in {"prove", "script", "replay", "load"}
    /\ reply[c].says # "unsaid"
    /\ reply[c].says = "open" => LeftOpen(c)
    /\ exit[c] = "NOT_CLOSED" => LeftOpen(c)

\* A run is of one subcommand.
LEMMA CommandStays == [Next]_vars => cmd' = cmd
<1> SUFFICES ASSUME [Next]_vars PROVE cmd' = cmd
  OBVIOUS
<1>1. CASE UNCHANGED clientVars
  BY <1>1 DEF clientVars
<1>2. ASSUME NEW c \in Clients, Serve(c) PROVE cmd' = cmd
  BY <1>2 DEF Serve, ServeStart, ServeSubmit, ServeAwait, ServeSave, ServeStatistics,
     ServeQuery, Refuse, Answer
<1>3. ASSUME NEW c \in Clients, Hear(c) PROVE cmd' = cmd
  BY <1>3 DEF Hear, HearProof, HearTask, HearSaved, HearQuery, HearNothing, HearStream, Event,
     StreamEnds, PollAgain, GiveUp, TaskSucceeded, TaskFailed, HearStatistics, RpcError,
     Proceed, End
<1>4. ASSUME NEW c \in Clients,
             \/ List(c) \/ NoCommand(c) \/ Connect(c) \/ NoInstance(c)
             \/ Lost(c) \/ Escape(c) \/ Interrupt(c)
      PROVE  cmd' = cmd
  BY <1>4 DEF List, NoCommand, Connect, Connecting, NoInstance, Lost, Escape, TornReply,
       BadRecord, StreamBreaks, Interrupt, Proceed, End
<1>5. QED
  BY <1>1, <1>2, <1>3, <1>4 DEF Next, vars

\* A step of a run and its connection is a step of no other.
LEMMA OthersStay ==
  ASSUME ClientTypeOK, NEW c \in Clients, NEW d \in Clients, d # c,
         \/ Serve(c) \/ List(c) \/ NoCommand(c) \/ Connect(c) \/ NoInstance(c) \/ Hear(c)
         \/ Lost(c) \/ Escape(c) \/ Interrupt(c)
  PROVE  UNCHANGED <<cmd[d], step[d], reply[d], proofOf[d], taskOf[d], waited[d],
                     saved[d], exit[d], printed[d]>>
<1> USE DEF ClientTypeOK
<1>1. CASE Serve(c)
  BY <1>1 DEF Serve, ServeStart, ServeSubmit, ServeAwait, ServeSave, ServeStatistics,
     ServeQuery, Refuse, Answer
<1>2. CASE \/ List(c) \/ NoCommand(c) \/ Connect(c) \/ NoInstance(c)
           \/ Lost(c) \/ Escape(c) \/ Interrupt(c)
  BY <1>2 DEF List, NoCommand, Connect, Connecting, NoInstance, Lost, Escape, TornReply,
       BadRecord, StreamBreaks, Interrupt, Proceed, End
<1>3. CASE Hear(c)
  BY <1>3 DEF Hear, HearProof, HearTask, HearSaved, HearQuery, HearNothing, HearStream, Event,
     StreamEnds, PollAgain, GiveUp, TaskSucceeded, TaskFailed, HearStatistics, RpcError,
     Proceed, End
<1>4. QED
  BY <1>1, <1>2, <1>3

LEMMA StepGrows == IInv /\ [Next]_vars => Grows
<1> SUFFICES ASSUME IInv, [Next]_vars PROVE Grows
  OBVIOUS
<1> USE DEF IInv
<1>1. ASSUME UNCHANGED serverVars PROVE Grows
  BY <1>1, ServerStutter
<1>2. CASE UNCHANGED vars
  BY <1>1, <1>2 DEF vars
<1>3. CASE Elsewhere
  BY <1>3, ElsewhereStep
<1>4. ASSUME NEW c \in Clients, ServeStart(c) PROVE Grows
  BY <1>4, StartProofStep DEF ServeStart
<1>5. ASSUME NEW c \in Clients, ServeSubmit(c) PROVE Grows
  <2>1. KindOf[cmd[c]] \in Kinds /\ proofOf[c] \in Proofs \cup {None}
    BY <1>5 DEF ServeSubmit, RunInv, StepInv, KindOf, Kinds, ClientTypeOK
  <2>2. QED
    BY <1>5, <2>1, StartTaskStep DEF ServeSubmit
<1>6. ASSUME NEW c \in Clients, Serve(c), ~ServeStart(c), ~ServeSubmit(c) PROVE Grows
  BY <1>1, <1>6
     DEF Serve, ServeAwait, ServeSave, ServeStatistics, ServeQuery, Refuse
<1>7. ASSUME NEW c \in Clients,
             \/ List(c) \/ NoCommand(c) \/ Connect(c) \/ NoInstance(c) \/ Hear(c)
             \/ Lost(c) \/ Escape(c) \/ Interrupt(c)
      PROVE  Grows
  BY <1>1, <1>7
     DEF List, NoCommand, Connecting, HearStream, Event, StreamEnds, Connect, NoInstance,
          Hear, Lost, Escape, TornReply, BadRecord, StreamBreaks, Interrupt, HearProof,
          HearTask,
         HearSaved, HearQuery, HearNothing, PollAgain, GiveUp, TaskSucceeded, TaskFailed,
         HearStatistics, RpcError, Proceed, End
<1>8. QED
  BY <1>2, <1>3, <1>4, <1>5, <1>6, <1>7 DEF Next

\* What a run left open it has left open for good.
LEMMA LeftOpenFrame ==
  ASSUME NEW c \in Clients, ClientTypeOK, ServerInv, Grows, LeftOpen(c),
         cmd'[c] = cmd[c], proofOf'[c] = proofOf[c], taskOf'[c] = taskOf[c],
         saved'[c] = saved[c]
  PROVE  LeftOpen(c)'
<1>1. Worked(c)'
  BY WorkedFrame DEF LeftOpen
<1>2. taskOf[c] # None => task'[taskOf[c]] = task[taskOf[c]]
  BY DEF LeftOpen, Worked, Grows
<1>3. QED
  BY <1>1, <1>2 DEF LeftOpen

LEMMA OpenFrame ==
  ASSUME NEW c \in Clients, ClientTypeOK, ServerInv, Grows, OpenInv(c), Same(c),
         saved'[c] = saved[c]
  PROVE  OpenInv(c)'
<1>1. LeftOpen(c) => LeftOpen(c)'
  BY LeftOpenFrame DEF Same
<1>2. QED
  BY <1>1 DEF OpenInv, Same, Grows

\* A step of c, at the run c itself.
LEMMA OpenStep ==
  ASSUME CompleteReplies, IInv, Grows, NEW c \in Clients, OpenInv(c),
         \/ Serve(c) \/ List(c) \/ NoCommand(c) \/ Connect(c) \/ NoInstance(c) \/ Hear(c)
         \/ Lost(c) \/ Escape(c) \/ Interrupt(c)
  PROVE  OpenInv(c)'
<1>0. /\ ClientTypeOK /\ ServerInv /\ RunInv(c) /\ ReplyInv(c) /\ StepInv(c)
      /\ proofOf[c] \in Proofs \cup {None} /\ taskOf[c] \in Tasks \cup {None}
      /\ cmd[c] \in Commands
  BY DEF IInv, RunInv, ClientTypeOK
<1>1. ASSUME NEW code \in ExitCodes, NEW n, End(c, code, n),
             code = "NOT_CLOSED" => LeftOpen(c)
      PROVE  OpenInv(c)'
  <2>1. /\ step'[c] = "end" /\ exit'[c] = code /\ reply'[c] = NoReply
        /\ UNCHANGED <<cmd, proofOf, taskOf, saved, task, closed>>
    BY <1>0, <1>1 DEF End, ClientTypeOK, serverVars
  <2>2. code = "NOT_CLOSED" => LeftOpen(c)'
    BY <1>1, <2>1 DEF LeftOpen, Worked
  <2>3. QED
    BY <2>1, <2>2 DEF OpenInv, NoReply
<1>2. ASSUME NEW p, NEW t \in Tasks \cup {None}, Proceed(c, p, t), exit[c] = "NONE",
             step[c] \in {"connect", "start", "submit", "await", "save", "open"},
             cmd[c] \notin {"list", "none"},
             saved[c] # "NONE" => p = proofOf[c],
             t # None => cmd[c] \in {"prove", "script", "replay", "load"}
      PROVE  OpenInv(c)'
  <2>1. /\ step'[c] = Following(c) /\ reply'[c] = NoReply /\ exit'[c] = "NONE"
        /\ proofOf'[c] = p /\ taskOf'[c] = t
        /\ UNCHANGED <<cmd, saved, task, closed>>
    BY <1>0, <1>2 DEF Proceed, ClientTypeOK, serverVars
  <2>2. Following(c) # "connect"
    BY <1>0, <1>2, FollowingFacts
  <2>3. QED
    BY <1>2, <2>1, <2>2 DEF OpenInv, NoReply
<1>3. CASE Serve(c)
  <2>1. ASSUME NEW says, NEW id, Answer(c, says, id), saved'[c] = saved[c],
               says # "unsaid", says = "open" => LeftOpen(c)
        PROVE  OpenInv(c)'
    <3>1. /\ reply'[c] = [says |-> says, id |-> id]
          /\ UNCHANGED <<cmd, step, exit, proofOf, taskOf>>
      BY <1>0, <2>1 DEF Answer, ClientTypeOK
    <3>2. LeftOpen(c) => LeftOpen(c)'
      BY <1>0, <2>1, <3>1, LeftOpenFrame
    <3>3. QED
      BY <2>1, <3>1, <3>2 DEF OpenInv, Grows
  <2>2. CASE ServeStart(c) \/ ServeSubmit(c) \/ ServeQuery(c) \/ Refuse(c)
    BY <2>1, <2>2 DEF ServeStart, ServeSubmit, ServeQuery, Refuse
  <2>3. CASE ServeAwait(c)
    <3>1. /\ Answer(c, task[taskOf[c]].status, task[taskOf[c]].proof)
          /\ step[c] = "await" /\ saved' = saved
      BY <2>3 DEF ServeAwait
    <3>2. task[taskOf[c]] \in TaskRows
      BY <1>0, <3>1 DEF RunInv, Started, ServerInv, ServerTypeOK
    <3>3. task[taskOf[c]].status \notin {"open", "unsaid"}
      BY <3>2 DEF TaskRows, Terminal
    <3>4. QED
      BY <2>1, <3>1, <3>3
  <2>4. CASE ServeSave(c)
    <3>1. /\ reply'[c] = [says |-> "ok", id |-> None]
          /\ saved'[c] = StateOf(proofOf[c])
          /\ UNCHANGED <<cmd, step, exit, proofOf, taskOf, closed>>
          /\ step[c] = "save"
      BY <1>0, <2>4 DEF ServeSave, Answer, ClientTypeOK, serverVars
    <3>2. saved'[c] = "closed" => proofOf[c] \in closed
      BY <3>1 DEF StateOf
    <3>3. cmd[c] = "save" /\ exit[c] = "NONE"
      BY <1>0, <3>1 DEF StepInv, RunInv
    <3>4. QED
      BY <3>1, <3>2, <3>3 DEF OpenInv
  <2>5. CASE ServeStatistics(c)
    <3>1. Answer(c, StateOf(proofOf[c]), None) /\ saved' = saved
      BY <2>5 DEF ServeStatistics, CompleteReplies
    <3>2. step[c] = "statistics" /\ proofOf[c] \in Proofs
      BY <1>0, <2>5, ServerAssumption DEF ServeStatistics, ServerInv, ServerTypeOK
    <3>3. StateOf(proofOf[c]) # "unsaid"
          /\ (StateOf(proofOf[c]) = "open" => proofOf[c] \notin closed)
      BY DEF StateOf
    <3>4. ASSUME proofOf[c] \notin closed PROVE LeftOpen(c)
      <4>1. cmd[c] \in VerdictCommands /\ Worked(c)
        BY <1>0, <3>2 DEF StepInv, RunInv
      <4>2. saved[c] # "closed"
        BY <3>4 DEF OpenInv
      <4>3. taskOf[c] # None => cmd[c] \in {"prove", "script", "replay"}
        BY <4>1 DEF OpenInv, VerdictCommands
      <4>4. ASSUME taskOf[c] # None PROVE task[taskOf[c]].left = "open"
        BY <1>0, <3>2, <3>4, <4>1, <4>3, <4>4 DEF Worked, ServerInv, TaskInv
      <4>5. QED
        BY <4>1, <4>2, <4>3, <4>4 DEF LeftOpen
    <3>5. QED
      BY <2>1, <3>1, <3>3, <3>4
  <2>6. QED
    BY <1>3, <2>2, <2>3, <2>4, <2>5 DEF Serve
<1>4. CASE Connect(c)
  <2>1. /\ step[c] = "connect" /\ exit[c] = "NONE" /\ cmd[c] \notin {"list", "none"}
        /\ \E p : Proceed(c, p, None)
    BY <1>0, <1>4 DEF Connect, Connecting, RunInv
  <2>2. saved[c] = "NONE"
    BY <2>1 DEF OpenInv
  <2>3. QED
    BY <1>2, <2>1, <2>2
<1>5. CASE \/ List(c) \/ NoCommand(c) \/ StreamEnds(c) \/ NoInstance(c)
           \/ Lost(c) \/ Escape(c) \/ Interrupt(c)
           \/ GiveUp(c) \/ TaskFailed(c) \/ RpcError(c) \/ HearQuery(c) \/ HearNothing(c)
  BY <1>1, <1>5 DEF List, NoCommand, Connecting, StreamEnds, NoInstance, Lost, Escape,
       TornReply, BadRecord, StreamBreaks, Interrupt, GiveUp, TaskFailed, RpcError,
     HearQuery, HearNothing, ExitCodes, NoTornRead, CompleteReplies
<1>6. CASE HearProof(c) \/ HearTask(c) \/ HearSaved(c) \/ HearStream(c)
  <2>1. /\ step[c] \in {"start", "submit", "save", "open"}
        /\ exit[c] = "NONE"
        /\ cmd[c] \notin {"list", "none"}
    BY <1>0, <1>6 DEF HearProof, HearTask, HearSaved, HearStream, RunInv, StepInv
  <2>2. step[c] # "save" => saved[c] = "NONE"
    BY <1>0, <2>1 DEF OpenInv, StepInv
  <2>3. step[c] = "submit" /\ reply[c].says = "ok" => reply[c].id \in Tasks
    BY <1>0 DEF ReplyInv, Started
  <2>4. step[c] = "submit" => cmd[c] \in {"prove", "script", "replay", "load"}
    BY <1>0 DEF StepInv
  <2>5. QED
    BY <1>2, <1>6, <2>1, <2>2, <2>3, <2>4 DEF HearProof, HearTask, HearSaved, HearStream, Heard
<1>7. CASE TaskSucceeded(c)
  <2>1. step[c] = "await" /\ exit[c] = "NONE" /\ cmd[c] \in {"prove", "script", "replay", "load"}
    BY <1>0, <1>7 DEF TaskSucceeded, Heard, ReplyInv, RunInv, StepInv
  <2>2. saved[c] = "NONE"
    BY <2>1 DEF OpenInv
  <2>3. CASE End(c, "CLOSED", 1)
    BY <1>1, <2>3 DEF ExitCodes
  <2>4. CASE \E p : Proceed(c, p, taskOf[c])
    BY <1>0, <1>2, <2>1, <2>2, <2>4
  <2>5. QED
    BY <1>7, <2>3, <2>4 DEF TaskSucceeded
<1>8. CASE PollAgain(c)
  <2>1. reply'[c] = NoReply /\ UNCHANGED <<cmd, step, proofOf, taskOf, saved, exit, task, closed>>
    BY <1>0, <1>8 DEF PollAgain, ClientTypeOK, serverVars
  <2>2. QED
    BY <2>1 DEF OpenInv, NoReply, LeftOpen, Worked
<1>9. CASE HearStatistics(c)
  <2>1. Verdict(reply[c].says) = "NOT_CLOSED" => LeftOpen(c)
    BY <1>9 DEF HearStatistics, Heard, Verdict, OpenInv
  <2>2. End(c, Verdict(reply[c].says), 1) /\ Verdict(reply[c].says) \in ExitCodes
    BY <1>9 DEF HearStatistics, Verdict, ExitCodes
  <2>3. QED
    BY <1>1, <2>1, <2>2
<1>10. CASE Event(c)
  <2>1. UNCHANGED <<cmd, step, reply, proofOf, taskOf, saved, exit, task, closed>>
    BY <1>10 DEF Event, serverVars
  <2>2. QED
    BY <2>1 DEF OpenInv, LeftOpen, Worked
<1>11. QED
  BY <1>3, <1>4, <1>5, <1>6, <1>7, <1>8, <1>9, <1>10 DEF Hear

LEMMA OpenInductive ==
  ASSUME CompleteReplies PROVE Spec => [](\A c \in Clients : OpenInv(c))
<1>1. Init => \A c \in Clients : OpenInv(c)
  BY DEF Init, OpenInv, NoReply
<1>2. IInv /\ (\A c \in Clients : OpenInv(c)) /\ [Next]_vars
        => (\A c \in Clients : OpenInv(c))'
  <2> SUFFICES ASSUME IInv, \A c \in Clients : OpenInv(c), [Next]_vars,
                      NEW d \in Clients
               PROVE  OpenInv(d)'
    OBVIOUS
  <2>1. Grows /\ ClientTypeOK /\ ServerInv
    BY StepGrows DEF IInv
  <2>2. CASE UNCHANGED clientVars
    BY <2>1, <2>2, OpenFrame DEF clientVars, Same
  <2>3. ASSUME NEW c \in Clients,
               \/ Serve(c) \/ List(c) \/ NoCommand(c) \/ Connect(c) \/ NoInstance(c) \/ Hear(c)
               \/ Lost(c) \/ Escape(c) \/ Interrupt(c)
        PROVE  OpenInv(d)'
    <3>1. CASE d = c
      BY <2>1, <2>3, <3>1, OpenStep
    <3>2. CASE d # c
      <4>1. Same(d) /\ saved'[d] = saved[d]
        BY <2>1, <2>3, <3>2, OthersStay DEF Same
      <4>2. QED
        BY <2>1, <4>1, OpenFrame
    <3>3. QED
      BY <3>1, <3>2
  <2>4. QED
    BY <2>2, <2>3 DEF Next, vars
<1>3. QED
  BY <1>1, <1>2, Inductive, PTL DEF Spec

\* Status 1, when whatever is read is complete: the command did its work,
\* the proof was open when the work ended, and a file it saved holds an open one.
THEOREM ExitOneCorrect ==
  ASSUME CompleteReplies PROVE Spec => []ExitOneMeansNotClosed
<1>1. (\A c \in Clients : OpenInv(c)) => ExitOneMeansNotClosed
  BY DEF OpenInv, LeftOpen, ExitOneMeansNotClosed
<1>2. QED
  BY <1>1, OpenInductive, PTL
-----------------------------------------------------------------------------
(* The JSON object of every command, when nothing cuts it short.           *)

CaughtAndSaid == NoTornRead /\ "interrupt" \notin Faults

LEMMA PrintStep ==
  ASSUME CaughtAndSaid, IInv, JsonOneObject, [Next]_vars, NEW c \in Clients,
         cmd[c] \notin {"watch", "none"}
  PROVE  printed'[c] = IF step'[c] = "end" THEN 1 ELSE 0
<1>0. /\ ClientTypeOK /\ RunInv(c) /\ ReplyInv(c) /\ StepInv(c) /\ cmd[c] \in Commands
      /\ printed[c] = IF step[c] = "end" THEN 1 ELSE 0
  BY DEF IInv, RunInv, ClientTypeOK, JsonOneObject
<1>1. ASSUME NEW d \in Clients, NEW code, End(d, code, 1), step[d] # "end"
      PROVE  printed'[c] = IF step'[c] = "end" THEN 1 ELSE 0
  BY <1>0, <1>1 DEF End, ClientTypeOK
<1>2. ASSUME NEW d \in Clients, NEW code, NEW n, End(d, code, n), d # c
      PROVE  printed'[c] = IF step'[c] = "end" THEN 1 ELSE 0
  BY <1>0, <1>2 DEF End, ClientTypeOK
<1>3. ASSUME UNCHANGED <<step, printed>>
      PROVE  printed'[c] = IF step'[c] = "end" THEN 1 ELSE 0
  BY <1>0, <1>3
<1>4. ASSUME NEW d \in Clients, NEW p, NEW t, Proceed(d, p, t), step[d] # "end",
             d = c => Following(c) # "end"
      PROVE  printed'[c] = IF step'[c] = "end" THEN 1 ELSE 0
  BY <1>0, <1>4 DEF Proceed, ClientTypeOK
<1>5. CASE UNCHANGED clientVars
  BY <1>3, <1>5 DEF clientVars
<1>6. ASSUME NEW d \in Clients, Serve(d)
      PROVE  printed'[c] = IF step'[c] = "end" THEN 1 ELSE 0
  BY <1>3, <1>6 DEF Serve, ServeStart, ServeSubmit, ServeAwait, ServeSave, ServeStatistics,
     ServeQuery, Refuse, Answer
<1>7. ASSUME NEW d \in Clients, Connect(d)
      PROVE  printed'[c] = IF step'[c] = "end" THEN 1 ELSE 0
  <2>1. step[d] = "connect" /\ cmd[d] \notin {"list", "none"} /\ \E p, t : Proceed(d, p, t)
    BY <1>7 DEF Connect, Connecting
  <2>2. d = c => Following(c) # "end"
    BY <1>0, <2>1, FollowingFacts
  <2>3. QED
    BY <1>4, <2>1, <2>2
<1>8. ASSUME NEW d \in Clients, HearProof(d) \/ HearTask(d) \/ HearSaved(d) \/ HearStream(d)
      PROVE  printed'[c] = IF step'[c] = "end" THEN 1 ELSE 0
  <2>1. step[d] \in {"start", "submit", "save", "open"} /\ \E p, t : Proceed(d, p, t)
    BY <1>8 DEF HearProof, HearTask, HearSaved, HearStream
  <2>2. d = c => Following(c) # "end"
    BY <1>0, <2>1, FollowingFacts
  <2>3. QED
    BY <1>4, <2>1, <2>2
<1>9. ASSUME NEW d \in Clients, TaskSucceeded(d)
      PROVE  printed'[c] = IF step'[c] = "end" THEN 1 ELSE 0
  <2>1. step[d] # "end"
    BY <1>9 DEF TaskSucceeded, Heard, Requests
  <2>2. CASE Following(d) = "end"
    BY <1>1, <1>9, <2>1, <2>2 DEF TaskSucceeded
  <2>3. CASE Following(d) # "end"
    <3>1. \E p, t : Proceed(d, p, t)
      BY <1>9, <2>3 DEF TaskSucceeded
    <3>2. QED
      BY <1>4, <2>1, <2>3, <3>1
  <2>4. QED
    BY <2>2, <2>3
<1>10. ASSUME NEW d \in Clients, NoCommand(d) \/ Event(d) \/ StreamEnds(d) \/ StreamBreaks(d)
       PROVE  printed'[c] = IF step'[c] = "end" THEN 1 ELSE 0
  <2>1. d # c
    BY <1>0, <1>10 DEF NoCommand, Event, StreamEnds, StreamBreaks, StepInv
  <2>2. CASE Event(d)
    BY <1>0, <2>1, <2>2 DEF Event, ClientTypeOK
  <2>3. CASE NoCommand(d) \/ StreamEnds(d) \/ StreamBreaks(d)
    BY <1>2, <2>1, <2>3 DEF NoCommand, StreamEnds, StreamBreaks
  <2>4. QED
    BY <1>10, <2>2, <2>3
<1>11. ASSUME NEW d \in Clients,
              \/ List(d) \/ NoInstance(d) \/ Lost(d) \/ HearQuery(d) \/ HearNothing(d)
              \/ GiveUp(d)
              \/ TaskFailed(d) \/ HearStatistics(d) \/ RpcError(d)
       PROVE  printed'[c] = IF step'[c] = "end" THEN 1 ELSE 0
  <2>1. step[d] # "end" /\ \E code : End(d, code, 1)
    BY <1>11 DEF List, Connecting, NoInstance, Lost, HearQuery, HearNothing, GiveUp,
         TaskFailed, HearStatistics,
       RpcError, Heard, Requests
  <2>2. QED
    BY <1>1, <2>1
<1>12. ASSUME NEW d \in Clients, PollAgain(d)
       PROVE  printed'[c] = IF step'[c] = "end" THEN 1 ELSE 0
  BY <1>3, <1>12 DEF PollAgain
<1>13. ASSUME NEW d \in Clients PROVE ~TornReply(d) /\ ~BadRecord(d) /\ ~Interrupt(d)
  BY DEF TornReply, BadRecord, Interrupt, NoTornRead, CaughtAndSaid
<1>14. CASE UNCHANGED vars
  BY <1>5, <1>14 DEF vars
<1>15. QED
  BY <1>5, <1>6, <1>7, <1>8, <1>9, <1>10, <1>11, <1>12, <1>13, <1>14 DEF Next, Hear, Escape

\* Under --json every subcommand but watch prints one object, and prints it when it
\* ends, if it is not interrupted and what it reads is what was written.
THEOREM JsonCorrect ==
  ASSUME CaughtAndSaid PROVE Spec => []JsonOneObject
<1>1. Init => JsonOneObject
  BY DEF Init, JsonOneObject
<1>2. IInv /\ JsonOneObject /\ [Next]_vars => JsonOneObject'
  <2> SUFFICES ASSUME IInv, JsonOneObject, [Next]_vars, NEW c \in Clients,
                      cmd'[c] \notin {"watch", "none"}
               PROVE  printed'[c] = IF step'[c] = "end" THEN 1 ELSE 0
    BY DEF JsonOneObject
  <2>1. cmd' = cmd
    BY CommandStays
  <2>2. QED
    BY <2>1, PrintStep
<1>3. QED
  BY <1>1, <1>2, Inductive, PTL DEF Spec
-----------------------------------------------------------------------------
(* What an object on stdout means, whatever goes wrong.                    *)

\* A command that answers with the state of a proof prints nothing before it
\* ends, and after that no status 0 or 1 without its work done.
SaidInv(c) ==
    cmd[c] \in VerdictCommands =>
        /\ step[c] # "end" => printed[c] = 0
        /\ exit[c] \in {"CLOSED", "NOT_CLOSED"} /\ printed[c] > 0 => Worked(c)

LEMMA SaidFrame ==
  ASSUME NEW c \in Clients, ServerInv, Grows, SaidInv(c),
         UNCHANGED <<cmd[c], step[c], proofOf[c], taskOf[c], exit[c], printed[c]>>
  PROVE  SaidInv(c)'
  BY WorkedFrame DEF SaidInv

\* A step of c, at the run c itself.
LEMMA SaidStep ==
  ASSUME IInv, Grows, NEW c \in Clients, SaidInv(c),
         \/ Serve(c) \/ List(c) \/ NoCommand(c) \/ Connect(c) \/ NoInstance(c) \/ Hear(c)
         \/ Lost(c) \/ Escape(c) \/ Interrupt(c)
  PROVE  SaidInv(c)'
<1>0. ClientTypeOK /\ ServerInv /\ RunInv(c) /\ ReplyInv(c) /\ StepInv(c)
  BY DEF IInv, RunInv
<1>1. ASSUME NEW code, NEW n, End(c, code, n), step[c] # "end",
             code \in {"CLOSED", "NOT_CLOSED"} /\ n # 0 /\ cmd[c] \in VerdictCommands
                 => Worked(c)
      PROVE  SaidInv(c)'
  <2>1. /\ step'[c] = "end" /\ exit'[c] = code /\ printed'[c] = printed[c] + n
        /\ UNCHANGED <<cmd, proofOf, taskOf, task, closed>>
    BY <1>0, <1>1 DEF End, ClientTypeOK, serverVars
  <2>2. Worked(c) => Worked(c)'
    BY <2>1 DEF Worked
  <2>3. cmd[c] \in VerdictCommands => printed[c] = 0
    BY <1>1 DEF SaidInv
  <2>4. QED
    BY <1>1, <2>1, <2>2, <2>3 DEF SaidInv
<1>2. ASSUME step[c] # "end", UNCHANGED <<cmd, exit, printed>> PROVE SaidInv(c)'
  <2>1. exit[c] = "NONE"
    BY <1>0, <1>2 DEF RunInv
  <2>2. QED
    BY <1>2, <2>1 DEF SaidInv
<1>3. CASE Serve(c) \/ Connect(c)
  BY <1>2, <1>3
     DEF Serve, ServeStart, ServeSubmit, ServeAwait, ServeSave, ServeStatistics,
         ServeQuery, Refuse, Answer, Waiting, Requests, Connect, Connecting,
         Proceed
<1>4. CASE \/ HearProof(c) \/ HearTask(c) \/ HearSaved(c) \/ HearStream(c) \/ PollAgain(c)
  BY <1>2, <1>4
     DEF HearProof, HearTask, HearSaved, HearStream, PollAgain, Heard, Requests, Proceed
<1>5. CASE \/ NoCommand(c) \/ NoInstance(c) \/ Lost(c) \/ Escape(c) \/ Interrupt(c)
           \/ GiveUp(c) \/ TaskFailed(c) \/ RpcError(c)
  BY <1>1, <1>5 DEF NoCommand, Connecting, NoInstance, Lost, Escape, TornReply, BadRecord,
     StreamBreaks, Interrupt, GiveUp, TaskFailed, RpcError, Heard, Requests
<1>6. CASE List(c) \/ HearQuery(c) \/ HearNothing(c)
  BY <1>0, <1>1, <1>6 DEF List, HearQuery, HearNothing, StepInv, VerdictCommands
<1>7. CASE Event(c) \/ StreamEnds(c)
  <2>1. cmd[c] = "watch" /\ step[c] = "stream"
    BY <1>0, <1>7 DEF Event, StreamEnds, StepInv
  <2>2. cmd' = cmd
    BY <1>7 DEF Event, StreamEnds, End
  <2>3. QED
    BY <2>1, <2>2 DEF SaidInv, VerdictCommands
<1>8. CASE TaskSucceeded(c)
  <2>1. step[c] = "await"
    BY <1>0, <1>8 DEF TaskSucceeded, Heard, ReplyInv
  <2>2. CASE Following(c) = "end"
    <3>1. cmd[c] = "load" /\ End(c, "CLOSED", 1)
      BY <1>0, <1>8, <2>1, <2>2, FollowingFacts DEF TaskSucceeded, ClientTypeOK
    <3>2. QED
      BY <1>1, <2>1, <3>1 DEF VerdictCommands
  <2>3. CASE Following(c) # "end"
    BY <1>2, <1>8, <2>1, <2>3 DEF TaskSucceeded, Proceed
  <2>4. QED
    BY <2>2, <2>3
<1>9. CASE HearStatistics(c)
  <2>1. step[c] = "statistics" /\ End(c, Verdict(reply[c].says), 1)
    BY <1>0, <1>9 DEF HearStatistics, Heard, ReplyInv
  <2>2. Worked(c)
    BY <1>0, <2>1 DEF RunInv
  <2>3. QED
    BY <1>1, <2>1, <2>2
<1>10. QED
  BY <1>3, <1>4, <1>5, <1>6, <1>7, <1>8, <1>9 DEF Hear

\* An object on stdout under status 0 or 1: the work ended well and was on this
\* proof.  Every fault is allowed, the traceback that has status 1 included.
THEOREM ObjectCorrect == Spec => []ObjectMeansSucceeded
<1> DEFINE Said == \A c \in Clients : SaidInv(c)
<1>1. Init => Said
  BY DEF Init, SaidInv
<1>2. IInv /\ Said /\ [Next]_vars => Said'
  <2> SUFFICES ASSUME IInv, Said, [Next]_vars, NEW d \in Clients PROVE SaidInv(d)'
    OBVIOUS
  <2>1. Grows /\ ClientTypeOK /\ ServerInv /\ SaidInv(d)
    BY StepGrows DEF IInv
  <2>2. CASE UNCHANGED clientVars
    BY <2>1, <2>2, SaidFrame DEF clientVars
  <2>3. ASSUME NEW c \in Clients,
               \/ Serve(c) \/ List(c) \/ NoCommand(c) \/ Connect(c) \/ NoInstance(c) \/ Hear(c)
               \/ Lost(c) \/ Escape(c) \/ Interrupt(c)
        PROVE  SaidInv(d)'
    <3>1. CASE d = c
      BY <2>1, <2>3, <3>1, SaidStep
    <3>2. CASE d # c
      BY <2>1, <2>3, <3>2, OthersStay, SaidFrame
    <3>3. QED
      BY <3>1, <3>2
  <2>4. QED
    BY <2>2, <2>3 DEF Next, vars
<1>3. Said => ObjectMeansSucceeded
  BY DEF SaidInv, ObjectMeansSucceeded
<1>4. QED
  BY <1>1, <1>2, <1>3, Inductive, PTL DEF Spec
-----------------------------------------------------------------------------
(* How much a command asks at the most.                                    *)

LEMMA StageFacts ==
  /\ Stage["connect"] = 9 /\ Stage["start"] = 8 /\ Stage["submit"] = 6
  /\ Stage["await"] = 4 /\ Stage["save"] = 4 /\ Stage["statistics"] = 2
  /\ Stage["query"] = 2 /\ Stage["open"] = 3 /\ Stage["stream"] = 1 /\ Stage["end"] = 0
  BY DEF Stage

\* The polls a run has left.
PollsLeft(c) ==
    IF step[c] \in {"connect", "start", "submit", "await"}
    THEN 2 * (Patience - waited[c]) ELSE 0

LEMMA PollsLeftType ==
  ASSUME ClientTypeOK, NEW c \in Clients PROVE PollsLeft(c) \in Nat
<1>1. waited[c] \in 0..Patience /\ Patience \in Nat
  BY CliAssumption DEF ClientTypeOK
<1>2. QED
  BY <1>1 DEF PollsLeft

\* A run that has not ended has something ahead of it.
LEMMA NotOver ==
  ASSUME ClientTypeOK, NEW c \in Clients, RunInv(c), step[c] # "end", cmd[c] # "watch"
  PROVE  Ahead(c) \in Nat /\ Ahead(c) > 0
<1>1. PollsLeft(c) \in Nat
  BY PollsLeftType
<1>2. Ahead(c) = Stage[step[c]] + PollsLeft(c) - (IF reply[c] = NoReply THEN 0 ELSE 1)
  BY DEF Ahead, PollsLeft
<1>3. step[c] \in {"connect", "start", "submit", "await", "save", "statistics", "query"}
  BY DEF ClientTypeOK, Requests, RunInv, StepInv
<1>4. Stage[step[c]] \in Nat /\ Stage[step[c]] >= 2
  BY <1>3, StageFacts
<1> HIDE DEF Ahead
<1>5. QED
  BY <1>1, <1>2, <1>4

\* What a run has ahead of it is a number, so it cannot become less for ever.
AheadIsNat == \A c \in Clients : cmd[c] # "watch" => Ahead(c) \in Nat

LEMMA AheadNat == IInv => AheadIsNat
<1> SUFFICES ASSUME IInv, NEW c \in Clients, cmd[c] # "watch" PROVE Ahead(c) \in Nat
  BY DEF AheadIsNat
<1>1. CASE step[c] # "end"
  BY <1>1, NotOver DEF IInv
<1>2. CASE step[c] = "end"
  <2>1. reply[c] = NoReply
    BY <1>2 DEF IInv, RunInv, Requests
  <2>2. Ahead(c) = 0
    BY <1>2, <2>1, StageFacts DEF Ahead
  <2>3. QED
    BY <2>2
<1>3. QED
  BY <1>1, <1>2

LEMMA EndAhead ==
  ASSUME ClientTypeOK, NEW c \in Clients, RunInv(c), step[c] # "end", cmd[c] # "watch",
         NEW code, NEW n, End(c, code, n)
  PROVE  Ahead(c)' < Ahead(c)
<1>1. step'[c] = "end" /\ reply'[c] = NoReply
  BY DEF End, ClientTypeOK
<1>2. Ahead(c)' = 0
  BY <1>1, StageFacts DEF Ahead, NoReply
<1>3. Ahead(c) \in Nat /\ Ahead(c) > 0
  BY NotOver
<1>4. QED
  BY <1>2, <1>3

LEMMA ProceedAhead ==
  ASSUME ClientTypeOK, NEW c \in Clients, RunInv(c), cmd[c] # "watch",
         step[c] \in {"connect", "start", "submit", "await", "save"},
         step[c] = "connect" => cmd[c] \notin {"list", "none"},
         step[c] = "await" => cmd[c] # "load",
         step[c] # "connect" => reply[c] # NoReply,
         NEW p, NEW t, Proceed(c, p, t)
  PROVE  Ahead(c)' < Ahead(c)
<1>0. cmd[c] \in Commands /\ StepInv(c) /\ waited[c] \in 0..Patience /\ Patience \in Nat
  BY CliAssumption DEF ClientTypeOK, RunInv
<1>1. step'[c] = Following(c) /\ reply'[c] = NoReply /\ waited'[c] = waited[c]
  BY DEF Proceed, ClientTypeOK
<1>2. Ahead(c)' = Stage[Following(c)] + PollsLeft(c)'
  <2>1. NoReply' = NoReply
    BY DEF NoReply
  <2>2. Stage[Following(c)] + PollsLeft(c)' - 0 = Stage[Following(c)] + PollsLeft(c)'
    <3>1. PollsLeft(c)' \in Nat
      BY <1>0, <1>1 DEF PollsLeft
    <3>2. Stage[Following(c)] \in Nat
      BY <1>0, FollowingFacts, StageFacts
    <3>3. QED
      BY <3>1, <3>2
  <2>3. QED
    BY <1>1, <2>1, <2>2 DEF Ahead, PollsLeft, Stage
<1>3. Ahead(c) = Stage[step[c]] + PollsLeft(c) - (IF reply[c] = NoReply THEN 0 ELSE 1)
  BY DEF Ahead, PollsLeft
<1>4. PollsLeft(c) \in Nat /\ PollsLeft(c)' \in Nat
  BY <1>0, <1>1 DEF PollsLeft
<1>5. PollsLeft(c)' <= PollsLeft(c)
  BY <1>0, <1>1, FollowingFacts DEF PollsLeft
<1>6. CASE step[c] = "connect"
  <2>1. reply[c] = NoReply
    BY <1>6 DEF RunInv, Requests
  <2>2. Stage[Following(c)] \in 0..8
    BY <1>0, <1>6, FollowingFacts, StageFacts, CommandNames
  <2>3. QED
    BY <1>2, <1>3, <1>4, <1>5, <1>6, <2>1, <2>2, StageFacts
<1>7. CASE step[c] # "connect"
  <2>1. Stage[Following(c)] \in Nat /\ Stage[step[c]] \in Nat
        /\ Stage[Following(c)] <= Stage[step[c]] - 2
    BY <1>0, <1>7, FollowingFacts, StageFacts
  <2>2. QED
    BY <1>2, <1>3, <1>4, <1>5, <1>7, <2>1
<1>8. QED
  BY <1>6, <1>7

LEMMA AnswerAhead ==
  ASSUME ClientTypeOK, NEW c \in Clients, NEW says, NEW id, Answer(c, says, id),
         says # "none"
  PROVE  Ahead(c)' < Ahead(c)
<1>1. /\ step'[c] = step[c] /\ waited'[c] = waited[c]
      /\ reply[c] = NoReply /\ reply'[c] # NoReply
      /\ step[c] \in Requests
  BY DEF Answer, Waiting, ClientTypeOK, NoReply
<1>2. PollsLeft(c) \in Nat /\ PollsLeft(c)' = PollsLeft(c)
  BY <1>1, PollsLeftType DEF PollsLeft
<1>3. Stage[step[c]] \in Nat
  BY <1>1, StageFacts DEF Requests
<1>4. Ahead(c) = Stage[step[c]] + PollsLeft(c) - 0
  BY <1>1 DEF Ahead, PollsLeft
<1>5. Ahead(c)' = Stage[step[c]] + PollsLeft(c)' - 1
  <2>1. reply'[c] # NoReply'
    BY <1>1 DEF NoReply
  <2>2. QED
    BY <1>1, <2>1 DEF Ahead, PollsLeft, Stage
<1>6. QED
  BY <1>2, <1>3, <1>4, <1>5

\* A step of c brings c nearer to its end.
LEMMA OwnStepAhead ==
  ASSUME IInv, NEW c \in Clients, cmd[c] # "watch",
         \/ Serve(c) \/ List(c) \/ NoCommand(c) \/ Connect(c) \/ NoInstance(c) \/ Hear(c)
         \/ Lost(c) \/ Escape(c) \/ Interrupt(c)
  PROVE  Ahead(c)' < Ahead(c)
<1>0. /\ ClientTypeOK /\ ServerInv /\ RunInv(c) /\ ReplyInv(c) /\ StepInv(c)
  BY DEF IInv, RunInv
<1>1. CASE Serve(c)
  <2>1. CASE ServeStart(c) \/ ServeSubmit(c) \/ ServeSave(c) \/ ServeQuery(c) \/ Refuse(c)
    BY <1>0, <2>1, AnswerAhead DEF ServeStart, ServeSubmit, ServeSave, ServeQuery, Refuse
  <2>2. CASE ServeAwait(c)
    <3>1. /\ Answer(c, task[taskOf[c]].status, task[taskOf[c]].proof)
          /\ step[c] = "await"
      BY <2>2 DEF ServeAwait
    <3>2. task[taskOf[c]] \in TaskRows
      BY <1>0, <3>1 DEF RunInv, Started, ServerInv, ServerTypeOK
    <3>3. task[taskOf[c]].status # "none"
      BY <3>2 DEF TaskRows, Terminal
    <3>4. QED
      BY <1>0, <3>1, <3>3, AnswerAhead
  <2>3. CASE ServeStatistics(c)
    <3>1. PICK says \in {StateOf(proofOf[c])} \cup (Faults \cap {"unsaid"}) :
              Answer(c, says, None)
      BY <2>3 DEF ServeStatistics
    <3>2. says # "none"
      BY <3>1 DEF StateOf
    <3>3. QED
      BY <1>0, <3>1, <3>2, AnswerAhead
  <2>4. QED
    BY <1>1, <2>1, <2>2, <2>3 DEF Serve
<1>2. CASE Connect(c)
  <2>1. step[c] = "connect" /\ cmd[c] \notin {"list", "none"} /\ \E p, t : Proceed(c, p, t)
    BY <1>2 DEF Connect, Connecting
  <2>2. QED
    BY <1>0, <2>1, ProceedAhead
<1>3. CASE HearProof(c) \/ HearTask(c) \/ HearSaved(c)
  <2>1. /\ step[c] \in {"start", "submit", "save"} /\ reply[c] # NoReply
        /\ \E p, t : Proceed(c, p, t)
    BY <1>3 DEF HearProof, HearTask, HearSaved, Heard, NoReply
  <2>2. QED
    BY <1>0, <2>1, ProceedAhead
<1>4. CASE HearStream(c) \/ Event(c) \/ StreamEnds(c)
  BY <1>0, <1>4 DEF HearStream, Event, StreamEnds, StepInv
<1>5. CASE \/ List(c) \/ NoCommand(c) \/ NoInstance(c) \/ Lost(c) \/ Escape(c) \/ Interrupt(c)
           \/ HearQuery(c) \/ HearNothing(c) \/ GiveUp(c) \/ TaskFailed(c)
           \/ HearStatistics(c) \/ RpcError(c)
  <2>1. step[c] # "end" /\ \E code, n : End(c, code, n)
    BY <1>5 DEF List, NoCommand, Connecting, NoInstance, Lost, Escape, TornReply,
         BadRecord, StreamBreaks, Interrupt, HearQuery, HearNothing, GiveUp, TaskFailed,
       HearStatistics, RpcError, Heard, Requests
  <2>2. QED
    BY <1>0, <2>1, EndAhead
<1>6. CASE TaskSucceeded(c)
  <2>1. step[c] = "await" /\ reply[c] # NoReply
    BY <1>0, <1>6 DEF TaskSucceeded, Heard, ReplyInv, NoReply
  <2>2. CASE Following(c) = "end"
    BY <1>0, <1>6, <2>1, <2>2, EndAhead DEF TaskSucceeded
  <2>3. CASE Following(c) # "end"
    <3>1. cmd[c] # "load"
      BY <1>0, <2>1, <2>3, FollowingFacts DEF ClientTypeOK
    <3>2. \E p, t : Proceed(c, p, t)
      BY <1>6, <2>3 DEF TaskSucceeded
    <3>3. QED
      BY <1>0, <2>1, <3>1, <3>2, ProceedAhead
  <2>4. QED
    BY <2>2, <2>3
<1>7. CASE PollAgain(c)
  <2>1. /\ step[c] = "await" /\ step'[c] = "await"
        /\ reply[c] # NoReply /\ reply'[c] = NoReply
        /\ waited[c] < Patience /\ waited'[c] = waited[c] + 1
        /\ waited[c] \in Nat /\ Patience \in Nat
    BY <1>0, <1>7, CliAssumption
       DEF PollAgain, Heard, ReplyInv, ClientTypeOK, NoReply
  <2>2. Ahead(c) = 4 + 2 * (Patience - waited[c]) - 1
    BY <2>1, StageFacts DEF Ahead
  <2>3. Ahead(c)' = 4 + 2 * (Patience - (waited[c] + 1)) - 0
    BY <2>1, StageFacts DEF Ahead, NoReply
  <2>4. QED
    BY <2>1, <2>2, <2>3
<1>8. QED
  BY <1>1, <1>2, <1>3, <1>4, <1>5, <1>6, <1>7 DEF Hear

\* Whatever happens, all that a command but watch does uses up a request of its
\* plan or a poll of --wait, of which it has finitely many.
THEOREM RequestsBoundedCorrect == Spec => RequestsBounded
<1>1. AheadIsNat /\ AheadIsNat' /\ IInv /\ [Next]_vars =>
        [\A c \in Clients :
            cmd[c] # "watch" /\ OfRun(c)' # OfRun(c) => Ahead(c)' \in 0 .. Ahead(c) - 1]_vars
  <2> SUFFICES ASSUME AheadIsNat, AheadIsNat', IInv, [Next]_vars, NEW d \in Clients,
                      cmd[d] # "watch", OfRun(d)' # OfRun(d)
               PROVE  Ahead(d)' < Ahead(d)
    <3>1. ASSUME AheadIsNat, AheadIsNat', [Next]_vars, NEW c \in Clients, cmd[c] # "watch"
          PROVE  Ahead(c) \in Nat /\ Ahead(c)' \in Nat
      BY <3>1, CommandStays DEF AheadIsNat
    <3>2. QED
      BY <3>1
  <2>1. ~UNCHANGED clientVars
    BY DEF clientVars, OfRun
  <2>2. ASSUME NEW c \in Clients,
               \/ Serve(c) \/ List(c) \/ NoCommand(c) \/ Connect(c) \/ NoInstance(c) \/ Hear(c)
               \/ Lost(c) \/ Escape(c) \/ Interrupt(c)
        PROVE  Ahead(d)' < Ahead(d)
    <3>1. d = c
      BY <2>2, OthersStay DEF OfRun, IInv
    <3>2. QED
      BY <2>2, <3>1, OwnStepAhead
  <2>3. QED
    BY <2>1, <2>2 DEF Next, vars
<1>2. QED
  BY <1>1, AheadNat, Inductive, PTL DEF Spec, RequestsBounded
=============================================================================
