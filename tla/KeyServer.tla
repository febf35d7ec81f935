----------------------------- MODULE KeyServer -----------------------------
(***************************************************************************)
(* The KeY server as its clients see it.  It is another program: what is   *)
(* here is what the client's calls, error codes and documentation rely on. *)
(*                                                                         *)
(* A server holds proofs and tasks under random identifiers that are never *)
(* used twice.  Work on a proof runs as a task, one per proof at a time,   *)
(* and outlives the call that started it; a proof that is closed stays     *)
(* closed, for nothing that is done to it, prune included, is accepted     *)
(* after that.  All of it is shared by every client and lost in a crash.   *)
(***************************************************************************)
EXTENDS Naturals

CONSTANTS
    Proofs,         \* the identifiers a proof can get
    Tasks,          \* the identifiers a task can get
    None            \* no proof, no task

ASSUME ServerAssumption ==
    None \notin Proofs \cup Tasks /\ Proofs \cap Tasks = {}

VARIABLES
    up,             \* whether the server process exists
    issued,         \* the proofs ever created
    closed,         \* the proofs ever closed
    live,           \* the proofs and tasks the server still knows
    task            \* task[t]: one row of the task table

serverVars == <<up, issued, closed, live, task>>

-----------------------------------------------------------------------------
Kinds    == {"LOAD", "REPLAY", "AUTO", "SCRIPT"}
Terminal == {"SUCCEEDED", "FAILED", "CANCELLED"}

\* proof is what the task works on, or the proof a replay produced; left is
\* what its result says of that proof: the statistics at the end of the work.
NoTask == [kind |-> "NONE", status |-> "NONE", proof |-> None, left |-> "NONE"]

TaskRows == [kind : Kinds \cup {"NONE"},
             status : Terminal \cup {"NONE", "RUNNING"},
             proof : Proofs \cup {None},
             left : {"NONE", "open", "closed"}]

ServerTypeOK ==
    /\ up \in BOOLEAN
    /\ issued \subseteq Proofs
    /\ closed \subseteq issued
    /\ live \subseteq Proofs \cup Tasks
    /\ task \in [Tasks -> TaskRows]

ServerInit ==
    /\ up = TRUE
    /\ issued = {}
    /\ closed = {}
    /\ live = {}
    /\ task = [t \in Tasks |-> NoTask]

-----------------------------------------------------------------------------
Running(t) == task[t].status = "RUNNING"

Busy(p) == \E t \in Tasks : Running(t) /\ task[t].proof = p

StateOf(p) == IF p = None THEN "NONE"
              ELSE IF p \in closed THEN "closed" ELSE "open"

\* proof.start, for a contract of a loaded project.
StartProof(p) ==
    /\ p \in Proofs \ issued
    /\ issued' = issued \cup {p}
    /\ live' = live \cup {p}
    /\ UNCHANGED <<up, closed, task>>

\* A task is accepted.  A second one on the same proof is a TASK_CONFLICT.
StartTask(t, kind, p) ==
    /\ task[t] = NoTask
    /\ p # None => p \in live /\ ~Busy(p)
    /\ task' = [task EXCEPT ![t].kind = kind,
                            ![t].status = "RUNNING",
                            ![t].proof = p]
    /\ live' = live \cup {t}
    /\ UNCHANGED <<up, issued, closed>>

\* The last goal of a proof closes: a task on it got there, or a rule that some
\* client applied directly.
CloseLastGoal(p) ==
    /\ p \in live \ closed
    /\ closed' = closed \cup {p}
    /\ UNCHANGED <<up, issued, live, task>>

\* A task ends with its work done.  SUCCEEDED says nothing about the proof.
Succeed(t) ==
    /\ Running(t)
    /\ task[t].kind # "REPLAY"
    /\ task' = [task EXCEPT ![t].status = "SUCCEEDED",
                            ![t].left = StateOf(task[t].proof)]
    /\ UNCHANGED <<up, issued, closed, live>>

\* A saved proof replayed completely; it may have been saved open.
SucceedReplay(t, p) ==
    /\ Running(t)
    /\ task[t].kind = "REPLAY"
    /\ p \in Proofs \ issued
    /\ issued' = issued \cup {p}
    /\ live' = live \cup {p}
    /\ closed' \in {closed, closed \cup {p}}
    /\ task' = [task EXCEPT ![t].status = "SUCCEEDED",
                            ![t].proof = p,
                            ![t].left =
                                IF p \in closed' THEN "closed" ELSE "open"]
    /\ UNCHANGED up

\* It throws, or someone cancelled it.
Stop(t) ==
    /\ Running(t)
    /\ \E s \in {"FAILED", "CANCELLED"} : task' = [task EXCEPT ![t].status = s]
    /\ UNCHANGED <<up, issued, closed, live>>

\* proof.close or environment.close, by whoever likes.
Release(p) ==
    /\ p \in live
    /\ live' = live \ {p}
    /\ UNCHANGED <<up, issued, closed, task>>

Crash ==
    /\ up
    /\ up' = FALSE
    /\ live' = {}
    /\ task' = [t \in Tasks |->
                    IF Running(t) THEN [task[t] EXCEPT !.status = "FAILED"] ELSE task[t]]
    /\ UNCHANGED <<issued, closed>>

Restart ==
    /\ ~up
    /\ up' = TRUE
    /\ UNCHANGED <<issued, closed, live, task>>

-----------------------------------------------------------------------------
\* What the server does between two requests of one client: its own work and
\* whatever the other clients ask of it, a request its sender has given up on
\* included.
Elsewhere ==
    \/ /\ up
       /\ \/ \E p \in Proofs : StartProof(p) \/ CloseLastGoal(p) \/ Release(p)
          \/ \E t \in Tasks, p \in Proofs :
                 StartTask(t, "AUTO", p) \/ StartTask(t, "SCRIPT", p)
          \/ \E t \in Tasks : StartTask(t, "LOAD", None)
                              \/ StartTask(t, "REPLAY", None)
          \/ \E t \in Tasks : Succeed(t) \/ Stop(t)
          \/ \E t \in Tasks, p \in Proofs : SucceedReplay(t, p)
    \/ Crash
    \/ Restart
=============================================================================
