-------------------------------- MODULE Cli --------------------------------
(***************************************************************************)
(* The key-agent command line, src/keyclient/cli.py: what each subcommand  *)
(* asks of the server and in which order, and the exit status and JSON     *)
(* object it ends with, while the server works on and other clients use    *)
(* the same proofs.                                                        *)
(*                                                                         *)
(* A subcommand is a sequence of requests, each answered before the next   *)
(* is made.  The server carries a request out and puts the reply on the    *)
(* wire in one step (Serve); the command hears it in another (Hear), and   *)
(* anything may happen in between.                                         *)
(***************************************************************************)
EXTENDS KeyServer

CONSTANTS
    Clients,        \* the runs of key-agent
    Patience,       \* the polls that fit into --wait
    Events,         \* the events a watch is followed for
    Faults          \* what may go wrong besides a lost or late reply

\* "torn": a reply not recognised as broken (outcomes "escaped" and "nothing" of
\* RpcTransport); "record": an instance record that is not (Escape of Discovery);
\* "reset": an event stream that breaks off or brings what is no event;
\* "unsaid": statistics without the member closed; "interrupt": Ctrl-C.
ASSUME CliAssumption ==
    /\ Patience \in Nat /\ Events \in Nat
    /\ Faults \subseteq {"torn", "record", "reset", "unsaid", "interrupt"}

VARIABLES
    cmd,            \* cmd[c]: the subcommand c runs
    step,           \* step[c]: the request it is at
    reply,          \* reply[c]: the reply on the wire, if there is one
    proofOf,        \* proofOf[c]: the proof the run is about
    taskOf,         \* taskOf[c]: the task it waits for
    waited,         \* waited[c]: how often it polled in vain
    saved,          \* saved[c]: the state of the proof when its file was written
    exit,           \* exit[c]: the exit status
    printed         \* printed[c]: the JSON objects on stdout, under --json

clientVars == <<cmd, step, reply, proofOf, taskOf, waited, saved, exit, printed>>
vars == <<serverVars, clientVars>>

-----------------------------------------------------------------------------
(* The subcommands: after which request comes which.                       *)

ProvePlan  == [connect |-> "start", start |-> "submit", submit |-> "await",
               await |-> "statistics", statistics |-> "end"]
\* Mutant: asks the proof without waiting for the script to end.
ScriptPlanWithoutAwait == [connect |-> "submit", submit |-> "statistics",
                           statistics |-> "end"]

ScriptPlan == [connect |-> "submit", submit |-> "await",
               await |-> "statistics", statistics |-> "end"]
ReplayPlan == [connect |-> "submit", submit |-> "await",
               await |-> "statistics", statistics |-> "end"]
LoadPlan   == [connect |-> "submit", submit |-> "await", await |-> "end"]
SavePlan   == [connect |-> "save", save |-> "statistics", statistics |-> "end"]
StatusPlan == [connect |-> "statistics", statistics |-> "end"]

\* version and obligations; and goals, sequent and explain, of a proof.
QueryPlan   == [connect |-> "query", query |-> "end"]
InspectPlan == [connect |-> "query", query |-> "end"]
WatchPlan   == [connect |-> "open", open |-> "stream", stream |-> "end"]
ListPlan    == [connect |-> "end"]
NoPlan      == [connect |-> "end"]      \* no subcommand is given

Plan == [prove |-> ProvePlan, script |-> ScriptPlan, replay |-> ReplayPlan,
         load |-> LoadPlan, save |-> SavePlan, status |-> StatusPlan,
         query |-> QueryPlan, inspect |-> InspectPlan,
         watch |-> WatchPlan, list |-> ListPlan, none |-> NoPlan]

Commands == DOMAIN Plan

\* Those that answer with the state of a proof, and those that name one.
VerdictCommands == {"prove", "script", "replay", "save", "status"}
ProofArguments  == {"script", "save", "status", "inspect"}

KindOf == [prove |-> "AUTO", script |-> "SCRIPT",
           replay |-> "REPLAY", load |-> "LOAD"]

Following(c) == Plan[cmd[c]][step[c]]

\* Those that need a server.
Connecting(c) == step[c] = "connect" /\ cmd[c] \notin {"list", "none"}

Requests == {"start", "submit", "await", "save", "statistics", "query", "open"}

\* What a reply says: of a request, of a task, of a proof.
Says == {"none", "ok", "error", "RUNNING", "closed", "open", "unsaid"} \cup Terminal

NoReply == [says |-> "none", id |-> None]

ExitCodes == {"CLOSED", "NOT_CLOSED", "FAILED"}     \* 0, 1 and 2

-----------------------------------------------------------------------------
Init ==
    /\ ServerInit
    /\ cmd \in [Clients -> Commands]
    /\ step = [c \in Clients |-> "connect"]
    /\ reply = [c \in Clients |-> NoReply]
    /\ proofOf = [c \in Clients |-> None]
    /\ taskOf = [c \in Clients |-> None]
    /\ waited = [c \in Clients |-> 0]
    /\ saved = [c \in Clients |-> "NONE"]
    /\ exit = [c \in Clients |-> "NONE"]
    /\ printed = [c \in Clients |-> 0]

-----------------------------------------------------------------------------
(* The server's side of a request.                                         *)

Waiting(c) == up /\ step[c] \in Requests /\ reply[c] = NoReply

Answer(c, says, id) ==
    /\ Waiting(c)
    /\ reply' = [reply EXCEPT ![c] = [says |-> says, id |-> id]]
    /\ UNCHANGED <<cmd, step, proofOf, taskOf, waited, exit, printed>>

ServeStart(c) ==
    /\ step[c] = "start"
    /\ \E p \in Proofs : StartProof(p) /\ Answer(c, "ok", p)
    /\ UNCHANGED saved

\* environment.load and proof.loadFile are about no proof yet.
ServeSubmit(c) ==
    /\ step[c] = "submit"
    /\ \E t \in Tasks :
          StartTask(t, KindOf[cmd[c]], proofOf[c]) /\ Answer(c, "ok", t)
    /\ UNCHANGED saved

ServeAwait(c) ==
    /\ step[c] = "await"
    /\ taskOf[c] \in live
    /\ Answer(c, task[taskOf[c]].status, task[taskOf[c]].proof)
    /\ UNCHANGED <<serverVars, saved>>

ServeSave(c) ==
    /\ step[c] = "save"
    /\ proofOf[c] \in live
    /\ Answer(c, "ok", None)
    /\ saved' = [saved EXCEPT ![c] = StateOf(proofOf[c])]
    /\ UNCHANGED serverVars

ServeStatistics(c) ==
    /\ step[c] = "statistics"
    /\ proofOf[c] \in live
    /\ \E says \in {StateOf(proofOf[c])} \cup (Faults \cap {"unsaid"}) :
          Answer(c, says, None)
    /\ UNCHANGED <<serverVars, saved>>

\* The event stream is opened like any other request.
ServeQuery(c) ==
    /\ step[c] \in {"query", "open"}
    /\ Answer(c, "ok", None)
    /\ UNCHANGED <<serverVars, saved>>

\* The proof or the task is gone, the proof is busy, the argument is wrong.
Refuse(c) ==
    /\ Answer(c, "error", None)
    /\ UNCHANGED <<serverVars, saved>>

Serve(c) ==
    \/ ServeStart(c) \/ ServeSubmit(c) \/ ServeAwait(c) \/ ServeSave(c)
    \/ ServeStatistics(c) \/ ServeQuery(c) \/ Refuse(c)

-----------------------------------------------------------------------------
(* The command.                                                            *)

\* It is over: the exit status, and the objects --json still had to print.
End(c, code, objects) ==
    /\ step' = [step EXCEPT ![c] = "end"]
    /\ exit' = [exit EXCEPT ![c] = code]
    /\ printed' = [printed EXCEPT ![c] = @ + objects]
    /\ reply' = [reply EXCEPT ![c] = NoReply]
    /\ UNCHANGED <<serverVars, cmd, proofOf, taskOf, waited, saved>>

\* The next request, with what the last one brought.
Proceed(c, proof, t) ==
    /\ step' = [step EXCEPT ![c] = Following(c)]
    /\ reply' = [reply EXCEPT ![c] = NoReply]
    /\ proofOf' = [proofOf EXCEPT ![c] = proof]
    /\ taskOf' = [taskOf EXCEPT ![c] = t]
    /\ UNCHANGED <<serverVars, cmd, waited, saved, exit, printed>>

\* list asks no server.
List(c) == step[c] = "connect" /\ cmd[c] = "list" /\ End(c, "CLOSED", 1)

\* main prints the help, to stderr.
NoCommand(c) == step[c] = "connect" /\ cmd[c] = "none" /\ End(c, "FAILED", 0)

\* A server is found, or named by --port: nothing is asked of it yet.
Connect(c) ==
    /\ Connecting(c)
    /\ IF cmd[c] \in ProofArguments
       THEN \E p \in issued : Proceed(c, p, None)
       ELSE Proceed(c, None, None)

NoInstance(c) == Connecting(c) /\ End(c, "FAILED", 1)

Heard(c, says) == step[c] \in Requests /\ reply[c].says = says

HearProof(c) ==
    step[c] = "start" /\ Heard(c, "ok") /\ Proceed(c, reply[c].id, None)

HearTask(c) ==
    step[c] = "submit" /\ Heard(c, "ok") /\ Proceed(c, proofOf[c], reply[c].id)

HearSaved(c) ==
    step[c] = "save" /\ Heard(c, "ok") /\ Proceed(c, proofOf[c], None)

HearQuery(c) ==
    step[c] = "query" /\ Heard(c, "ok") /\ End(c, "CLOSED", 1)

\* A reply without a result: version prints the null it gets.
HearNothing(c) ==
    /\ "torn" \in Faults
    /\ cmd[c] = "query" /\ step[c] = "query" /\ reply[c] # NoReply
    /\ End(c, "CLOSED", 1)

HearStream(c) ==
    step[c] = "open" /\ Heard(c, "ok") /\ Proceed(c, proofOf[c], None)

\* watch prints each event as an object of its own, until the stream ends with
\* the server or before.
Event(c) ==
    /\ step[c] = "stream"
    /\ printed[c] < Events
    /\ printed' = [printed EXCEPT ![c] = @ + 1]
    /\ UNCHANGED <<serverVars, cmd, step, reply, proofOf, taskOf, waited, saved, exit>>

StreamEnds(c) == step[c] = "stream" /\ End(c, "CLOSED", 0)

\* Mutant: never looks at the time that has passed.
PollAgainUnbounded(c) ==
    /\ Heard(c, "RUNNING")
    /\ waited' = [waited EXCEPT ![c] = @ + 1]
    /\ reply' = [reply EXCEPT ![c] = NoReply]
    /\ UNCHANGED <<serverVars, cmd, step, proofOf, taskOf, saved, exit, printed>>

\* Mutant: takes the time anew before every poll.
PollAgainUncounted(c) ==
    /\ Heard(c, "RUNNING")
    /\ waited[c] < Patience
    /\ reply' = [reply EXCEPT ![c] = NoReply]
    /\ UNCHANGED <<serverVars, cmd, step, proofOf, taskOf, waited>>
    /\ UNCHANGED <<saved, exit, printed>>

\* wait_for_task looks again, unless its time is up.
PollAgain(c) ==
    /\ Heard(c, "RUNNING")
    /\ waited[c] < Patience
    /\ waited' = [waited EXCEPT ![c] = @ + 1]
    /\ reply' = [reply EXCEPT ![c] = NoReply]
    /\ UNCHANGED <<serverVars, cmd, step, proofOf, taskOf, saved, exit, printed>>

\* TaskTimeoutError: the task is left running.
GiveUp(c) ==
    /\ Heard(c, "RUNNING")
    /\ waited[c] >= Patience
    /\ End(c, "FAILED", 1)

\* A replay's result names the proof it produced.
TaskSucceeded(c) ==
    /\ Heard(c, "SUCCEEDED")
    /\ IF Following(c) = "end"
       THEN End(c, "CLOSED", 1)
       ELSE LET found == IF cmd[c] = "replay" THEN reply[c].id ELSE proofOf[c]
            IN  Proceed(c, found, taskOf[c])

\* Mutant: the failure goes to stderr only.
TaskFailedSilently(c) ==
    /\ Heard(c, "FAILED") \/ Heard(c, "CANCELLED")
    /\ End(c, "FAILED", 0)

\* Mutant: the status of a task that failed is that of an unproved proof.
TaskFailedNotClosed(c) ==
    /\ Heard(c, "FAILED") \/ Heard(c, "CANCELLED")
    /\ End(c, "NOT_CLOSED", 1)

\* _report_failed_task
TaskFailed(c) ==
    /\ Heard(c, "FAILED") \/ Heard(c, "CANCELLED")
    /\ End(c, "FAILED", 1)

\* Mutant: payload.get("closed", True).
VerdictByDefault(says) == IF says = "open" THEN "NOT_CLOSED" ELSE "CLOSED"

\* closed=bool(payload.get("closed")): only what the server says counts.
Verdict(says) == IF says = "closed" THEN "CLOSED" ELSE "NOT_CLOSED"

HearStatistics(c) ==
    /\ Heard(c, "closed") \/ Heard(c, "open") \/ Heard(c, "unsaid")
    /\ End(c, Verdict(reply[c].says), 1)

RpcError(c) == Heard(c, "error") /\ End(c, "FAILED", 1)

\* The call fails without an answer: KeyClientError.
Lost(c) == step[c] \in Requests /\ End(c, "FAILED", 1)

\* A request is answered, and the answer fails with what main does not catch:
\* IncompleteRead, UnicodeDecodeError, a result of null.
TornReply(c) ==
    /\ "torn" \in Faults
    /\ step[c] \in Requests /\ reply[c] # NoReply
    /\ End(c, "NOT_CLOSED", 0)

\* Looking for a server, or listing them, meets a record that is no record.
BadRecord(c) ==
    /\ "record" \in Faults
    /\ step[c] = "connect" /\ cmd[c] # "none"
    /\ End(c, "NOT_CLOSED", 0)

\* Once the stream is open nothing that goes wrong with it is caught.
StreamBreaks(c) ==
    /\ "reset" \in Faults
    /\ step[c] = "stream"
    /\ End(c, "NOT_CLOSED", 0)

\* A traceback: Python's exit status for it is 1.
Escape(c) == TornReply(c) \/ BadRecord(c) \/ StreamBreaks(c)

\* KeyboardInterrupt is caught around the handler of a subcommand, but nothing is
\* printed for it on stdout.
Interrupt(c) ==
    /\ "interrupt" \in Faults
    /\ step[c] # "end" /\ cmd[c] # "none"
    /\ End(c, "FAILED", 0)

Hear(c) ==
    \/ HearProof(c) \/ HearTask(c) \/ HearSaved(c) \/ HearQuery(c)
    \/ HearNothing(c) \/ HearStream(c) \/ Event(c) \/ StreamEnds(c)
    \/ PollAgain(c) \/ GiveUp(c) \/ TaskSucceeded(c) \/ TaskFailed(c)
    \/ HearStatistics(c) \/ RpcError(c)

-----------------------------------------------------------------------------
Next ==
    \/ \E c \in Clients :
           \/ Serve(c)
           \/ List(c) \/ NoCommand(c) \/ Connect(c) \/ NoInstance(c)
           \/ Hear(c)
           \/ Lost(c) \/ Escape(c) \/ Interrupt(c)
    \/ Elsewhere /\ UNCHANGED clientVars

Spec == Init /\ [][Next]_vars

\* A reply that is there is read, and a reply that does not come is given up
\* on: urlopen has a timeout, except for the event stream, which may stay silent
\* for ever.  Of the server nothing is asked.
FairSpec ==
    /\ Spec
    /\ \A c \in Clients : WF_vars(cmd[c] # "watch" /\ (Hear(c) \/ Lost(c)))

-----------------------------------------------------------------------------
\* The state of the server, of the runs and of their connections.
TypeOK ==
    /\ ServerTypeOK
    /\ cmd \in [Clients -> Commands]
    /\ step \in [Clients -> Requests \cup {"connect", "stream", "end"}]
    /\ reply \in [Clients ->
                    [says : Says, id : Proofs \cup Tasks \cup {None}]]
    /\ proofOf \in [Clients -> Proofs \cup {None}]
    /\ taskOf \in [Clients -> Tasks \cup {None}]
    /\ waited \in [Clients -> 0..Patience]
    /\ saved \in [Clients -> {"NONE", "open", "closed"}]
    /\ exit \in [Clients -> ExitCodes \cup {"NONE"}]
    /\ printed \in [Clients -> Nat]

\* The task a run waited for ended well, and worked on the proof it reports on.
Worked(c) ==
    cmd[c] \in {"prove", "script", "replay"} =>
        /\ taskOf[c] \in Tasks
        /\ task[taskOf[c]].status = "SUCCEEDED"
        /\ task[taskOf[c]].proof = proofOf[c]

\* cli.py:5: status 0 is the operation succeeded and the proof is closed, of
\* every subcommand that answers with the state of a proof.
ExitZeroMeansClosed ==
    \A c \in Clients :
        exit[c] = "CLOSED" /\ cmd[c] \in VerdictCommands =>
            proofOf[c] \in closed /\ Worked(c)

\* cli.py:5-6: status 1 is the operation succeeded and the proof is not closed.
\* The operation ended well, the proof was open when it ended, and the file
\* save wrote holds an open proof.
ExitOneMeansNotClosed ==
    \A c \in Clients :
        exit[c] = "NOT_CLOSED" =>
            /\ cmd[c] \in VerdictCommands
            /\ Worked(c)
            /\ taskOf[c] # None => task[taskOf[c]].left = "open"
            /\ saved[c] # "closed"

\* cli.py:5-11: statuses 0 and 1 are the operation succeeded.  Status 1 alone may
\* be a traceback, but together with an object on stdout it is not, whatever goes
\* wrong: the task that was waited for ended well and worked on this proof.
ObjectMeansSucceeded ==
    \A c \in Clients :
        exit[c] \in {"CLOSED", "NOT_CLOSED"} /\ cmd[c] \in VerdictCommands
            /\ printed[c] > 0 => Worked(c)

\* docs/guide.md:426-434: 0 is closed, whatever the command, if it touches a
\* proof at all.
ExitZeroAsDocumented ==
    \A c \in Clients :
        exit[c] = "CLOSED" /\ proofOf[c] # None => proofOf[c] \in closed

\* cli.py:11: --json prints one object, whatever becomes of the subcommand.  watch
\* is left out: it prints one for every event.
JsonOneObject ==
    \A c \in Clients :
        cmd[c] \notin {"watch", "none"} =>
            printed[c] = IF step[c] = "end" THEN 1 ELSE 0

\* What run c still has ahead of it at the most: its requests, one move to send
\* and one to hear each, and its polls.
Stage == [connect |-> 9, start |-> 8, submit |-> 6, await |-> 4, save |-> 4,
          statistics |-> 2, query |-> 2, open |-> 3, stream |-> 1, end |-> 0]

Ahead(c) ==
    Stage[step[c]]
        + (IF step[c] \in {"connect", "start", "submit", "await"}
           THEN 2 * (Patience - waited[c]) ELSE 0)
        - (IF reply[c] = NoReply THEN 0 ELSE 1)

OfRun(c) == <<cmd[c], step[c], reply[c], proofOf[c], taskOf[c], waited[c],
              saved[c], exit[c], printed[c]>>

\* However long a task runs and whatever else happens, a command makes a bounded
\* number of requests: all it does uses up a request of its plan or a poll of
\* --wait (client.py:399-406).  watch is left out: events may come for ever.
RequestsBounded ==
    [][\A c \in Clients :
          cmd[c] # "watch" /\ OfRun(c)' # OfRun(c) =>
              Ahead(c)' \in 0 .. Ahead(c) - 1]_vars

\* A command that reached a server ends, though the task may run for ever.
EveryCommandEnds ==
    \A c \in Clients :
        (cmd[c] # "watch" /\ step[c] # "connect") ~> (step[c] = "end")

-----------------------------------------------------------------------------
(* The commands in the terms of ProofVerdict.                              *)

Truth(p) == IF p \notin issued THEN "absent" ELSE StateOf(p)

WorkDone(c) ==
    cmd[c] \in {"prove", "script", "replay"} =>
        taskOf[c] \in Tasks /\ task[taskOf[c]].status = "SUCCEEDED"

\* Without the member closed the answer is that the proof is open.
ReadAs(says) == IF says = "unsaid" THEN "open" ELSE says

Told(c) ==
    IF cmd[c] \notin VerdictCommands THEN "none"
    ELSE IF exit[c] = "CLOSED" THEN "closed"
    ELSE IF exit[c] = "NOT_CLOSED" THEN "open"
    ELSE "none"

\* It is in the reply until the command ends with it.
Sample(c) ==
    IF Told(c) # "none" THEN [proof |-> proofOf[c], state |-> Told(c)]
    ELSE IF reply[c].says \in {"closed", "open", "unsaid"}
    THEN [proof |-> proofOf[c], state |-> ReadAs(reply[c].says)]
    ELSE [proof |-> None, state |-> "none"]

Abstract == INSTANCE ProofVerdict WITH
                Askers <- Clients,
                Incomplete <- "unsaid" \in Faults,
                truth <- [p \in Proofs |-> Truth(p)],
                done <- [c \in Clients |-> WorkDone(c)],
                looked <- [c \in Clients |-> Sample(c)],
                told <- [c \in Clients |-> Told(c)]

\* The statuses 0 and 1 of a command that answers with the state of a proof are
\* the truth about that proof at one moment after the command's own work on it; where
\* the server may leave out that it is closed, only status 0 is.
ImplementsProofVerdict == Abstract!AbsSpec
=============================================================================
