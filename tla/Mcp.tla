-------------------------------- MODULE Mcp --------------------------------
(***************************************************************************)
(* The MCP server, src/keyclient/mcp.py: the tools through which an agent  *)
(* has KeY prove things.  Every tool call finds a KeY server for itself,   *)
(* puts its requests to it one after the other and answers with one text.  *)
(* Meanwhile the servers start and die, tasks run, and other agents, other *)
(* calls of this one and people at a terminal use the same proofs.         *)
(*                                                                         *)
(* A request is one step here: the reply says what was the case when the   *)
(* server wrote it, and nothing the tool does before it reads the reply    *)
(* depends on when that is.  The servers are other programs; they are      *)
(* modelled as far as the tools rely on them.                              *)
(***************************************************************************)
EXTENDS Naturals, FiniteSets

CONSTANTS
    Servers,        \* instance ids: one per server process that ever runs
    Proofs,         \* proof ids, random and never used twice
    Goals,          \* node numbers of goals
    Calls,          \* the tool calls
    Patience,       \* the polls that fit into --timeout
    Faults,         \* what a server may do besides dying and refusing
    None            \* no server, no proof

\* "unsaid": statistics without the member closed.
ASSUME McpAssumption ==
    /\ None \notin Servers \cup Proofs
    /\ Patience \in Nat
    /\ Faults \subseteq {"unsaid"}

\* A server holds a finite number of goals.
ASSUME GoalsFinite == IsFiniteSet(Goals)

VARIABLES
    process,        \* process[s]: whether server s has yet to start, runs or died
    port,           \* port[s]: whose port it is, that of a dead server or a new one
    home,           \* home[p]: the server that created p
    live,           \* the proofs their server still knows
    open,           \* open[p]: the open goals of p, none when it is closed
    search,         \* search[p]: how the last automatic search on p ended
    instance,       \* settings.instance: the server --instance names
    call            \* call[c]: one tool call, a row of CallRows

worldVars == <<process, port, home, live, open, search>>
vars == <<worldVars, instance, call>>

-----------------------------------------------------------------------------
Tools == {"load", "prove", "inspect", "script", "save", "server"}

\* The tools that are given the id of a proof, and those that list its goals.
AboutProof == {"inspect", "script", "save"}
GoalTools  == {"prove", "inspect", "script"}

Requests == {"start", "submit", "await", "statistics", "goals", "diagnose",
             "sequents", "rules", "obligations", "save", "version"}

FirstRequest == [load |-> "submit", prove |-> "start", inspect |-> "statistics",
                 script |-> "submit", save |-> "save", server |-> "version"]

\* "CLOCK" stands for BUDGET_ELAPSED and STRATEGY_TIMEOUT; "NONE" is no search.
Outcomes == {"NONE", "EXHAUSTED", "MAX_RULES", "CLOCK"}

\* What an answer tells the agent to do: look into the proof, lift the cap on
\* rule applications, search longer, write a specification, write a script.
Remedies == {"inspect", "cap", "budget", "specification", "script"}

\* The text of the end.  "refused" and "notWritten" are the two headlines given
\* to an error object, "error" is an exception that leaves the tool.
Verdicts == {"open", "closed"}
Answers  == Verdicts \cup {"listing", "failed", "refused", "notWritten", "error"}

CallRows ==
    [tool : Tools,
     step : Requests \cup {"resolve", "end"},
     server : Servers \cup {None},              \* the server it found
     proof : Proofs \cup {None},                \* the proof it is about
     work : {"NONE", "RUNNING", "SUCCEEDED", "FAILED"},  \* the task it started
     waited : 0..Patience,                      \* its polls in vain
     outcome : Outcomes,                        \* the end of a search it goes by
     seen : Verdicts \cup {"none"},             \* what the statistics said
     listed : SUBSET Goals,                     \* the goals it was given,
     explained : SUBSET Goals,                  \* those with diagnostics, and
     todo : SUBSET Goals,                       \* those it has yet to show
     advice : SUBSET Remedies,                  \* what it tells the agent to do
     written : BOOLEAN,                         \* whether its file exists
     answer : Answers \cup {"none"},
     code : {"none", "other", "unknownProof"}]  \* the error code it passes on

NewCall(t) ==
    [tool |-> t, step |-> "resolve", server |-> None, proof |-> None,
     work |-> "NONE", waited |-> 0, outcome |-> "NONE", seen |-> "none",
     listed |-> {}, explained |-> {}, todo |-> {}, advice |-> {},
     written |-> FALSE, answer |-> "none", code |-> "none"]

Init ==
    /\ process = [s \in Servers |-> "new"]
    /\ port = [s \in Servers |-> s]
    /\ home = [p \in Proofs |-> None]
    /\ live = {}
    /\ open = [p \in Proofs |-> {}]
    /\ search = [p \in Proofs |-> "NONE"]
    /\ instance \in Servers \cup {None}
    /\ \E t \in [Calls -> Tools] : call = [c \in Calls |-> NewCall(t[c])]

-----------------------------------------------------------------------------
(* The servers, and what anybody else has them do.                         *)

Running == {s \in Servers : process[s] = "running"}

StateOf(p) == IF open[p] = {} THEN "closed" ELSE "open"

\* A port that a dead server has left may be given to a new one.
Start(s) ==
    /\ process[s] = "new"
    /\ process' = [process EXCEPT ![s] = "running"]
    /\ \E t \in Servers :
          /\ t = s \/ process[t] = "dead"
          /\ \A r \in Running : port[r] # port[t]
          /\ port' = [port EXCEPT ![s] = port[t]]
    /\ UNCHANGED <<home, live, open, search>>

\* Everything it held is lost.
Die(s) ==
    /\ s \in Running
    /\ process' = [process EXCEPT ![s] = "dead"]
    /\ live' = {p \in live : home[p] # s}
    /\ UNCHANGED <<port, home, open, search>>

\* proof.start: a new proof has goals to begin with.
Create(p, s) ==
    /\ s \in Running
    /\ home[p] = None
    /\ home' = [home EXCEPT ![p] = s]
    /\ live' = live \cup {p}
    /\ \E gs \in SUBSET Goals \ {{}} : open' = [open EXCEPT ![p] = gs]
    /\ UNCHANGED <<process, port, search>>

\* Rules are applied or a proof is cut back: goals go and others come.  A closed
\* proof accepts none of it.
Work(p) ==
    /\ p \in live
    /\ open[p] # {}
    /\ \E gs \in SUBSET Goals \ {open[p]} : open' = [open EXCEPT ![p] = gs]
    /\ UNCHANGED <<process, port, home, live, search>>

\* The automatic search of another client ends.
SearchEnds(p) ==
    /\ p \in live
    /\ \E o \in Outcomes \ {"NONE"} : search' = [search EXCEPT ![p] = o]
    /\ UNCHANGED <<process, port, home, live, open>>

\* proof.close or environment.close.
Release(p) ==
    /\ p \in live
    /\ live' = live \ {p}
    /\ UNCHANGED <<process, port, home, open, search>>

World ==
    /\ \/ \E s \in Servers : Start(s) \/ Die(s)
       \/ \E p \in Proofs, s \in Servers : Create(p, s)
       \/ \E p \in Proofs : Work(p) \/ SearchEnds(p) \/ Release(p)
    /\ UNCHANGED <<instance, call>>

\* Call c goes on as row.
Become(c, row) == call' = [call EXCEPT ![c] = row] /\ UNCHANGED instance

\* The task of call c ends; the result of a search says how the search ended.
WorkEnds(c) ==
    /\ call[c].work = "RUNNING"
    /\ call[c].server \in Running
    /\ \/ /\ Become(c, [call[c] EXCEPT !.work = "FAILED"])
          /\ UNCHANGED search
       \/ /\ call[c].tool # "prove"
          /\ Become(c, [call[c] EXCEPT !.work = "SUCCEEDED"])
          /\ UNCHANGED search
       \/ /\ call[c].tool = "prove"
          /\ \E o \in Outcomes \ {"NONE"} :
                /\ Become(c, [call[c] EXCEPT !.work = "SUCCEEDED", !.outcome = o])
                /\ search' = [search EXCEPT ![call[c].proof] = o]
    /\ UNCHANGED <<process, port, home, live, open>>

-----------------------------------------------------------------------------
(* The tool.                                                               *)

\* Mutant: --instance is not handed on.
FoundAnew == {s \in Servers : process[s] # "new"}

\* What resolve may answer: a server that was running lately (Discovery says how
\* it is chosen), or the one that --instance names.
Found == {s \in Servers : process[s] # "new" /\ (instance # None => s = instance)}

\* _connect: nothing is asked of the server yet.
Resolve(c) ==
    /\ call[c].step = "resolve"
    /\ \E s \in Found, p \in Proofs \cup {None} :
          /\ IF call[c].tool \in AboutProof
             THEN p # None /\ home[p] # None ELSE p = None
          /\ Become(c, [call[c] EXCEPT !.step = FirstRequest[call[c].tool],
                                       !.server = s, !.proof = p])
    /\ UNCHANGED worldVars

\* It puts another request to the server, or it is over.
Proceed(c, request) ==
    Become(c, [call[c] EXCEPT !.step = request]) /\ UNCHANGED worldVars

End(c, text) ==
    /\ Become(c, [call[c] EXCEPT !.step = "end", !.answer = text])
    /\ UNCHANGED worldVars

\* Who answers at the address of its server: when that is dead, one that was
\* given its port.
AtAddress(c) ==
    IF call[c].server \in Running THEN {call[c].server}
    ELSE {s \in Running : port[s] = port[call[c].server]}

Knows(c, s) == call[c].proof \in live /\ home[call[c].proof] = s

\* A request about its proof reaches a server that knows the proof.
Served(c, request) ==
    call[c].step = request /\ \E s \in AtAddress(c) : Knows(c, s)

HearProof(c) ==
    /\ call[c].step = "start"
    /\ \E s \in AtAddress(c), p \in Proofs :
          /\ Create(p, s)
          /\ Become(c, [call[c] EXCEPT !.step = "submit",
                                       !.server = s, !.proof = p])

\* environment.load needs no proof; a search or a script does.
HearTaskId(c) ==
    /\ call[c].step = "submit"
    /\ \E s \in AtAddress(c) :
          /\ call[c].tool = "load" \/ Knows(c, s)
          /\ Become(c, [call[c] EXCEPT !.step = "await",
                                       !.server = s, !.work = "RUNNING"])
    /\ UNCHANGED worldVars

HearTask(c, status) ==
    /\ call[c].step = "await"
    /\ call[c].server \in Running
    /\ call[c].work = status

\* Mutant: the time is taken anew before every poll.
PollAgainUnbounded(c) ==
    /\ HearTask(c, "RUNNING")
    /\ Become(c, [call[c] EXCEPT !.waited = (@ + 1) % (Patience + 1)])
    /\ UNCHANGED worldVars

PollAgain(c) ==
    /\ HearTask(c, "RUNNING")
    /\ call[c].waited < Patience
    /\ Become(c, [call[c] EXCEPT !.waited = @ + 1])
    /\ UNCHANGED worldVars

\* TaskTimeoutError leaves the tool; the task goes on.
GiveUp(c) ==
    HearTask(c, "RUNNING") /\ call[c].waited >= Patience /\ End(c, "error")

\* _failed
TaskFailed(c) == HearTask(c, "FAILED") /\ End(c, "failed")

\* Mutant: concludes from the search having returned.
TaskSucceededIsClosed(c) ==
    /\ HearTask(c, "SUCCEEDED")
    /\ IF call[c].outcome = "EXHAUSTED" THEN End(c, "closed")
       ELSE Proceed(c, IF call[c].tool = "load" THEN "obligations" ELSE "statistics")

TaskSucceeded(c) ==
    /\ HearTask(c, "SUCCEEDED")
    /\ Proceed(c, IF call[c].tool = "load" THEN "obligations" ELSE "statistics")

HearObligations(c) ==
    call[c].step = "obligations" /\ call[c].server \in Running /\ End(c, "listing")

HearVersion(c) ==
    call[c].step = "version" /\ AtAddress(c) # {} /\ End(c, "listing")

HearSaved(c) ==
    /\ Served(c, "save")
    /\ Become(c, [call[c] EXCEPT !.step = "statistics", !.written = TRUE])
    /\ UNCHANGED worldVars

\* Mutant: key_prove lists the goals of a closed proof instead.
AsksForGoalsOfClosed(c, state) ==
    \/ call[c].tool = "script"
    \/ call[c].tool = "inspect" /\ state = "open"
    \/ call[c].tool = "prove" /\ state = "closed"

\* The tools that list goals do so after the verdict: key_script always, the
\* other two for an open proof.
AsksForGoals(c, state) ==
    \/ call[c].tool = "script"
    \/ call[c].tool \in {"prove", "inspect"} /\ state = "open"

\* Mutant: payload.get("closed", True).
ReadByDefault(p) == {StateOf(p)} \cup (IF "unsaid" \in Faults THEN {"closed"} ELSE {})

\* closed=bool(payload.get("closed")): what is left out reads as open.
ReadOf(p) == {StateOf(p)} \cup (IF "unsaid" \in Faults THEN {"open"} ELSE {})

HearStatistics(c) ==
    /\ Served(c, "statistics")
    /\ \E state \in ReadOf(call[c].proof) :
          IF AsksForGoals(c, state)
          THEN Become(c, [call[c] EXCEPT !.step = "goals", !.seen = state])
          ELSE Become(c, [call[c] EXCEPT !.step = "end", !.seen = state,
                                         !.answer = state])
    /\ UNCHANGED worldVars

\* Mutant: repeats the outcome.
RemedyUnread(o) == {o}

\* _verdict: what to do about a proof left open by a search that ended with o.
Remedy(o) ==
    IF o = "EXHAUSTED" THEN {"inspect"}
    ELSE IF o = "MAX_RULES" THEN {"cap"}
    ELSE IF o = "CLOCK" THEN {"budget"}
    ELSE {}

\* key_prove adds what its own search calls for; key_inspect goes on.
HearGoals(c) ==
    /\ Served(c, "goals")
    /\ IF call[c].tool = "inspect"
       THEN Become(c, [call[c] EXCEPT !.step = "diagnose",
                                      !.listed = open[call[c].proof]])
       ELSE Become(c, [call[c] EXCEPT
                !.step = "end", !.listed = open[call[c].proof],
                !.answer = call[c].seen,
                !.advice = IF call[c].seen = "open"
                           THEN Remedy(call[c].outcome) ELSE {}])
    /\ UNCHANGED worldVars

\* Stuck points and the end of the last search, of the goals open now; max_goals
\* lets some or all of the listed ones through.
HearDiagnoses(c) ==
    /\ Served(c, "diagnose")
    /\ \E shown \in SUBSET call[c].listed :
          Become(c, [call[c] EXCEPT !.step = "sequents",
                                    !.explained = open[call[c].proof],
                                    !.outcome = search[call[c].proof],
                                    !.todo = shown])
    /\ UNCHANGED worldVars

(* _goal_finding.  A goal without diagnostics is shown without a finding;  *)
(* one may be stuck for want of a specification; and whether the prover is *)
(* out of ideas decides between the other two findings.                    *)
Findings(c, g) ==
    IF g \notin call[c].explained THEN {{}}
    ELSE {{"specification"},
          IF call[c].outcome = "EXHAUSTED" THEN {"script"} ELSE {"budget"}}

\* The sequent of the next goal, which may have closed by now.  With nothing
\* left but a script, the rules it could use are asked for as well.
HearSequent(c) ==
    /\ Served(c, "sequents")
    /\ \E g \in call[c].todo : \E remedy \in Findings(c, g) :
          Become(c, [call[c] EXCEPT
              !.step = IF remedy = {"script"} THEN "rules" ELSE "sequents",
              !.todo = @ \ {g},
              !.advice = @ \cup remedy])
    /\ UNCHANGED worldVars

HearRules(c) == Served(c, "rules") /\ Proceed(c, "sequents")

\* key_inspect has reported on every goal it shows.
Report(c) ==
    call[c].step = "sequents" /\ call[c].todo = {} /\ End(c, call[c].seen)

\* Mutant: the statistics are asked for inside the try as well.
HeadlineOfWholeSave(c) ==
    IF call[c].tool = "script" /\ call[c].step \in {"submit", "await"}
    THEN "refused"
    ELSE IF call[c].tool = "save" THEN "notWritten"
    ELSE "error"

\* What becomes of an error object: two requests have a headline for it, from
\* the others KeyServerRpcError leaves the tool.
Headline(c) ==
    IF call[c].tool = "script" /\ call[c].step \in {"submit", "await"}
    THEN "refused"
    ELSE IF call[c].step = "save" THEN "notWritten"
    ELSE "error"

\* A request is under way.
Asking(c) ==
    call[c].step \in Requests /\ (call[c].step = "sequents" => call[c].todo # {})

\* An id the server does not know, a proof that is busy, a goal that is gone, a
\* script that does not parse, an internal error.  task.get names no proof.
Refused(c) ==
    /\ Asking(c)
    /\ \E s \in AtAddress(c) :
          Become(c, [call[c] EXCEPT
              !.step = "end", !.answer = Headline(c),
              !.code = IF call[c].step = "await" \/ call[c].proof = None \/ Knows(c, s)
                       THEN "other" ELSE "unknownProof"])
    /\ UNCHANGED worldVars

\* KeyClientError leaves the tool: no server is found, or a request gets no
\* answer, having been carried out or not.
Lost(c) ==
    /\ call[c].step = "resolve" \/ Asking(c)
    /\ \E there \in {call[c].written, call[c].written \/ Served(c, "save")} :
          Become(c, [call[c] EXCEPT !.step = "end", !.answer = "error",
                                    !.written = there])
    /\ UNCHANGED worldVars

Step(c) ==
    \/ Resolve(c)
    \/ HearProof(c) \/ HearTaskId(c)
    \/ PollAgain(c) \/ GiveUp(c) \/ TaskFailed(c) \/ TaskSucceeded(c)
    \/ HearObligations(c) \/ HearVersion(c) \/ HearSaved(c)
    \/ HearStatistics(c) \/ HearGoals(c) \/ HearDiagnoses(c)
    \/ HearSequent(c) \/ HearRules(c) \/ Report(c)
    \/ Refused(c) \/ Lost(c)

Next ==
    \/ World
    \/ \E c \in Calls : WorkEnds(c) \/ Step(c)

Spec == Init /\ [][Next]_vars

\* urlopen has a timeout, so every request is answered or given up on, and the
\* polls are counted.  Of the servers nothing is asked.
FairSpec == Spec /\ \A c \in Calls : WF_vars(Step(c))

-----------------------------------------------------------------------------
\* The state of the servers and of the tool calls.
TypeOK ==
    /\ process \in [Servers -> {"new", "running", "dead"}]
    /\ port \in [Servers -> Servers]
    /\ home \in [Proofs -> Servers \cup {None}]
    /\ live \subseteq Proofs
    /\ open \in [Proofs -> SUBSET Goals]
    /\ search \in [Proofs -> Outcomes]
    /\ instance \in Servers \cup {None}
    /\ call \in [Calls -> CallRows]

\* An agent may go by the goals it is given (mcp.py:282-285): with a verdict of a
\* tool that lists goals, an empty list means that the proof is closed, even if
\* the verdict, asked for earlier, was still that it is not; and "closed" never
\* comes with a goal left to do.
EmptyListMeansClosed ==
    \A c \in Calls :
        call[c].answer \in Verdicts /\ call[c].tool \in GoalTools =>
            /\ call[c].listed = {} => home[call[c].proof] # None
                                      /\ open[call[c].proof] = {}
            /\ call[c].answer = "closed" => call[c].listed = {}

\* With --instance, a tool that says it does not know a proof of that server
\* says so because the proof is lost: released, or gone with its server
\* (mcp.py:57-64).  It has not looked for it on another server.
PinnedFindsItsProof ==
    \A c \in Calls :
        call[c].code = "unknownProof" /\ home[call[c].proof] = instance =>
            call[c].proof \notin live

\* docs/mcp.md:119-121: a save that fails says NOT written, so what is said to be
\* not written is not there, also when a later request of the tool fails.
NotWrittenIsTrue ==
    \A c \in Calls : call[c].answer = "notWritten" => ~call[c].written

\* mcp.py:357: a script that "was refused" was not accepted.
RefusedIsTrue ==
    \A c \in Calls : call[c].answer = "refused" => call[c].work = "NONE"

\* mcp.py:84-86: a larger budget is not advised when the cap on rule applications
\* ended the search.
AdviceFitsSearch ==
    \A c \in Calls : "budget" \in call[c].advice => call[c].outcome # "MAX_RULES"

\* What a call may still have ahead of it: the requests of its tool, polls, goals
\* to show with a sequent and rules each, and the end of its task.
Stage == [resolve |-> 9, start |-> 8, submit |-> 7, await |-> 5, save |-> 5,
          statistics |-> 4, goals |-> 3, diagnose |-> 2, rules |-> 2,
          sequents |-> 1, obligations |-> 1, version |-> 1, end |-> 0]

PollsAhead(row) ==
    IF row.step \in {"resolve", "start", "submit", "await"}
    THEN Patience - row.waited ELSE 0

GoalsAhead(row) ==
    IF row.step \in {"end", "obligations", "version"} THEN 0
    ELSE IF row.step \in {"sequents", "rules"} THEN Cardinality(row.todo)
    ELSE Cardinality(Goals)

WorkAhead(row) == IF row.work = "RUNNING" THEN 1 ELSE 0

Ahead(row) ==
    Stage[row.step] + PollsAhead(row) + 2 * GoalsAhead(row) + WorkAhead(row)

\* However the servers and the others go on, a call puts a bounded number of
\* requests: whatever changes about it uses up something that never comes back, a
\* request of its tool, a poll (client.py:399-406), a goal to show (mcp.py:314-339).
RequestsBounded ==
    [][\A c \in Calls :
          call'[c] # call[c] => Ahead(call'[c]) \in 0 .. Ahead(call[c]) - 1]_vars

\* A tool that was called answers or raises, though the task may run for ever
\* and the server may never answer.
EveryToolAnswers == \A c \in Calls : <>(call[c].step = "end")

-----------------------------------------------------------------------------
(* The tools in the terms of ProofVerdict.                                 *)

Truth(p) == IF home[p] = None THEN "absent" ELSE StateOf(p)

WorkDone(c) == call[c].tool \in {"prove", "script"} => call[c].work = "SUCCEEDED"

Sample(c) == IF call[c].seen = "none" THEN [proof |-> None, state |-> "none"]
             ELSE [proof |-> call[c].proof, state |-> call[c].seen]

Told(c) == IF call[c].answer \in Verdicts THEN call[c].answer ELSE "none"

Abstract == INSTANCE ProofVerdict WITH
                Askers <- Calls,
                Incomplete <- "unsaid" \in Faults,
                truth <- [p \in Proofs |-> Truth(p)],
                done <- [c \in Calls |-> WorkDone(c)],
                looked <- [c \in Calls |-> Sample(c)],
                told <- [c \in Calls |-> Told(c)]

\* What an agent may hold against a verdict later, statistics left incomplete or
\* not: the work was done, a proof said to be closed is, and one said to be open
\* was there.
VerdictStands == Abstract!VerdictStands

\* Whatever requests it takes, a verdict of a tool is the truth about its proof
\* at one moment after the tool's own work on it was done; except that "open" may
\* be said of a closed proof where a server leaves out that it is closed.
ImplementsProofVerdict == Abstract!AbsSpec
=============================================================================
