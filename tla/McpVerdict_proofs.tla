-------------------------- MODULE McpVerdict_proofs --------------------------
(***************************************************************************)
(* The MCP tools implement ProofVerdict: a verdict they tell an agent is   *)
(* the truth about its proof, looked up after the tool's own work on it    *)
(* succeeded.                                                              *)
(***************************************************************************)
EXTENDS Mcp_proofs

\* What no step takes back, seen from one call, and what most leave alone.
DoneStays(c)   == WorkDone(c) => WorkDone(c)'
SampleStays(c) == Sample(c)' = Sample(c) /\ Told(c)' = Told(c)
Quiet(c)       == DoneStays(c) /\ SampleStays(c)

-----------------------------------------------------------------------------
LEMMA SameFrame ==
  ASSUME NEW c \in Calls, call'[c] = call[c] PROVE Quiet(c)
  BY DEF Quiet, DoneStays, WorkDone, SampleStays, Sample, Told

LEMMA TruthLater ==
  ASSUME WorldInv, WorldInv', WorldGrows, NEW p \in Proofs
  PROVE  Truth(p)' \in Abstract!Later(Truth(p)) /\ Truth(p)' \in Abstract!States
<1>1. home[p] = None \/ (home'[p] = home[p] /\ (open[p] = {} => open'[p] = {}))
  BY DEF WorldGrows
<1>2. QED
  BY <1>1 DEF Truth, StateOf, Abstract!Later, Abstract!States

\* Nothing is looked up or told: the proofs and the work go on.
LEMMA Progresses ==
  ASSUME WorldInv, WorldInv', WorldGrows, \A c \in Calls : Quiet(c)
  PROVE  Abstract!Progress
<1>1. [p \in Proofs |-> Truth(p)]' \in [Proofs -> Abstract!States]
  BY TruthLater
<1>2. [c \in Calls |-> WorkDone(c)]' \in [Calls -> BOOLEAN]
  BY Zenon DEF WorkDone
<1>3. \A p \in Proofs : [q \in Proofs |-> Truth(q)]'[p]
                            \in Abstract!Later([q \in Proofs |-> Truth(q)][p])
  BY TruthLater
<1>4. \A c \in Calls : [d \in Calls |-> WorkDone(d)][c]
                            => [d \in Calls |-> WorkDone(d)]'[c]
  BY DEF Quiet, DoneStays
<1>5. /\ [c \in Calls |-> Sample(c)]' = [c \in Calls |-> Sample(c)]
      /\ [c \in Calls |-> Told(c)]' = [c \in Calls |-> Told(c)]
  BY DEF Quiet, SampleStays
<1>6. QED
  BY <1>1, <1>2, <1>3, <1>4, <1>5 DEF Abstract!Progress

\* Call c goes on as row, and what it has seen and told stays as it is.
LEMMA QuietStep ==
  ASSUME IInv, WorldInv', WorldGrows, NEW c \in Calls, NEW row, Become(c, row),
         row.tool = call[c].tool,
         row.work = call[c].work \/ call[c].work # "SUCCEEDED",
         row.seen = call[c].seen,
         row.proof = call[c].proof \/ call[c].seen = "none",
         row.answer = call[c].answer \/ (row.answer \notin Verdicts /\ call[c].step # "end")
  PROVE  Abstract!AbsNext
<1>1. call'[c] = row /\ \A d \in Calls : d # c => call'[d] = call[d]
  BY DEF Become, IInv
<1>2. SaidInv(c)
  BY CallFacts
<1>3. DoneStays(c)
  BY <1>1 DEF DoneStays, WorkDone
<1>4. Sample(c)' = Sample(c)
  BY <1>1 DEF Sample
<1>5. Told(c)' = Told(c)
  BY <1>1, <1>2 DEF Told, SaidInv, Verdicts
<1>6. \A d \in Calls : Quiet(d)
  BY <1>1, <1>3, <1>4, <1>5, SameFrame DEF Quiet, SampleStays
<1>7. QED
  BY <1>6, Progresses DEF Abstract!AbsNext, IInv

\* A step that changes no proof.
LEMMA NothingMoves ==
  ASSUME UNCHANGED worldVars, NEW c \in Calls, \A d \in Calls : d # c => call'[d] = call[d],
         call'[c].tool = call[c].tool, call'[c].work = call[c].work
  PROVE  /\ [p \in Proofs |-> Truth(p)]' = [p \in Proofs |-> Truth(p)]
         /\ [d \in Calls |-> WorkDone(d)]' = [d \in Calls |-> WorkDone(d)]
<1>1. \A p \in Proofs : Truth(p)' = Truth(p)
  BY DEF Truth, StateOf, worldVars
<1>2. \A d \in Calls : WorkDone(d)' = WorkDone(d)
  BY DEF WorkDone
<1>3. QED
  BY <1>1, <1>2

\* The verdict is told that was looked up earlier.
LEMMA Tells ==
  ASSUME IInv, NEW c \in Calls, NEW row, Become(c, row), UNCHANGED worldVars,
         call[c].step \in After,
         row.tool = call[c].tool, row.work = call[c].work, row.seen = call[c].seen,
         row.proof = call[c].proof, row.answer = call[c].seen
  PROVE  Abstract!AbsNext
<1>1. call'[c] = row /\ \A d \in Calls : d # c => call'[d] = call[d]
  BY DEF Become, IInv
<1>2. call[c].seen \in Verdicts /\ call[c].answer = "none"
  BY CallFacts DEF VerdictInv, SaidInv, After
<1>3. Told(c) = "none" /\ Told(c)' = call[c].seen
  BY <1>1, <1>2 DEF Told, Verdicts
<1>4. /\ Sample(c)' = Sample(c) /\ Sample(c).state = call[c].seen
      /\ Sample(c) # Abstract!NoSample
  BY <1>1, <1>2 DEF Sample, Abstract!NoSample, Verdicts
<1>5. \A d \in Calls : d # c => Sample(d)' = Sample(d) /\ Told(d)' = Told(d)
  BY <1>1 DEF Sample, Told
<1>6. /\ [d \in Calls |-> Sample(d)]' = [d \in Calls |-> Sample(d)]
      /\ [d \in Calls |-> Told(d)]' = [[d \in Calls |-> Told(d)] EXCEPT ![c] = Sample(c).state]
  BY <1>3, <1>4, <1>5
<1>7. Abstract!Tell(c)
  BY <1>1, <1>3, <1>4, <1>6, NothingMoves DEF Abstract!Tell
<1>8. QED
  BY <1>7 DEF Abstract!AbsNext

\* The verdict is looked up, and told at once if no goals are asked for.
LEMMA Looks ==
  ASSUME IInv, NEW c \in Calls, HearStatistics(c) PROVE Abstract!AbsNext
<1>0. PICK state \in ReadOf(call[c].proof) :
          IF AsksForGoals(c, state)
          THEN Become(c, [call[c] EXCEPT !.step = "goals", !.seen = state])
          ELSE Become(c, [call[c] EXCEPT !.step = "end", !.seen = state, !.answer = state])
  BY DEF HearStatistics
<1> DEFINE asks == [call[c] EXCEPT !.step = "goals", !.seen = state]
           ends == [call[c] EXCEPT !.step = "end", !.seen = state, !.answer = state]
           sample == [proof |-> call[c].proof, state |-> state]
<1>1. /\ call[c].step = "statistics" /\ call[c].proof \in live
      /\ UNCHANGED worldVars
      /\ Become(c, asks) \/ Become(c, ends)
  BY <1>0 DEF HearStatistics, Served, Knows
<1>2. /\ WorldInv /\ call[c] \in CallRows /\ call \in [Calls -> CallRows]
      /\ call[c].answer = "none" /\ WorkDone(c)
      /\ call[c].proof \in Proofs /\ home[call[c].proof] # None
  BY <1>1, CallFacts DEF VerdictInv, SaidInv, WorldInv, IInv
<1>3. /\ state \in {Truth(call[c].proof)} \cup (IF "unsaid" \in Faults THEN {"open"} ELSE {})
      /\ Truth(call[c].proof) \in Verdicts /\ state \in Verdicts
  BY <1>0, <1>2 DEF Truth, StateOf, ReadOf, Verdicts
<1>4. PICK row \in {asks, ends} : Become(c, row)
  BY <1>1
<1>5. call'[c] = row /\ \A d \in Calls : d # c => call'[d] = call[d]
  BY <1>2, <1>4 DEF Become
<1>6. /\ call'[c].tool = call[c].tool /\ call'[c].work = call[c].work
      /\ call'[c].proof = call[c].proof /\ call'[c].seen = state
      /\ call'[c].answer \in {"none", state}
  BY <1>2, <1>5 DEF CallRows
<1>7. Told(c) = "none" /\ Told(c)' \in {"none", state} /\ Sample(c)' = sample
  BY <1>2, <1>3, <1>6 DEF Told, Sample, Verdicts
<1>8. \A d \in Calls : d # c => Sample(d)' = Sample(d) /\ Told(d)' = Told(d)
  BY <1>5 DEF Sample, Told
<1>9. [d \in Calls |-> Sample(d)]' = [[d \in Calls |-> Sample(d)] EXCEPT ![c] = sample]
  BY <1>7, <1>8
<1>10. \/ [d \in Calls |-> Told(d)]' = [d \in Calls |-> Told(d)]
       \/ [d \in Calls |-> Told(d)]' = [[d \in Calls |-> Told(d)] EXCEPT ![c] = state]
  BY <1>7, <1>8
<1>11. /\ [p \in Proofs |-> Truth(p)]' = [p \in Proofs |-> Truth(p)]
       /\ [d \in Calls |-> WorkDone(d)]' = [d \in Calls |-> WorkDone(d)]
  BY <1>1, <1>5, <1>6, NothingMoves
<1>12. Abstract!Look(c) \/ Abstract!LookAndTell(c)
  BY <1>2, <1>3, <1>7, <1>9, <1>10, <1>11 DEF Abstract!Look, Abstract!LookAndTell, Abstract!Seen, Verdicts
<1>13. QED
  BY <1>12 DEF Abstract!AbsNext

-----------------------------------------------------------------------------
(* Every step of a tool is one of ProofVerdict.                            *)

LEMMA EndImplements ==
  ASSUME IInv, WorldInv', WorldGrows, NEW c \in Calls, NEW text, End(c, text),
         call[c].step # "end", text \notin Verdicts
  PROVE  Abstract!AbsNext
<1> DEFINE row == [call[c] EXCEPT !.step = "end", !.answer = text]
<1>1. call[c] \in CallRows
  BY CallFacts
<1>2. /\ row.tool = call[c].tool /\ row.work = call[c].work /\ row.seen = call[c].seen
      /\ row.proof = call[c].proof /\ row.answer = text
  BY <1>1 DEF CallRows
<1>3. Become(c, row)
  BY DEF End
<1> HIDE DEF row
<1>4. QED
  BY <1>2, <1>3, QuietStep

LEMMA ProceedImplements ==
  ASSUME IInv, WorldInv', WorldGrows, NEW c \in Calls, NEW request, Proceed(c, request)
  PROVE  Abstract!AbsNext
<1> DEFINE row == [call[c] EXCEPT !.step = request]
<1>1. call[c] \in CallRows
  BY CallFacts
<1>2. /\ row.tool = call[c].tool /\ row.work = call[c].work /\ row.seen = call[c].seen
      /\ row.proof = call[c].proof /\ row.answer = call[c].answer
  BY <1>1 DEF CallRows
<1>3. Become(c, row)
  BY DEF Proceed
<1> HIDE DEF row
<1>4. QED
  BY <1>2, <1>3, QuietStep

LEMMA GoalsImplement ==
  ASSUME IInv, WorldInv', WorldGrows, NEW c \in Calls, HearGoals(c)
  PROVE  Abstract!AbsNext
<1> DEFINE listed == open[call[c].proof]
           advice == IF call[c].seen = "open" THEN Remedy(call[c].outcome) ELSE {}
           goesOn == [call[c] EXCEPT !.step = "diagnose", !.listed = listed]
           ends == [call[c] EXCEPT !.step = "end", !.listed = listed,
                                   !.answer = call[c].seen, !.advice = advice]
<1>1. /\ call[c].step = "goals" /\ UNCHANGED worldVars
      /\ Become(c, goesOn) \/ Become(c, ends)
      /\ call[c] \in CallRows
  BY CallFacts DEF HearGoals, Served
<1> HIDE DEF listed, advice
<1>2. /\ goesOn.tool = call[c].tool /\ goesOn.work = call[c].work
      /\ goesOn.seen = call[c].seen /\ goesOn.proof = call[c].proof
      /\ goesOn.answer = call[c].answer
  BY <1>1 DEF CallRows
<1>3. /\ ends.tool = call[c].tool /\ ends.work = call[c].work
      /\ ends.seen = call[c].seen /\ ends.proof = call[c].proof
      /\ ends.answer = call[c].seen
  BY <1>1 DEF CallRows
<1> HIDE DEF goesOn, ends
<1>4. CASE Become(c, goesOn)
  BY <1>2, <1>4, QuietStep
<1>5. CASE Become(c, ends)
  BY <1>1, <1>3, <1>5, Tells DEF After
<1>6. QED
  BY <1>1, <1>4, <1>5

LEMMA ReportImplements ==
  ASSUME IInv, NEW c \in Calls, Report(c) PROVE Abstract!AbsNext
<1> DEFINE row == [call[c] EXCEPT !.step = "end", !.answer = call[c].seen]
<1>1. /\ call[c].step = "sequents" /\ UNCHANGED worldVars /\ Become(c, row)
      /\ call[c] \in CallRows
  BY CallFacts DEF Report, End
<1>2. /\ row.tool = call[c].tool /\ row.work = call[c].work /\ row.seen = call[c].seen
      /\ row.proof = call[c].proof /\ row.answer = call[c].seen
  BY <1>1 DEF CallRows
<1> HIDE DEF row
<1>3. QED
  BY <1>1, <1>2, Tells DEF After

\* The other steps neither look a verdict up nor tell one.
LEMMA QuietActions ==
  ASSUME IInv, WorldInv', WorldGrows, NEW c \in Calls,
         \/ Resolve(c) \/ HearProof(c) \/ HearTaskId(c) \/ PollAgain(c) \/ HearSaved(c)
         \/ HearDiagnoses(c) \/ HearSequent(c) \/ Refused(c) \/ Lost(c) \/ WorkEnds(c)
  PROVE  Abstract!AbsNext
<1>0. call[c] \in CallRows /\ VerdictInv(c)
  BY CallFacts
<1>1. ASSUME NEW step, NEW s, NEW p,
             Become(c, [call[c] EXCEPT !.step = step, !.server = s, !.proof = p]),
             call[c].step \in {"resolve", "start"}
      PROVE  Abstract!AbsNext
  <2> DEFINE row == [call[c] EXCEPT !.step = step, !.server = s, !.proof = p]
  <2>1. call[c].seen = "none"
    BY <1>0, <1>1 DEF VerdictInv, Before
  <2>2. /\ row.tool = call[c].tool /\ row.work = call[c].work /\ row.seen = call[c].seen
        /\ row.answer = call[c].answer
    BY <1>0 DEF CallRows
  <2>3. Become(c, row)
    BY <1>1
  <2> HIDE DEF row
  <2>4. QED
    BY <2>1, <2>2, <2>3, QuietStep
<1>2. CASE Resolve(c)
  <2>1. /\ call[c].step = "resolve"
        /\ \E s, p : Become(c, [call[c] EXCEPT !.step = FirstRequest[call[c].tool],
                                               !.server = s, !.proof = p])
    BY <1>2 DEF Resolve
  <2>2. QED
    BY <1>1, <2>1
<1>3. CASE HearProof(c)
  <2>1. /\ call[c].step = "start"
        /\ \E s, p : Become(c, [call[c] EXCEPT !.step = "submit",
                                               !.server = s, !.proof = p])
    BY <1>3 DEF HearProof
  <2>2. QED
    BY <1>1, <2>1
<1>4. CASE HearTaskId(c)
  <2>1. PICK s : Become(c, [call[c] EXCEPT !.step = "await",
                                           !.server = s, !.work = "RUNNING"])
    BY <1>4 DEF HearTaskId
  <2> DEFINE row == [call[c] EXCEPT !.step = "await", !.server = s, !.work = "RUNNING"]
  <2>2. call[c].work = "NONE"
    BY <1>0, <1>4 DEF HearTaskId, VerdictInv
  <2>3. /\ row.tool = call[c].tool /\ row.proof = call[c].proof /\ row.seen = call[c].seen
        /\ row.answer = call[c].answer
    BY <1>0 DEF CallRows
  <2>4. Become(c, row)
    BY <2>1
  <2> HIDE DEF row
  <2>5. QED
    BY <2>2, <2>3, <2>4, QuietStep
<1>5. CASE PollAgain(c)
  <2> DEFINE row == [call[c] EXCEPT !.waited = call[c].waited + 1]
  <2>1. /\ row.tool = call[c].tool /\ row.proof = call[c].proof /\ row.seen = call[c].seen
        /\ row.answer = call[c].answer /\ row.work = call[c].work
    BY <1>0 DEF CallRows
  <2>2. Become(c, row)
    BY <1>5 DEF PollAgain
  <2> HIDE DEF row
  <2>3. QED
    BY <2>1, <2>2, QuietStep
<1>6. CASE HearSaved(c)
  <2> DEFINE row == [call[c] EXCEPT !.step = "statistics", !.written = TRUE]
  <2>1. /\ row.tool = call[c].tool /\ row.proof = call[c].proof /\ row.seen = call[c].seen
        /\ row.answer = call[c].answer /\ row.work = call[c].work
    BY <1>0 DEF CallRows
  <2>2. Become(c, row)
    BY <1>6 DEF HearSaved
  <2> HIDE DEF row
  <2>3. QED
    BY <2>1, <2>2, QuietStep
<1>7. CASE HearDiagnoses(c)
  <2>1. PICK e, o, t : Become(c, [call[c] EXCEPT !.step = "sequents", !.explained = e,
                                                 !.outcome = o, !.todo = t])
    BY <1>7 DEF HearDiagnoses
  <2> DEFINE row == [call[c] EXCEPT !.step = "sequents", !.explained = e,
                                    !.outcome = o, !.todo = t]
  <2>2. /\ row.tool = call[c].tool /\ row.proof = call[c].proof /\ row.seen = call[c].seen
        /\ row.answer = call[c].answer /\ row.work = call[c].work
    BY <1>0 DEF CallRows
  <2>3. Become(c, row)
    BY <2>1
  <2> HIDE DEF row
  <2>4. QED
    BY <2>2, <2>3, QuietStep
<1>8. CASE HearSequent(c)
  <2>1. PICK q, t, a : Become(c, [call[c] EXCEPT !.step = q, !.todo = t, !.advice = a])
    BY <1>8 DEF HearSequent
  <2> DEFINE row == [call[c] EXCEPT !.step = q, !.todo = t, !.advice = a]
  <2>2. /\ row.tool = call[c].tool /\ row.proof = call[c].proof /\ row.seen = call[c].seen
        /\ row.answer = call[c].answer /\ row.work = call[c].work
    BY <1>0 DEF CallRows
  <2>3. Become(c, row)
    BY <2>1
  <2> HIDE DEF row
  <2>4. QED
    BY <2>2, <2>3, QuietStep
<1>9. CASE Refused(c)
  <2>1. PICK k : Become(c, [call[c] EXCEPT !.step = "end", !.answer = Headline(c),
                                           !.code = k])
    BY <1>9 DEF Refused
  <2> DEFINE row == [call[c] EXCEPT !.step = "end", !.answer = Headline(c), !.code = k]
  <2>2. /\ row.tool = call[c].tool /\ row.proof = call[c].proof /\ row.seen = call[c].seen
        /\ row.answer = Headline(c) /\ row.work = call[c].work
    BY <1>0 DEF CallRows
  <2>3. Headline(c) \notin Verdicts /\ call[c].step # "end"
    BY <1>9 DEF Headline, Verdicts, Refused, Asking, Requests
  <2>4. Become(c, row)
    BY <2>1
  <2> HIDE DEF row
  <2>5. QED
    BY <2>2, <2>3, <2>4, QuietStep
<1>10. CASE Lost(c)
  <2>1. PICK w : Become(c, [call[c] EXCEPT !.step = "end", !.answer = "error",
                                           !.written = w])
    BY <1>10 DEF Lost
  <2> DEFINE row == [call[c] EXCEPT !.step = "end", !.answer = "error", !.written = w]
  <2>2. /\ row.tool = call[c].tool /\ row.proof = call[c].proof /\ row.seen = call[c].seen
        /\ row.answer = "error" /\ row.work = call[c].work
    BY <1>0 DEF CallRows
  <2>3. "error" \notin Verdicts /\ call[c].step # "end"
    BY <1>10 DEF Verdicts, Lost, Asking, Requests
  <2>4. Become(c, row)
    BY <2>1
  <2> HIDE DEF row
  <2>5. QED
    BY <2>2, <2>3, <2>4, QuietStep
<1>11. CASE WorkEnds(c)
  <2>1. call[c].work # "SUCCEEDED"
    BY <1>11 DEF WorkEnds
  <2>2. ASSUME NEW row \in {[call[c] EXCEPT !.work = "FAILED"],
                            [call[c] EXCEPT !.work = "SUCCEEDED"]}, Become(c, row)
        PROVE  Abstract!AbsNext
    <3>1. /\ row.tool = call[c].tool /\ row.proof = call[c].proof
          /\ row.seen = call[c].seen /\ row.answer = call[c].answer
      BY <1>0, <2>2 DEF CallRows
    <3>2. QED
      BY <2>1, <2>2, <3>1, QuietStep
  <2>3. ASSUME NEW o, Become(c, [call[c] EXCEPT !.work = "SUCCEEDED", !.outcome = o])
        PROVE  Abstract!AbsNext
    <3> DEFINE row == [call[c] EXCEPT !.work = "SUCCEEDED", !.outcome = o]
    <3>1. /\ row.tool = call[c].tool /\ row.proof = call[c].proof
          /\ row.seen = call[c].seen /\ row.answer = call[c].answer
      BY <1>0 DEF CallRows
    <3>2. Become(c, row)
      BY <2>3
    <3> HIDE DEF row
    <3>3. QED
      BY <2>1, <3>1, <3>2, QuietStep
  <2>4. QED
    BY <1>11, <2>2, <2>3 DEF WorkEnds
<1>12. QED
  BY <1>2, <1>3, <1>4, <1>5, <1>6, <1>7, <1>8, <1>9, <1>10, <1>11

LEMMA StepImplements ==
  ASSUME IInv, IInv', [Next]_vars PROVE Abstract!AbsNext
<1>0. WorldInv /\ WorldInv' /\ WorldGrows
  BY NextGrows DEF IInv
<1>1. CASE call' = call
  BY <1>0, <1>1, SameFrame, Progresses DEF Abstract!AbsNext
<1>2. ASSUME NEW c \in Calls, Step(c) \/ WorkEnds(c) PROVE Abstract!AbsNext
  <2>1. CASE GiveUp(c) \/ TaskFailed(c) \/ HearObligations(c) \/ HearVersion(c)
    <3>1. call[c].step # "end" /\ \E text \in {"error", "failed", "listing"} : End(c, text)
      BY <2>1 DEF GiveUp, TaskFailed, HearTask, HearObligations, HearVersion
    <3>2. QED
      BY <1>0, <3>1, EndImplements DEF Verdicts
  <2>2. CASE TaskSucceeded(c) \/ HearRules(c)
    BY <1>0, <2>2, ProceedImplements DEF TaskSucceeded, HearRules
  <2>3. QED
    BY <1>0, <1>2, <2>1, <2>2, Looks, GoalsImplement, ReportImplements, QuietActions
       DEF Step
<1>3. QED
  BY <1>1, <1>2 DEF Next, World, vars

-----------------------------------------------------------------------------
\* The MCP tools implement ProofVerdict: a verdict that reaches an agent is the
\* truth about its proof at one moment after the tool's own work, for any number
\* of servers, proofs, goals and tool calls; where a server may leave out that a
\* proof is closed, "closed" is, and "open" may be said of a closed one.
THEOREM Refinement == Spec => ImplementsProofVerdict
<1>1. Init => Abstract!AbsInit
  <2> SUFFICES ASSUME Init PROVE Abstract!AbsInit
    OBVIOUS
  <2>1. \A p \in Proofs : Truth(p) = "absent"
    BY DEF Init, Truth
  <2>2. \A c \in Calls : Told(c) = "none" /\ Sample(c) = Abstract!NoSample
    <3> SUFFICES ASSUME NEW c \in Calls
                 PROVE  Told(c) = "none" /\ Sample(c) = Abstract!NoSample
      OBVIOUS
    <3>1. call[c].answer = "none" /\ call[c].seen = "none"
      BY DEF Init, NewCall
    <3>2. QED
      BY <3>1 DEF Told, Sample, Verdicts, Abstract!NoSample
  <2>3. [c \in Calls |-> WorkDone(c)] \in [Calls -> BOOLEAN]
    BY Zenon DEF WorkDone
  <2>4. QED
    BY <2>1, <2>2, <2>3 DEF Abstract!AbsInit
<1>2. IInv /\ IInv' /\ [Next]_vars => [Abstract!AbsNext]_(Abstract!verdictVars)
  <2> SUFFICES ASSUME IInv, IInv', [Next]_vars
               PROVE  [Abstract!AbsNext]_(Abstract!verdictVars)
    OBVIOUS
  <2>1. Abstract!AbsNext
    BY StepImplements
  <2>2. QED
    BY <2>1
<1>3. QED
  BY <1>1, <1>2, Inductive, PTL DEF Spec, ImplementsProofVerdict, Abstract!AbsSpec

-----------------------------------------------------------------------------
\* What is proved of ProofVerdict holds of the tools.
Theory == INSTANCE ProofVerdict_proofs WITH
                Askers <- Calls,
                Incomplete <- "unsaid" \in Faults,
                truth <- [p \in Proofs |-> Truth(p)],
                done <- [c \in Calls |-> WorkDone(c)],
                looked <- [c \in Calls |-> Sample(c)],
                told <- [c \in Calls |-> Told(c)]

\* Whatever a tool told an agent of a proof may be held against it at any later
\* time: its work was done, and a proof it called closed is closed.
THEOREM VerdictStandsCorrect == Spec => []VerdictStands
<1>1. Theory!AbsSpec => []Theory!VerdictStands
  BY Theory!VerdictStandsCorrect
<1>2. Theory!VerdictStands => VerdictStands
  BY DEF Theory!VerdictStands, VerdictStands, Abstract!VerdictStands, Theory!Later,
         Abstract!Later, Theory!States, Abstract!States
<1>3. Theory!AbsInit <=> Abstract!AbsInit
  BY DEF Theory!AbsInit, Abstract!AbsInit, Theory!NoSample, Abstract!NoSample
<1>4. [Abstract!AbsNext]_(Abstract!verdictVars) => [Theory!AbsNext]_(Theory!verdictVars)
  BY DEF Abstract!AbsNext, Theory!AbsNext, Abstract!verdictVars, Theory!verdictVars,
         Abstract!Progress, Theory!Progress, Abstract!Look, Theory!Look,
         Abstract!Forget, Theory!Forget, Abstract!Tell, Theory!Tell,
         Abstract!LookAndTell, Theory!LookAndTell, Abstract!NoSample, Theory!NoSample,
         Abstract!Later, Theory!Later, Abstract!States, Theory!States,
         Abstract!Seen, Theory!Seen
<1>5. QED
  BY <1>1, <1>2, <1>3, <1>4, Refinement, PTL
     DEF ImplementsProofVerdict, Abstract!AbsSpec, Theory!AbsSpec
=============================================================================
