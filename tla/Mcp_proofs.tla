----------------------------- MODULE Mcp_proofs -----------------------------
(***************************************************************************)
(* What the MCP tools tell an agent, for any number of servers, proofs,    *)
(* goals and tool calls.                                                   *)
(***************************************************************************)
EXTENDS Mcp, FiniteSetTheorems, TLAPS

\* Of a proof nobody created nothing exists; a proof that is known is known to a
\* server that runs.
WorldInv ==
    /\ process \in [Servers -> {"new", "running", "dead"}]
    /\ port \in [Servers -> Servers]
    /\ home \in [Proofs -> Servers \cup {None}]
    /\ live \subseteq Proofs
    /\ open \in [Proofs -> SUBSET Goals]
    /\ search \in [Proofs -> Outcomes]
    /\ instance \in Servers \cup {None}
    /\ \A p \in Proofs : home[p] = None => open[p] = {} /\ p \notin live
    /\ \A p \in live : process[home[p]] = "running"

\* What no step takes back: where a proof is from, that it is closed or lost, and
\* that a server has died.
WorldGrows ==
    /\ instance' = instance
    /\ \A p \in Proofs : home[p] # None =>
          /\ home'[p] = home[p]
          /\ open[p] = {} => open'[p] = {}
          /\ p \notin live => p \notin live'
    /\ \A s \in Servers :
          /\ process[s] = "dead" => process'[s] = "dead"
          /\ process[s] # "new" => process'[s] # "new"

\* A call puts its requests to the server that --instance names, while that runs.
Pinned(c) ==
    call[c].step \in Requests =>
        /\ call[c].server \in Servers
        /\ process[call[c].server] # "new"
        /\ instance # None =>
              call[c].server = instance \/ process[instance] = "dead"

\* The proof it is about was created, and one it does not know is lost if it was
\* on that server.
ProofInv(c) ==
    /\ call[c].proof # None => home[call[c].proof] # None
    /\ call[c].code = "unknownProof" =>
          /\ call[c].proof \in Proofs
          /\ home[call[c].proof] = instance => call[c].proof \notin live

\* Nothing is said before the end, and of a file only what is true.
SaidInv(c) ==
    /\ call[c].step # "end" => call[c].answer = "none" /\ call[c].code = "none"
    /\ call[c].step = "save" => call[c].tool = "save"
    /\ call[c].step \in {"resolve", "save"} => ~call[c].written
    /\ call[c].answer = "notWritten" => ~call[c].written

\* The requests that come before the verdict, and those that come after it.
Before == {"resolve", "start", "submit", "await", "statistics", "save",
           "obligations", "version"}
After  == {"goals", "diagnose", "sequents", "rules"}

\* The work comes first, then the verdict, then the goals: what is asked later is
\* true of a proof that may have closed in between, never of one that reopened.
VerdictInv(c) ==
    /\ call[c].step \in Before => call[c].seen = "none" /\ call[c].listed = {}
    /\ call[c].step \in {"resolve", "start", "submit"} => call[c].work = "NONE"
    /\ call[c].step \in After \cup {"statistics"} => WorkDone(c)
    /\ call[c].step \in After =>
          /\ call[c].tool \in GoalTools
          /\ call[c].proof \in Proofs
          /\ call[c].seen \in Verdicts
          /\ call[c].seen = "closed" => open[call[c].proof] = {}
          /\ call[c].tool = "inspect" => call[c].seen = "open"
    /\ call[c].step \in After \ {"goals"} =>
          /\ call[c].tool = "inspect"
          /\ call[c].listed = {} => open[call[c].proof] = {}
    /\ call[c].answer \in Verdicts =>
          /\ call[c].seen = call[c].answer
          /\ call[c].tool \in GoalTools =>
                /\ call[c].proof \in Proofs
                /\ call[c].listed = {} => open[call[c].proof] = {}
                /\ call[c].answer = "closed" => call[c].listed = {}

CallInv(c) == Pinned(c) /\ ProofInv(c) /\ SaidInv(c) /\ VerdictInv(c)

IInv ==
    /\ WorldInv
    /\ call \in [Calls -> CallRows]
    /\ \A c \in Calls : CallInv(c)

-----------------------------------------------------------------------------
(* The servers.                                                            *)

LEMMA CreateStep ==
  ASSUME WorldInv, NEW p \in Proofs, NEW s \in Servers, Create(p, s), instance' = instance
  PROVE  WorldInv' /\ WorldGrows
  BY McpAssumption DEF WorldInv, WorldGrows, Create, Running

LEMMA WorldStutter ==
  ASSUME WorldInv, UNCHANGED worldVars, instance' = instance PROVE WorldInv' /\ WorldGrows
  BY DEF WorldInv, WorldGrows, worldVars

LEMMA WorldStep ==
  ASSUME WorldInv, World PROVE WorldInv' /\ WorldGrows
<1>0. instance' = instance
  BY DEF World
<1>1. ASSUME NEW p \in Proofs, NEW s \in Servers, Create(p, s) PROVE WorldInv' /\ WorldGrows
  BY <1>0, <1>1, CreateStep
<1>2. ASSUME NEW s \in Servers, Start(s) PROVE WorldInv' /\ WorldGrows
  BY <1>0, <1>2 DEF WorldInv, WorldGrows, Start
<1>3. ASSUME NEW s \in Servers, Die(s) PROVE WorldInv' /\ WorldGrows
  BY <1>0, <1>3 DEF WorldInv, WorldGrows, Die, Running
<1>4. ASSUME NEW p \in Proofs, Work(p) PROVE WorldInv' /\ WorldGrows
  BY <1>0, <1>4 DEF WorldInv, WorldGrows, Work
<1>5. ASSUME NEW p \in Proofs, SearchEnds(p) PROVE WorldInv' /\ WorldGrows
  BY <1>0, <1>5 DEF WorldInv, WorldGrows, SearchEnds
<1>6. ASSUME NEW p \in Proofs, Release(p) PROVE WorldInv' /\ WorldGrows
  BY <1>0, <1>6 DEF WorldInv, WorldGrows, Release
<1>7. QED
  BY <1>1, <1>2, <1>3, <1>4, <1>5, <1>6 DEF World

-----------------------------------------------------------------------------
(* A call.                                                                 *)

LEMMA RowTypes ==
  ASSUME NEW c \in Calls, call \in [Calls -> CallRows]
  PROVE  /\ call[c] \in CallRows
         /\ call[c].tool \in Tools
         /\ call[c].step \in Requests \cup {"resolve", "end"}
         /\ call[c].server \in Servers \cup {None}
         /\ call[c].proof \in Proofs \cup {None}
         /\ call[c].waited \in 0..Patience
         /\ call[c].outcome \in Outcomes
         /\ call[c].seen \in Verdicts \cup {"none"}
         /\ call[c].listed \subseteq Goals
         /\ call[c].todo \subseteq Goals
         /\ call[c].advice \subseteq Remedies
         /\ call[c].written \in BOOLEAN
  BY DEF CallRows

LEMMA Becomes ==
  ASSUME call \in [Calls -> CallRows], NEW c \in Calls, NEW row \in CallRows, Become(c, row)
  PROVE  /\ call' \in [Calls -> CallRows]
         /\ call'[c] = row
         /\ \A d \in Calls : d # c => call'[d] = call[d]
         /\ instance' = instance
  BY DEF Become

\* Whatever happens, a call that is not touched keeps its invariant.
LEMMA CallFrame ==
  ASSUME IInv, WorldGrows, NEW c \in Calls, call'[c] = call[c] PROVE CallInv(c)'
<1>0. CallInv(c) /\ call[c] \in CallRows /\ call[c].proof \in Proofs \cup {None}
  BY RowTypes DEF IInv
<1>1. Pinned(c)'
  BY <1>0 DEF CallInv, Pinned, WorldGrows, IInv, WorldInv
<1>2. ProofInv(c)'
  BY <1>0, McpAssumption DEF CallInv, ProofInv, WorldGrows
<1>3. SaidInv(c)'
  BY <1>0 DEF CallInv, SaidInv
<1>4. VerdictInv(c)'
  <2>1. call[c].proof \in Proofs /\ open[call[c].proof] = {} => open'[call[c].proof] = {}
    BY <1>0, McpAssumption DEF CallInv, ProofInv, WorldGrows
  <2>2. WorkDone(c)' <=> WorkDone(c)
    BY DEF WorkDone
  <2>3. VerdictInv(c)
    BY <1>0 DEF CallInv
  <2> HIDE DEF WorkDone
  <2>4. QED
    BY <2>1, <2>2, <2>3 DEF VerdictInv
<1>5. QED
  BY <1>1, <1>2, <1>3, <1>4 DEF CallInv

\* A call goes on as row.
LEMMA CallStep ==
  ASSUME IInv, NEW c \in Calls, NEW row \in CallRows, Become(c, row),
         WorldInv', WorldGrows, call'[c] = row => CallInv(c)'
  PROVE  IInv'
<1>1. /\ call' \in [Calls -> CallRows] /\ call'[c] = row
      /\ \A d \in Calls : d # c => call'[d] = call[d]
  BY Becomes DEF IInv
<1>2. QED
  BY <1>1, CallFrame DEF IInv

-----------------------------------------------------------------------------
(* The steps of a call, one by one.                                        *)

\* What a step may use of the call that takes it.
LEMMA CallFacts ==
  ASSUME IInv, NEW c \in Calls
  PROVE  /\ WorldInv
         /\ call[c] \in CallRows
         /\ call[c].proof \in Proofs \cup {None}
         /\ Pinned(c) /\ ProofInv(c) /\ SaidInv(c) /\ VerdictInv(c)
  BY RowTypes DEF IInv, CallInv

LEMMA ResolveStep ==
  ASSUME IInv, NEW c \in Calls, Resolve(c) PROVE IInv'
<1>0. WorldInv /\ call[c] \in CallRows /\ SaidInv(c) /\ VerdictInv(c) /\ ProofInv(c)
  BY CallFacts
<1>1. PICK s \in Found, p \in Proofs \cup {None} :
         /\ IF call[c].tool \in AboutProof THEN p # None /\ home[p] # None ELSE p = None
         /\ Become(c, [call[c] EXCEPT !.step = FirstRequest[call[c].tool],
                                      !.server = s, !.proof = p])
  BY DEF Resolve
<1> DEFINE row == [call[c] EXCEPT !.step = FirstRequest[call[c].tool],
                                  !.server = s, !.proof = p]
<1>2. call[c].step = "resolve" /\ UNCHANGED worldVars /\ instance' = instance
  BY DEF Resolve, Become
<1>3. WorldInv' /\ WorldGrows
  BY <1>0, <1>2, WorldStutter
<1>4. FirstRequest[call[c].tool] \in Requests
      /\ (FirstRequest[call[c].tool] = "statistics" => call[c].tool = "inspect")
      /\ (FirstRequest[call[c].tool] = "save" => call[c].tool = "save")
      /\ FirstRequest[call[c].tool] \in Before
  BY <1>0 DEF FirstRequest, Requests, CallRows, Tools, Before
<1>5. s \in Servers /\ process[s] # "new" /\ (instance # None => s = instance)
  BY DEF Found
<1> HIDE DEF FirstRequest
<1>6. row \in CallRows
  BY <1>0, <1>4, <1>5 DEF CallRows
<1>7. ASSUME call'[c] = row PROVE CallInv(c)'
  <2>1. /\ call'[c].step = FirstRequest[call[c].tool] /\ call'[c].server = s /\ call'[c].proof = p
        /\ call'[c].tool = call[c].tool /\ call'[c].work = call[c].work
        /\ call'[c].seen = call[c].seen /\ call'[c].listed = call[c].listed
        /\ call'[c].written = call[c].written /\ call'[c].answer = call[c].answer
        /\ call'[c].code = call[c].code
    BY <1>0, <1>7 DEF CallRows
  <2>2. UNCHANGED <<process, home, live, open, instance>>
    BY <1>2 DEF worldVars
  <2>3. Pinned(c)'
    BY <1>5, <2>1, <2>2 DEF Pinned
  <2>4. ProofInv(c)'
    BY <1>0, <1>1, <1>2, <2>1, <2>2 DEF ProofInv, SaidInv
  <2>5. SaidInv(c)'
    BY <1>0, <1>2, <1>4, <2>1 DEF SaidInv, Requests
  <2>6. VerdictInv(c)'
    BY <1>0, <1>2, <1>4, <2>1 DEF VerdictInv, Before, After, WorkDone, Verdicts, SaidInv
  <2>7. QED
    BY <2>3, <2>4, <2>5, <2>6 DEF CallInv
<1>8. QED
  BY <1>1, <1>3, <1>6, <1>7, CallStep

\* A server at the address of a call is the one it found, or runs in its place.
LEMMA AddressFacts ==
  ASSUME WorldInv, NEW c \in Calls, Pinned(c), call[c].step \in Requests,
         NEW s \in AtAddress(c)
  PROVE  /\ s \in Servers /\ process[s] = "running"
         /\ instance # None => s = instance \/ process[instance] = "dead"
         /\ instance # None /\ process[instance] = "running" => s = instance
  BY DEF AtAddress, Running, Pinned, WorldInv

\* The tool is over, and what it says is what it may say.
LEMMA EndStep ==
  ASSUME IInv, NEW c \in Calls, NEW text \in Answers, End(c, text),
         text = "notWritten" => ~call[c].written,
         text \in Verdicts => call[c].step \in After \ {"goals"} /\ text = call[c].seen
  PROVE  IInv'
<1> DEFINE row == [call[c] EXCEPT !.step = "end", !.answer = text]
<1>0. WorldInv /\ call[c] \in CallRows /\ SaidInv(c) /\ VerdictInv(c) /\ ProofInv(c)
  BY CallFacts
<1>1. Become(c, row) /\ UNCHANGED worldVars /\ instance' = instance
  BY DEF End, Become
<1>2. WorldInv' /\ WorldGrows
  BY <1>0, <1>1, WorldStutter
<1>3. row \in CallRows
  BY <1>0 DEF CallRows
<1>4. ASSUME call'[c] = row PROVE CallInv(c)'
  <2>1. /\ call'[c].step = "end" /\ call'[c].answer = text
        /\ call'[c].proof = call[c].proof /\ call'[c].tool = call[c].tool
        /\ call'[c].seen = call[c].seen /\ call'[c].listed = call[c].listed
        /\ call'[c].written = call[c].written /\ call'[c].code = call[c].code
    BY <1>0, <1>4 DEF CallRows
  <2>2. UNCHANGED <<process, home, live, open, instance>>
    BY <1>1 DEF worldVars
  <2>3. Pinned(c)' /\ SaidInv(c)'
    BY <2>1 DEF Pinned, SaidInv, Requests
  <2>4. ProofInv(c)'
    BY <1>0, <2>1, <2>2 DEF ProofInv
  <2>5. VerdictInv(c)'
    BY <1>0, <2>1, <2>2 DEF VerdictInv, Before, After, Verdicts
  <2>6. QED
    BY <2>3, <2>4, <2>5 DEF CallInv
<1>5. QED
  BY <1>1, <1>2, <1>3, <1>4, CallStep

\* It asks for something else that needs no more than it has.
LEMMA ProceedStep ==
  ASSUME IInv, NEW c \in Calls, NEW request \in Requests, Proceed(c, request),
         call[c].step \in Requests, request # "save",
         request \in Before => /\ request \notin {"start", "submit"}
                               /\ call[c].step \in Before,
         request = "statistics" => WorkDone(c),
         request \in After => request # "goals" /\ call[c].step \in After \ {"goals"}
  PROVE  IInv'
<1> DEFINE row == [call[c] EXCEPT !.step = request]
<1>0. /\ WorldInv /\ call[c] \in CallRows
      /\ Pinned(c) /\ SaidInv(c) /\ VerdictInv(c) /\ ProofInv(c)
  BY CallFacts
<1>1. Become(c, row) /\ UNCHANGED worldVars /\ instance' = instance
  BY DEF Proceed, Become
<1>2. WorldInv' /\ WorldGrows
  BY <1>0, <1>1, WorldStutter
<1>3. row \in CallRows
  BY <1>0 DEF CallRows
<1>4. ASSUME call'[c] = row PROVE CallInv(c)'
  <2>1. /\ call'[c].step = request /\ call'[c].server = call[c].server
        /\ call'[c].proof = call[c].proof /\ call'[c].tool = call[c].tool
        /\ call'[c].seen = call[c].seen /\ call'[c].listed = call[c].listed
        /\ call'[c].written = call[c].written /\ call'[c].code = call[c].code
        /\ call'[c].work = call[c].work /\ call'[c].answer = call[c].answer
    BY <1>0, <1>4 DEF CallRows
  <2>2. UNCHANGED <<process, home, live, open, instance>>
    BY <1>1 DEF worldVars
  <2>3. Pinned(c)'
    BY <1>0, <2>1, <2>2 DEF Pinned
  <2>4. ProofInv(c)'
    BY <1>0, <2>1, <2>2 DEF ProofInv
  <2>5. SaidInv(c)'
    BY <1>0, <2>1 DEF SaidInv, Requests
  <2>6. VerdictInv(c)'
    BY <1>0, <2>1, <2>2 DEF VerdictInv, SaidInv, Before, After, WorkDone, Verdicts, Requests
  <2>7. QED
    BY <2>3, <2>4, <2>5, <2>6 DEF CallInv
<1>5. QED
  BY <1>1, <1>2, <1>3, <1>4, CallStep

LEMMA HearProofStep ==
  ASSUME IInv, NEW c \in Calls, HearProof(c) PROVE IInv'
<1>0. /\ WorldInv /\ call[c] \in CallRows
      /\ Pinned(c) /\ SaidInv(c) /\ VerdictInv(c) /\ ProofInv(c)
  BY CallFacts
<1>1. PICK s \in AtAddress(c), p \in Proofs :
         /\ Create(p, s)
         /\ Become(c, [call[c] EXCEPT !.step = "submit", !.server = s, !.proof = p])
  BY DEF HearProof
<1> DEFINE row == [call[c] EXCEPT !.step = "submit", !.server = s, !.proof = p]
<1>2. call[c].step = "start" /\ call[c].step \in Requests /\ instance' = instance
  BY <1>1 DEF HearProof, Become, Requests
<1>3. /\ s \in Servers /\ process[s] = "running"
      /\ instance # None => s = instance \/ process[instance] = "dead"
  BY <1>0, <1>2, AddressFacts
<1>4. WorldInv' /\ WorldGrows
  BY <1>0, <1>1, <1>2, <1>3, CreateStep
<1>5. row \in CallRows
  BY <1>0, <1>3 DEF CallRows, Requests
<1>6. ASSUME call'[c] = row PROVE CallInv(c)'
  <2>1. /\ call'[c].step = "submit" /\ call'[c].server = s /\ call'[c].proof = p
        /\ call'[c].tool = call[c].tool /\ call'[c].work = call[c].work
        /\ call'[c].seen = call[c].seen /\ call'[c].listed = call[c].listed
        /\ call'[c].written = call[c].written /\ call'[c].answer = call[c].answer
        /\ call'[c].code = call[c].code
    BY <1>0, <1>6 DEF CallRows
  <2>2. Pinned(c)'
    BY <1>1, <1>2, <1>3, <2>1 DEF Pinned, Create
  <2>3. ProofInv(c)'
    BY <1>0, <1>1, <1>2, <1>3, <2>1, McpAssumption DEF ProofInv, SaidInv, Create, WorldInv
  <2>4. SaidInv(c)'
    BY <1>0, <1>2, <2>1 DEF SaidInv
  <2>5. VerdictInv(c)'
    BY <1>0, <1>2, <2>1 DEF VerdictInv, SaidInv, Before, After, WorkDone, Verdicts
  <2>6. QED
    BY <2>2, <2>3, <2>4, <2>5 DEF CallInv
<1>7. QED
  BY <1>1, <1>4, <1>5, <1>6, CallStep

LEMMA HearTaskIdStep ==
  ASSUME IInv, NEW c \in Calls, HearTaskId(c) PROVE IInv'
<1>0. /\ WorldInv /\ call[c] \in CallRows
      /\ Pinned(c) /\ SaidInv(c) /\ VerdictInv(c) /\ ProofInv(c)
  BY CallFacts
<1>1. PICK s \in AtAddress(c) :
         Become(c, [call[c] EXCEPT !.step = "await", !.server = s, !.work = "RUNNING"])
  BY DEF HearTaskId
<1> DEFINE row == [call[c] EXCEPT !.step = "await", !.server = s, !.work = "RUNNING"]
<1>2. /\ call[c].step = "submit" /\ call[c].step \in Requests
      /\ UNCHANGED worldVars /\ instance' = instance
  BY <1>1 DEF HearTaskId, Become, Requests
<1>3. /\ s \in Servers /\ process[s] = "running"
      /\ instance # None => s = instance \/ process[instance] = "dead"
  BY <1>0, <1>2, AddressFacts
<1>4. WorldInv' /\ WorldGrows
  BY <1>0, <1>2, WorldStutter
<1>5. row \in CallRows
  BY <1>0, <1>3 DEF CallRows, Requests
<1>6. ASSUME call'[c] = row PROVE CallInv(c)'
  <2>1. /\ call'[c].step = "await" /\ call'[c].server = s
        /\ call'[c].proof = call[c].proof /\ call'[c].tool = call[c].tool
        /\ call'[c].seen = call[c].seen /\ call'[c].listed = call[c].listed
        /\ call'[c].written = call[c].written /\ call'[c].answer = call[c].answer
        /\ call'[c].code = call[c].code
    BY <1>0, <1>6 DEF CallRows
  <2>2. UNCHANGED <<process, home, live, open, instance>>
    BY <1>2 DEF worldVars
  <2>3. Pinned(c)'
    BY <1>3, <2>1, <2>2 DEF Pinned
  <2>4. ProofInv(c)'
    BY <1>0, <2>1, <2>2 DEF ProofInv
  <2>5. SaidInv(c)'
    BY <1>0, <1>2, <2>1 DEF SaidInv
  <2>6. VerdictInv(c)'
    BY <1>0, <1>2, <2>1 DEF VerdictInv, SaidInv, Before, After, Verdicts
  <2>7. QED
    BY <2>3, <2>4, <2>5, <2>6 DEF CallInv
<1>7. QED
  BY <1>1, <1>4, <1>5, <1>6, CallStep

LEMMA PollAgainStep ==
  ASSUME IInv, NEW c \in Calls, PollAgain(c) PROVE IInv'
<1> DEFINE row == [call[c] EXCEPT !.waited = call[c].waited + 1]
<1>0. /\ WorldInv /\ call[c] \in CallRows
      /\ Pinned(c) /\ SaidInv(c) /\ VerdictInv(c) /\ ProofInv(c)
  BY CallFacts
<1>1. /\ Become(c, row) /\ UNCHANGED worldVars /\ instance' = instance
      /\ call[c].waited < Patience
  BY DEF PollAgain, Become
<1>2. WorldInv' /\ WorldGrows
  BY <1>0, <1>1, WorldStutter
<1>3. row \in CallRows
  <2>1. call[c].waited + 1 \in 0..Patience
    BY <1>0, <1>1, McpAssumption DEF CallRows
  <2>2. QED
    BY <1>0, <2>1 DEF CallRows
<1>4. ASSUME call'[c] = row PROVE CallInv(c)'
  <2>1. /\ call'[c].step = call[c].step /\ call'[c].server = call[c].server
        /\ call'[c].proof = call[c].proof /\ call'[c].tool = call[c].tool
        /\ call'[c].seen = call[c].seen /\ call'[c].listed = call[c].listed
        /\ call'[c].written = call[c].written /\ call'[c].code = call[c].code
        /\ call'[c].work = call[c].work /\ call'[c].answer = call[c].answer
    BY <1>0, <1>4 DEF CallRows
  <2>2. UNCHANGED <<process, home, live, open, instance>>
    BY <1>1 DEF worldVars
  <2>3. Pinned(c)' /\ SaidInv(c)'
    BY <1>0, <2>1, <2>2 DEF Pinned, SaidInv
  <2>4. ProofInv(c)'
    BY <1>0, <2>1, <2>2 DEF ProofInv
  <2>5. VerdictInv(c)'
    BY <1>0, <2>1, <2>2 DEF VerdictInv, WorkDone
  <2>6. QED
    BY <2>3, <2>4, <2>5 DEF CallInv
<1>5. QED
  BY <1>1, <1>2, <1>3, <1>4, CallStep

LEMMA HearSavedStep ==
  ASSUME IInv, NEW c \in Calls, HearSaved(c) PROVE IInv'
<1> DEFINE row == [call[c] EXCEPT !.step = "statistics", !.written = TRUE]
<1>0. /\ WorldInv /\ call[c] \in CallRows
      /\ Pinned(c) /\ SaidInv(c) /\ VerdictInv(c) /\ ProofInv(c)
  BY CallFacts
<1>1. /\ Become(c, row) /\ UNCHANGED worldVars /\ instance' = instance
      /\ call[c].step = "save"
  BY DEF HearSaved, Served, Become
<1>2. WorldInv' /\ WorldGrows
  BY <1>0, <1>1, WorldStutter
<1>3. row \in CallRows
  BY <1>0 DEF CallRows, Requests
<1>4. ASSUME call'[c] = row PROVE CallInv(c)'
  <2>1. /\ call'[c].step = "statistics" /\ call'[c].server = call[c].server
        /\ call'[c].proof = call[c].proof /\ call'[c].tool = call[c].tool
        /\ call'[c].seen = call[c].seen /\ call'[c].listed = call[c].listed
        /\ call'[c].code = call[c].code
        /\ call'[c].work = call[c].work /\ call'[c].answer = call[c].answer
    BY <1>0, <1>4 DEF CallRows
  <2>2. UNCHANGED <<process, home, live, open, instance>>
    BY <1>1 DEF worldVars
  <2>3. Pinned(c)' /\ SaidInv(c)'
    BY <1>0, <1>1, <2>1, <2>2 DEF Pinned, SaidInv, Requests
  <2>4. ProofInv(c)'
    BY <1>0, <2>1, <2>2 DEF ProofInv
  <2>5. VerdictInv(c)'
    BY <1>0, <1>1, <2>1, <2>2 DEF VerdictInv, SaidInv, WorkDone, Before, After, Verdicts
  <2>6. QED
    BY <2>3, <2>4, <2>5 DEF CallInv
<1>5. QED
  BY <1>1, <1>2, <1>3, <1>4, CallStep

\* The verdict: the last word of some tools, and the goals come next for others.
LEMMA HearStatisticsStep ==
  ASSUME IInv, NEW c \in Calls, HearStatistics(c) PROVE IInv'
<1>0. /\ WorldInv /\ call[c] \in CallRows
      /\ Pinned(c) /\ SaidInv(c) /\ VerdictInv(c) /\ ProofInv(c)
  BY CallFacts
<1>01. PICK state \in ReadOf(call[c].proof) :
          IF AsksForGoals(c, state)
          THEN Become(c, [call[c] EXCEPT !.step = "goals", !.seen = state])
          ELSE Become(c, [call[c] EXCEPT !.step = "end", !.seen = state, !.answer = state])
  BY DEF HearStatistics
<1> DEFINE asks == [call[c] EXCEPT !.step = "goals", !.seen = state]
           ends == [call[c] EXCEPT !.step = "end", !.seen = state, !.answer = state]
<1>1. /\ call[c].step = "statistics" /\ call[c].proof \in live
      /\ UNCHANGED worldVars
      /\ IF AsksForGoals(c, state) THEN Become(c, asks) ELSE Become(c, ends)
  BY <1>01 DEF HearStatistics, Served, Knows
<1>2. WorldInv' /\ WorldGrows /\ instance' = instance
  BY <1>0, <1>1, WorldStutter DEF Become
<1>3. /\ call[c].proof \in Proofs
      /\ state \in Verdicts /\ (state = "closed" => open[call[c].proof] = {})
  BY <1>0, <1>01, <1>1 DEF WorldInv, StateOf, ReadOf, Verdicts
<1>4. asks \in CallRows /\ ends \in CallRows
  <2>1. /\ "goals" \in Requests \cup {"resolve", "end"}
        /\ "end" \in Requests \cup {"resolve", "end"}
        /\ state \in Verdicts \cup {"none"} /\ state \in Answers \cup {"none"}
    BY <1>3 DEF Requests, Answers
  <2>2. asks \in CallRows
    BY <1>0, <2>1 DEF CallRows
  <2>3. ends \in CallRows
    BY <1>0, <2>1 DEF CallRows
  <2>4. QED
    BY <2>2, <2>3
<1>5. ASSUME NEW row \in {asks, ends}, call'[c] = row
      PROVE  /\ call'[c].server = call[c].server
             /\ call'[c].proof = call[c].proof /\ call'[c].tool = call[c].tool
             /\ call'[c].seen = state /\ call'[c].listed = call[c].listed
             /\ call'[c].code = call[c].code /\ call'[c].written = call[c].written
             /\ call'[c].work = call[c].work
  BY <1>0, <1>5 DEF CallRows
<1>6. UNCHANGED <<process, home, live, open, instance>>
  BY <1>1, <1>2 DEF worldVars
<1>7. CASE AsksForGoals(c, state)
  <2>1. Become(c, asks)
    BY <1>1, <1>7
  <2>2. /\ call[c].tool \in GoalTools
        /\ call[c].tool \in {"prove", "inspect"} => state = "open"
    BY <1>7 DEF AsksForGoals, GoalTools
  <2>3. ASSUME call'[c] = asks PROVE CallInv(c)'
    <3>1. call'[c].step = "goals" /\ call'[c].answer = call[c].answer
      BY <1>0, <2>3 DEF CallRows
    <3>2. Pinned(c)' /\ ProofInv(c)' /\ SaidInv(c)'
      BY <1>0, <1>1, <1>5, <1>6, <2>3, <3>1 DEF Pinned, ProofInv, SaidInv, Requests
    <3>3. VerdictInv(c)'
      BY <1>0, <1>1, <1>3, <1>5, <1>6, <2>2, <2>3, <3>1
         DEF VerdictInv, SaidInv, WorkDone, Before, After, Verdicts
    <3>4. QED
      BY <3>2, <3>3 DEF CallInv
  <2>4. QED
    BY <1>2, <1>4, <2>1, <2>3, CallStep
<1>8. CASE ~AsksForGoals(c, state)
  <2>1. Become(c, ends)
    BY <1>1, <1>8
  <2>2. call[c].tool \in GoalTools => state = "closed"
    BY <1>3, <1>8 DEF AsksForGoals, GoalTools, Verdicts
  <2>3. ASSUME call'[c] = ends PROVE CallInv(c)'
    <3>1. call'[c].step = "end" /\ call'[c].answer = state
      BY <1>0, <2>3 DEF CallRows
    <3>2. Pinned(c)' /\ ProofInv(c)' /\ SaidInv(c)'
      BY <1>0, <1>3, <1>5, <1>6, <2>3, <3>1
         DEF Pinned, ProofInv, SaidInv, Requests, Verdicts
    <3>3. VerdictInv(c)'
      BY <1>0, <1>1, <1>3, <1>5, <1>6, <2>2, <2>3, <3>1
         DEF VerdictInv, Before, After, Verdicts
    <3>4. QED
      BY <3>2, <3>3 DEF CallInv
  <2>4. QED
    BY <1>2, <1>4, <2>1, <2>3, CallStep
<1>9. QED
  BY <1>7, <1>8

\* The goals as they are now, with the verdict as it was then.
LEMMA HearGoalsStep ==
  ASSUME IInv, NEW c \in Calls, HearGoals(c) PROVE IInv'
<1> DEFINE advice == IF call[c].seen = "open" THEN Remedy(call[c].outcome) ELSE {}
           listed == open[call[c].proof]
           goesOn == [call[c] EXCEPT !.step = "diagnose", !.listed = listed]
           ends == [call[c] EXCEPT !.step = "end", !.listed = listed,
                                   !.answer = call[c].seen, !.advice = advice]
<1>0. /\ WorldInv /\ call[c] \in CallRows
      /\ Pinned(c) /\ SaidInv(c) /\ VerdictInv(c) /\ ProofInv(c)
  BY CallFacts
<1>1. /\ call[c].step = "goals" /\ UNCHANGED worldVars
      /\ IF call[c].tool = "inspect" THEN Become(c, goesOn) ELSE Become(c, ends)
  BY DEF HearGoals, Served
<1>2. WorldInv' /\ WorldGrows /\ instance' = instance
  BY <1>0, <1>1, WorldStutter DEF Become
<1>3. /\ call[c].proof \in Proofs /\ listed \subseteq Goals
      /\ call[c].seen \in Verdicts
      /\ call[c].seen = "closed" => listed = {}
      /\ WorkDone(c) /\ call[c].tool \in GoalTools
      /\ call[c].tool = "inspect" => call[c].seen = "open"
  BY <1>0, <1>1 DEF WorldInv, VerdictInv, After
<1>4. advice \subseteq Remedies
  BY DEF Remedy, Remedies
<1> HIDE DEF advice
<1>5. goesOn \in CallRows /\ ends \in CallRows
  <2>1. /\ "diagnose" \in Requests \cup {"resolve", "end"}
        /\ "end" \in Requests \cup {"resolve", "end"}
        /\ call[c].seen \in Answers \cup {"none"}
        /\ listed \in SUBSET Goals /\ advice \in SUBSET Remedies
    BY <1>3, <1>4 DEF Requests, Answers
  <2> HIDE DEF listed
  <2>2. goesOn \in CallRows
    BY <1>0, <2>1 DEF CallRows
  <2>3. ends \in CallRows
    BY <1>0, <2>1 DEF CallRows
  <2>4. QED
    BY <2>2, <2>3
<1>6. ASSUME NEW row \in {goesOn, ends}, call'[c] = row
      PROVE  /\ call'[c].server = call[c].server
             /\ call'[c].proof = call[c].proof /\ call'[c].tool = call[c].tool
             /\ call'[c].seen = call[c].seen /\ call'[c].listed = listed
             /\ call'[c].code = call[c].code /\ call'[c].written = call[c].written
             /\ call'[c].work = call[c].work
  BY <1>0, <1>6 DEF CallRows
<1>7. UNCHANGED <<process, home, live, open, instance>>
  BY <1>1, <1>2 DEF worldVars
<1>8. CASE call[c].tool = "inspect"
  <2>1. Become(c, goesOn)
    BY <1>1, <1>8
  <2>2. ASSUME call'[c] = goesOn PROVE CallInv(c)'
    <3>1. call'[c].step = "diagnose" /\ call'[c].answer = call[c].answer
      BY <1>0, <2>2 DEF CallRows
    <3>2. Pinned(c)' /\ ProofInv(c)' /\ SaidInv(c)'
      BY <1>0, <1>1, <1>6, <1>7, <2>2, <3>1 DEF Pinned, ProofInv, SaidInv, Requests
    <3>3. VerdictInv(c)'
      BY <1>0, <1>1, <1>3, <1>6, <1>7, <1>8, <2>2, <3>1
         DEF VerdictInv, SaidInv, WorkDone, Before, After, Verdicts
    <3>4. QED
      BY <3>2, <3>3 DEF CallInv
  <2>3. QED
    BY <1>2, <1>5, <2>1, <2>2, CallStep
<1>9. CASE call[c].tool # "inspect"
  <2>1. Become(c, ends)
    BY <1>1, <1>9
  <2>2. ASSUME call'[c] = ends PROVE CallInv(c)'
    <3>1. call'[c].step = "end" /\ call'[c].answer = call[c].seen
      BY <1>0, <2>2 DEF CallRows
    <3>2. Pinned(c)' /\ ProofInv(c)' /\ SaidInv(c)'
      BY <1>0, <1>3, <1>6, <1>7, <2>2, <3>1
         DEF Pinned, ProofInv, SaidInv, Requests, Verdicts
    <3>3. VerdictInv(c)'
      BY <1>3, <1>6, <1>7, <2>2, <3>1 DEF VerdictInv, Before, After, Verdicts
    <3>4. QED
      BY <3>2, <3>3 DEF CallInv
  <2>3. QED
    BY <1>2, <1>5, <2>1, <2>2, CallStep
<1>10. QED
  BY <1>8, <1>9

\* A step of key_inspect after the goals, to another one.
LEMMA InspectStep ==
  ASSUME IInv, NEW c \in Calls, NEW row \in CallRows, Become(c, row), UNCHANGED worldVars,
         call[c].step \in After \ {"goals"}, row.step \in After \ {"goals"},
         row.tool = call[c].tool, row.server = call[c].server, row.proof = call[c].proof,
         row.work = call[c].work, row.seen = call[c].seen, row.listed = call[c].listed,
         row.written = call[c].written, row.answer = call[c].answer,
         row.code = call[c].code
  PROVE  IInv'
<1>0. /\ WorldInv /\ call[c] \in CallRows
      /\ Pinned(c) /\ SaidInv(c) /\ VerdictInv(c) /\ ProofInv(c)
  BY CallFacts
<1>1. instance' = instance
  BY DEF Become
<1>2. WorldInv' /\ WorldGrows
  BY <1>0, <1>1, WorldStutter
<1>3. ASSUME call'[c] = row PROVE CallInv(c)'
  <2>1. UNCHANGED <<process, home, live, open, instance>>
    BY <1>1 DEF worldVars
  <2>2. Pinned(c)' /\ SaidInv(c)' /\ ProofInv(c)'
    BY <1>0, <1>3, <2>1 DEF Pinned, SaidInv, ProofInv, After, Requests
  <2>3. VerdictInv(c)'
    BY <1>0, <1>3, <2>1 DEF VerdictInv, SaidInv, WorkDone, Before, After, Verdicts
  <2>4. QED
    BY <2>2, <2>3 DEF CallInv
<1>4. QED
  BY <1>2, <1>3, CallStep

LEMMA HearDiagnosesStep ==
  ASSUME IInv, NEW c \in Calls, HearDiagnoses(c) PROVE IInv'
<1>1. call[c].step = "diagnose" /\ UNCHANGED worldVars
  BY DEF HearDiagnoses, Served
<1>2. WorldInv /\ call[c] \in CallRows /\ VerdictInv(c)
  BY CallFacts
<1>3. PICK shown \in SUBSET call[c].listed :
         Become(c, [call[c] EXCEPT !.step = "sequents",
                                   !.explained = open[call[c].proof],
                                   !.outcome = search[call[c].proof],
                                   !.todo = shown])
  BY DEF HearDiagnoses
<1> DEFINE goals == open[call[c].proof]
           ended == search[call[c].proof]
           row == [call[c] EXCEPT !.step = "sequents", !.explained = goals,
                                  !.outcome = ended, !.todo = shown]
<1>4. /\ goals \in SUBSET Goals /\ ended \in Outcomes /\ shown \in SUBSET Goals
      /\ "sequents" \in Requests \cup {"resolve", "end"}
      /\ "sequents" \in After \ {"goals"} /\ "diagnose" \in After \ {"goals"}
  BY <1>1, <1>2 DEF VerdictInv, After, WorldInv, CallRows, Requests
<1>5. Become(c, row)
  BY <1>3
<1> HIDE DEF goals, ended
<1>6. row \in CallRows
  BY <1>2, <1>4 DEF CallRows
<1>7. /\ row.step = "sequents" /\ row.tool = call[c].tool /\ row.server = call[c].server
      /\ row.proof = call[c].proof /\ row.work = call[c].work /\ row.seen = call[c].seen
      /\ row.listed = call[c].listed /\ row.written = call[c].written
      /\ row.answer = call[c].answer /\ row.code = call[c].code
  BY <1>2 DEF CallRows
<1> HIDE DEF row
<1>8. QED
  BY <1>1, <1>4, <1>5, <1>6, <1>7, InspectStep

LEMMA HearSequentStep ==
  ASSUME IInv, NEW c \in Calls, HearSequent(c) PROVE IInv'
<1>1. call[c].step = "sequents" /\ UNCHANGED worldVars
  BY DEF HearSequent, Served
<1>2. call[c] \in CallRows
  BY CallFacts
<1>3. PICK g \in call[c].todo : \E remedy \in Findings(c, g) :
         Become(c, [call[c] EXCEPT
              !.step = IF remedy = {"script"} THEN "rules" ELSE "sequents",
              !.todo = call[c].todo \ {g},
              !.advice = call[c].advice \cup remedy])
  BY DEF HearSequent
<1>4. PICK remedy \in Findings(c, g) :
         Become(c, [call[c] EXCEPT
              !.step = IF remedy = {"script"} THEN "rules" ELSE "sequents",
              !.todo = call[c].todo \ {g},
              !.advice = call[c].advice \cup remedy])
  BY <1>3
<1> DEFINE next == IF remedy = {"script"} THEN "rules" ELSE "sequents"
           rest == call[c].todo \ {g}
           told == call[c].advice \cup remedy
           row == [call[c] EXCEPT !.step = next, !.todo = rest, !.advice = told]
<1>5. /\ next \in Requests \cup {"resolve", "end"} /\ next \in After \ {"goals"}
      /\ call[c].step \in After \ {"goals"}
      /\ rest \in SUBSET Goals
  BY <1>1, <1>2 DEF After, Requests, CallRows
<1>6. told \in SUBSET Remedies
  <2>1. remedy \subseteq Remedies
    BY DEF Findings, Remedies
  <2>2. QED
    BY <1>2, <2>1 DEF CallRows
<1>7. Become(c, row)
  BY <1>4
<1> HIDE DEF next, rest, told
<1>8. row \in CallRows
  BY <1>2, <1>5, <1>6 DEF CallRows
<1>9. /\ row.step = next /\ row.tool = call[c].tool /\ row.server = call[c].server
      /\ row.proof = call[c].proof /\ row.work = call[c].work /\ row.seen = call[c].seen
      /\ row.listed = call[c].listed /\ row.written = call[c].written
      /\ row.answer = call[c].answer /\ row.code = call[c].code
  BY <1>2 DEF CallRows
<1> HIDE DEF row
<1>10. QED
  BY <1>1, <1>5, <1>7, <1>8, <1>9, InspectStep

\* An error object: unknown is only what the server that was meant does not know.
LEMMA RefusedStep ==
  ASSUME IInv, NEW c \in Calls, Refused(c) PROVE IInv'
<1>0. /\ WorldInv /\ call[c] \in CallRows
      /\ Pinned(c) /\ SaidInv(c) /\ VerdictInv(c) /\ ProofInv(c)
  BY CallFacts
<1>1. PICK s \in AtAddress(c) :
         Become(c, [call[c] EXCEPT !.step = "end", !.answer = Headline(c),
                !.code = IF call[c].step = "await" \/ call[c].proof = None \/ Knows(c, s)
                         THEN "other" ELSE "unknownProof"])
  BY DEF Refused
<1> DEFINE code == IF call[c].step = "await" \/ call[c].proof = None \/ Knows(c, s)
                   THEN "other" ELSE "unknownProof"
           row == [call[c] EXCEPT !.step = "end", !.answer = Headline(c), !.code = code]
<1>2. call[c].step \in Requests /\ UNCHANGED worldVars /\ instance' = instance
  BY <1>1 DEF Refused, Asking, Become
<1>3. WorldInv' /\ WorldGrows
  BY <1>0, <1>2, WorldStutter
<1>4. Headline(c) \in {"refused", "notWritten", "error"}
      /\ (Headline(c) = "notWritten" => call[c].step = "save")
  BY DEF Headline
<1>5. code = "unknownProof" =>
          /\ call[c].proof \in Proofs
          /\ home[call[c].proof] = instance => call[c].proof \notin live
  <2> SUFFICES ASSUME call[c].proof # None, ~Knows(c, s), home[call[c].proof] = instance,
                      call[c].proof \in live
               PROVE  FALSE
    BY <1>0 DEF CallRows
  <2>1. instance # None /\ process[instance] = "running"
    BY <1>0 DEF ProofInv, WorldInv
  <2>2. s = instance
    BY <1>0, <1>2, <2>1, AddressFacts
  <2>3. QED
    BY <2>2 DEF Knows
<1>6. code \in {"none", "other", "unknownProof"}
  OBVIOUS
<1> HIDE DEF code
<1>7. row \in CallRows
  <2>1. Headline(c) \in Answers \cup {"none"}
    BY <1>4 DEF Answers
  <2>2. QED
    BY <1>0, <1>6, <2>1 DEF CallRows
<1>8. ASSUME call'[c] = row PROVE CallInv(c)'
  <2>1. /\ call'[c].step = "end" /\ call'[c].answer = Headline(c) /\ call'[c].code = code
        /\ call'[c].proof = call[c].proof /\ call'[c].tool = call[c].tool
        /\ call'[c].seen = call[c].seen /\ call'[c].listed = call[c].listed
        /\ call'[c].written = call[c].written
    BY <1>0, <1>8 DEF CallRows
  <2>2. UNCHANGED <<process, home, live, open, instance>>
    BY <1>2 DEF worldVars
  <2>3. Pinned(c)' /\ SaidInv(c)'
    BY <1>0, <1>4, <2>1 DEF Pinned, SaidInv, Requests
  <2>4. ProofInv(c)'
    BY <1>0, <1>5, <2>1, <2>2 DEF ProofInv
  <2>5. VerdictInv(c)'
    BY <1>0, <1>4, <2>1, <2>2 DEF VerdictInv, Before, After, Verdicts
  <2>6. QED
    BY <2>3, <2>4, <2>5 DEF CallInv
<1> HIDE DEF row
<1>9. QED
  BY <1>1, <1>3, <1>7, <1>8, CallStep DEF row, code

LEMMA LostStep ==
  ASSUME IInv, NEW c \in Calls, Lost(c) PROVE IInv'
<1>0. /\ WorldInv /\ call[c] \in CallRows
      /\ Pinned(c) /\ SaidInv(c) /\ VerdictInv(c) /\ ProofInv(c)
  BY CallFacts
<1>1. PICK there \in {call[c].written, call[c].written \/ Served(c, "save")} :
          Become(c, [call[c] EXCEPT !.step = "end", !.answer = "error", !.written = there])
  BY DEF Lost
<1> DEFINE row == [call[c] EXCEPT !.step = "end", !.answer = "error", !.written = there]
<1>2. UNCHANGED worldVars /\ instance' = instance
  BY <1>1 DEF Lost, Become
<1>3. WorldInv' /\ WorldGrows
  BY <1>0, <1>2, WorldStutter
<1>4. there \in BOOLEAN
  BY <1>0, Zenon DEF CallRows
<1>5. row \in CallRows
  BY <1>0, <1>4 DEF CallRows, Answers
<1>6. ASSUME call'[c] = row PROVE CallInv(c)'
  <2>1. /\ call'[c].step = "end" /\ call'[c].answer = "error"
        /\ call'[c].proof = call[c].proof /\ call'[c].tool = call[c].tool
        /\ call'[c].seen = call[c].seen /\ call'[c].listed = call[c].listed
        /\ call'[c].code = call[c].code
    BY <1>0, <1>6 DEF CallRows
  <2>2. UNCHANGED <<process, home, live, open, instance>>
    BY <1>2 DEF worldVars
  <2>3. Pinned(c)' /\ SaidInv(c)'
    BY <2>1 DEF Pinned, SaidInv, Requests
  <2>4. ProofInv(c)'
    BY <1>0, <2>1, <2>2 DEF ProofInv
  <2>5. VerdictInv(c)'
    BY <1>0, <2>1, <2>2 DEF VerdictInv, Before, After, Verdicts
  <2>6. QED
    BY <2>3, <2>4, <2>5 DEF CallInv
<1>7. QED
  BY <1>1, <1>3, <1>5, <1>6, CallStep

LEMMA WorkEndsStep ==
  ASSUME IInv, NEW c \in Calls, WorkEnds(c) PROVE IInv'
<1>0. /\ WorldInv /\ call[c] \in CallRows
      /\ Pinned(c) /\ SaidInv(c) /\ VerdictInv(c) /\ ProofInv(c)
  BY CallFacts
<1>1. /\ call[c].work = "RUNNING" /\ instance' = instance
      /\ UNCHANGED <<process, port, home, live, open>>
  BY DEF WorkEnds, Become
<1>2. PICK w \in {"FAILED", "SUCCEEDED"}, o \in Outcomes :
         /\ Become(c, [call[c] EXCEPT !.work = w, !.outcome = o])
         /\ search' = search \/ search' = [search EXCEPT ![call[c].proof] = o]
  <2>1. ASSUME NEW w, Become(c, [call[c] EXCEPT !.work = w])
        PROVE  Become(c, [call[c] EXCEPT !.work = w, !.outcome = call[c].outcome])
    <3>1. [call[c] EXCEPT !.work = w]
            = [call[c] EXCEPT !.work = w, !.outcome = call[c].outcome]
      BY <1>0 DEF CallRows
    <3>2. QED
      BY <2>1, <3>1
  <2>2. call[c].outcome \in Outcomes
    BY <1>0 DEF CallRows
  <2>3. QED
    BY <2>1, <2>2 DEF WorkEnds
<1> DEFINE row == [call[c] EXCEPT !.work = w, !.outcome = o]
<1>3. WorldInv' /\ WorldGrows
  BY <1>0, <1>1, <1>2 DEF WorldInv, WorldGrows
<1>4. row \in CallRows
  BY <1>0 DEF CallRows
<1>5. ASSUME call'[c] = row PROVE CallInv(c)'
  <2>1. /\ call'[c].step = call[c].step /\ call'[c].server = call[c].server
        /\ call'[c].proof = call[c].proof /\ call'[c].tool = call[c].tool
        /\ call'[c].seen = call[c].seen /\ call'[c].listed = call[c].listed
        /\ call'[c].written = call[c].written /\ call'[c].code = call[c].code
        /\ call'[c].answer = call[c].answer
    BY <1>0, <1>5 DEF CallRows
  <2>2. Pinned(c)' /\ SaidInv(c)' /\ ProofInv(c)'
    BY <1>0, <1>1, <2>1 DEF Pinned, SaidInv, ProofInv
  <2>3. VerdictInv(c)'
    BY <1>0, <1>1, <2>1 DEF VerdictInv, WorkDone
  <2>4. QED
    BY <2>2, <2>3 DEF CallInv
<1>6. QED
  BY <1>2, <1>3, <1>4, <1>5, CallStep

LEMMA ShortSteps ==
  ASSUME IInv, NEW c \in Calls,
         \/ GiveUp(c) \/ TaskFailed(c) \/ TaskSucceeded(c)
         \/ HearObligations(c) \/ HearVersion(c) \/ HearRules(c) \/ Report(c)
  PROVE  IInv'
<1>0. call[c] \in CallRows /\ VerdictInv(c)
  BY CallFacts
<1>1. CASE \/ GiveUp(c) \/ TaskFailed(c) \/ HearObligations(c) \/ HearVersion(c)
  <2>1. \E text \in {"error", "failed", "listing"} : End(c, text)
    BY <1>1 DEF GiveUp, TaskFailed, HearObligations, HearVersion
  <2>2. QED
    BY <2>1, EndStep DEF Answers, Verdicts
<1>2. CASE Report(c)
  <2>1. call[c].step = "sequents" /\ End(c, call[c].seen)
    BY <1>2 DEF Report
  <2>2. call[c].seen \in Verdicts /\ "sequents" \in After \ {"goals"}
    BY <1>0, <2>1 DEF VerdictInv, After
  <2>3. call[c].seen \in Answers /\ call[c].seen # "notWritten"
    BY <2>2 DEF Answers, Verdicts
  <2>4. QED
    BY <2>1, <2>2, <2>3, EndStep
<1>3. CASE TaskSucceeded(c)
  <2>1. /\ call[c].step = "await" /\ call[c].work = "SUCCEEDED"
        /\ \E request \in {"obligations", "statistics"} : Proceed(c, request)
    BY <1>3 DEF TaskSucceeded, HearTask
  <2>2. WorkDone(c) /\ {"await", "obligations", "statistics"} \subseteq Before
        /\ {"await", "obligations", "statistics"} \subseteq Requests
        /\ "obligations" \notin After /\ "statistics" \notin After
    BY <2>1 DEF WorkDone, Before, After, Requests
  <2>3. QED
    BY <2>1, <2>2, ProceedStep
<1>4. CASE HearRules(c)
  <2>1. call[c].step = "rules" /\ Proceed(c, "sequents")
    BY <1>4 DEF HearRules, Served
  <2>2. /\ "rules" \in Requests /\ "sequents" \in Requests
        /\ "rules" \in After \ {"goals"} /\ "sequents" \notin Before
    BY DEF Requests, After, Before
  <2>3. QED
    BY <2>1, <2>2, ProceedStep
<1>5. QED
  BY <1>1, <1>2, <1>3, <1>4

LEMMA NextStep == IInv /\ [Next]_vars => IInv'
<1> SUFFICES ASSUME IInv, [Next]_vars PROVE IInv'
  OBVIOUS
<1>1. CASE UNCHANGED vars
  <2>1. WorldInv' /\ WorldGrows /\ call' = call
    BY <1>1, WorldStutter DEF vars, IInv
  <2>2. QED
    BY <2>1, CallFrame DEF IInv
<1>2. CASE World
  <2>1. WorldInv' /\ WorldGrows /\ call' = call
    BY <1>2, WorldStep DEF World, IInv
  <2>2. QED
    BY <2>1, CallFrame DEF IInv
<1>3. ASSUME NEW c \in Calls, WorkEnds(c) PROVE IInv'
  BY <1>3, WorkEndsStep
<1>4. ASSUME NEW c \in Calls, Step(c) PROVE IInv'
  BY <1>4, ResolveStep, HearProofStep, HearTaskIdStep, PollAgainStep, ShortSteps,
     HearSavedStep, HearStatisticsStep, HearGoalsStep, HearDiagnosesStep,
     HearSequentStep, RefusedStep, LostStep
     DEF Step
<1>5. QED
  BY <1>1, <1>2, <1>3, <1>4 DEF Next

LEMMA NextGrows == IInv /\ [Next]_vars => WorldGrows
<1> SUFFICES ASSUME IInv, [Next]_vars PROVE WorldGrows
  OBVIOUS
<1>0. WorldInv
  BY DEF IInv
<1>1. CASE UNCHANGED vars
  BY <1>0, <1>1, WorldStutter DEF vars
<1>2. CASE World
  BY <1>0, <1>2, WorldStep
<1>3. ASSUME NEW c \in Calls, WorkEnds(c) PROVE WorldGrows
  BY <1>0, <1>3 DEF WorkEnds, Become, WorldGrows
<1>4. ASSUME NEW c \in Calls, HearProof(c) PROVE WorldGrows
  <2>1. PICK s \in AtAddress(c), p \in Proofs : Create(p, s) /\ instance' = instance
    BY <1>4 DEF HearProof, Become
  <2>2. s \in Servers
    BY DEF AtAddress, Running
  <2>3. QED
    BY <1>0, <2>1, <2>2, CreateStep
<1>5. ASSUME NEW c \in Calls, Step(c), ~HearProof(c) PROVE WorldGrows
  <2>1. UNCHANGED worldVars /\ instance' = instance
    BY <1>5 DEF Step, Resolve, HearTaskId, PollAgain, GiveUp, TaskFailed, TaskSucceeded,
       HearObligations, HearVersion, HearSaved, HearStatistics, HearGoals, HearDiagnoses,
       HearSequent, HearRules, Report, Refused, Lost, End, Proceed, Become
  <2>2. QED
    BY <1>0, <2>1, WorldStutter
<1>6. QED
  BY <1>1, <1>2, <1>3, <1>4, <1>5 DEF Next

LEMMA Inductive == Spec => []IInv
<1>1. Init => IInv
  <2> SUFFICES ASSUME Init PROVE IInv
    OBVIOUS
  <2>1. WorldInv
    BY McpAssumption DEF Init, WorldInv, Outcomes
  <2>2. ASSUME NEW c \in Calls PROVE call[c] \in CallRows /\ CallInv(c)
    <3>1. PICK t \in Tools : call[c] = NewCall(t)
      BY DEF Init
    <3>2. call[c] \in CallRows
      BY <3>1, McpAssumption DEF NewCall, CallRows, Outcomes
    <3>3. CallInv(c)
      BY <3>1 DEF NewCall, CallInv, Pinned, ProofInv, SaidInv, VerdictInv, Requests,
         Before, After, Verdicts
    <3>4. QED
      BY <3>2, <3>3
  <2>3. call \in [Calls -> CallRows]
    BY <2>2 DEF Init
  <2>4. QED
    BY <2>1, <2>2, <2>3 DEF IInv
<1>2. QED
  BY <1>1, NextStep, PTL DEF Spec

-----------------------------------------------------------------------------
\* The type of the state, for any number of servers, proofs, goals and calls.
THEOREM TypeCorrect == Spec => []TypeOK
<1>1. IInv => TypeOK
  BY DEF IInv, WorldInv, TypeOK
<1>2. QED
  BY <1>1, Inductive, PTL

\* The goals a tool lists are asked for after its verdict, so an empty list is of
\* a closed proof, and a closed proof has an empty list.
THEOREM EmptyListCorrect == Spec => []EmptyListMeansClosed
<1>1. IInv => EmptyListMeansClosed
  BY McpAssumption DEF IInv, CallInv, VerdictInv, ProofInv, EmptyListMeansClosed
<1>2. QED
  BY <1>1, Inductive, PTL

\* With --instance no tool looks for a proof on another server than the one that
\* holds it, though the address of that server may change hands.
THEOREM PinnedCorrect == Spec => []PinnedFindsItsProof
<1>1. IInv => PinnedFindsItsProof
  BY DEF IInv, CallInv, ProofInv, PinnedFindsItsProof
<1>2. QED
  BY <1>1, Inductive, PTL

\* A file that is said not to be written is not there.
THEOREM NotWrittenCorrect == Spec => []NotWrittenIsTrue
<1>1. IInv => NotWrittenIsTrue
  BY DEF IInv, CallInv, SaidInv, NotWrittenIsTrue
<1>2. QED
  BY <1>1, Inductive, PTL

-----------------------------------------------------------------------------
(* The calls but one, and the step of a task.                              *)

LEMMA OthersStay ==
  ASSUME call \in [Calls -> CallRows], NEW c \in Calls, WorkEnds(c) \/ Step(c)
  PROVE  \A d \in Calls : d # c => call'[d] = call[d]
<1>1. PICK row : Become(c, row)
  BY DEF WorkEnds, Step, Resolve, HearProof, HearTaskId, PollAgain, GiveUp,
     TaskFailed, TaskSucceeded, HearObligations, HearVersion, HearSaved, HearStatistics,
     HearGoals, HearDiagnoses, HearSequent, HearRules, Report, Refused, Lost, End, Proceed
<1>2. QED
  BY <1>1 DEF Become

\* The end of a task is heard of by nobody yet.
LEMMA WorkEndsRow ==
  ASSUME call \in [Calls -> CallRows], NEW c \in Calls, WorkEnds(c)
  PROVE  /\ call[c].work = "RUNNING" /\ call'[c].work \in {"FAILED", "SUCCEEDED"}
         /\ call'[c].step = call[c].step /\ call'[c].server = call[c].server
         /\ call'[c].waited = call[c].waited /\ call'[c].todo = call[c].todo
         /\ call'[c].answer = call[c].answer
<1>0. call[c] \in CallRows
  OBVIOUS
<1> DEFINE Same == /\ call'[c].step = call[c].step /\ call'[c].server = call[c].server
                   /\ call'[c].waited = call[c].waited /\ call'[c].todo = call[c].todo
                   /\ call'[c].answer = call[c].answer
<1>1. ASSUME NEW w \in {"FAILED", "SUCCEEDED"}, NEW o,
             call'[c] = [call[c] EXCEPT !.work = w, !.outcome = o]
      PROVE  call'[c].work \in {"FAILED", "SUCCEEDED"} /\ Same
  BY <1>0, <1>1 DEF CallRows
<1>2. ASSUME NEW w \in {"FAILED", "SUCCEEDED"}, call'[c] = [call[c] EXCEPT !.work = w]
      PROVE  call'[c].work \in {"FAILED", "SUCCEEDED"} /\ Same
  BY <1>0, <1>2 DEF CallRows
<1>3. \/ \E w \in {"FAILED", "SUCCEEDED"} : call'[c] = [call[c] EXCEPT !.work = w]
      \/ \E o : call'[c] = [call[c] EXCEPT !.work = "SUCCEEDED", !.outcome = o]
  BY DEF WorkEnds, Become
<1>4. QED
  BY <1>1, <1>2, <1>3 DEF WorkEnds

-----------------------------------------------------------------------------
(* What a call may still have ahead of it, and that it only gets less.     *)

LEMMA AheadTypes ==
  ASSUME NEW row \in CallRows
  PROVE  /\ Stage[row.step] \in Nat
         /\ row.step # "end" => Stage[row.step] > 0
         /\ PollsAhead(row) \in Nat
         /\ GoalsAhead(row) \in Nat /\ GoalsAhead(row) <= Cardinality(Goals)
         /\ WorkAhead(row) \in {0, 1}
         /\ Ahead(row) \in Nat
<1>1. /\ row.step \in Requests \cup {"resolve", "end"} /\ row.waited \in 0..Patience
      /\ row.todo \in SUBSET Goals
  BY DEF CallRows
<1>2. Stage[row.step] \in Nat /\ (row.step # "end" => Stage[row.step] > 0)
  BY <1>1 DEF Stage, Requests
<1>3. PollsAhead(row) \in Nat
  BY <1>1, McpAssumption DEF PollsAhead
<1>4. /\ Cardinality(Goals) \in Nat /\ Cardinality(row.todo) \in Nat
      /\ Cardinality(row.todo) <= Cardinality(Goals)
  BY <1>1, GoalsFinite, FS_Subset, FS_CardinalityType
<1>5. GoalsAhead(row) \in Nat /\ GoalsAhead(row) <= Cardinality(Goals)
  BY <1>4 DEF GoalsAhead
<1>6. WorkAhead(row) \in {0, 1}
  BY DEF WorkAhead
<1>7. QED
  BY <1>2, <1>3, <1>5, <1>6 DEF Ahead

\* A later stage with no more polls and goals than before.
LEMMA LaterStage ==
  ASSUME NEW old \in CallRows, NEW new \in CallRows, new.work = old.work,
         Stage[new.step] < Stage[old.step],
         PollsAhead(new) <= PollsAhead(old), GoalsAhead(new) <= GoalsAhead(old)
  PROVE  Ahead(new) < Ahead(old)
<1>1. WorkAhead(new) = WorkAhead(old)
  BY DEF WorkAhead
<1>2. QED
  BY <1>1, AheadTypes DEF Ahead

LEMMA Over ==
  ASSUME NEW old \in CallRows, NEW new \in CallRows, new.work = old.work,
         old.step # "end", new.step = "end"
  PROVE  Ahead(new) < Ahead(old)
<1>1. Stage[new.step] = 0 /\ PollsAhead(new) = 0 /\ GoalsAhead(new) = 0
  BY DEF Stage, PollsAhead, GoalsAhead
<1>2. QED
  BY <1>1, AheadTypes, LaterStage

\* A request that is neither the last of its tool nor about one of the goals.
Early == Requests \ {"sequents", "rules", "obligations", "version"}

LEMMA EarlierStage ==
  ASSUME NEW old \in CallRows, NEW new \in CallRows, new.work = old.work,
         new.waited = old.waited, old.step \in Early \cup {"resolve"},
         Stage[new.step] < Stage[old.step],
         new.step \in {"start", "submit", "await"} =>
             old.step \in {"resolve", "start", "submit"}
  PROVE  Ahead(new) < Ahead(old)
<1>1. GoalsAhead(old) = Cardinality(Goals)
  BY DEF GoalsAhead, Early, Requests
<1>2. GoalsAhead(new) <= GoalsAhead(old)
  BY <1>1, AheadTypes
<1>3. new.step # "resolve"
  BY DEF Stage, Early, Requests
<1>4. PollsAhead(new) <= PollsAhead(old)
  <2>1. CASE new.step \in {"start", "submit", "await"}
    BY <2>1, AheadTypes DEF PollsAhead
  <2>2. CASE new.step \notin {"start", "submit", "await"}
    BY <1>3, <2>2, AheadTypes DEF PollsAhead
  <2>3. QED
    BY <2>1, <2>2
<1>5. QED
  BY <1>2, <1>4, LaterStage

LEMMA OwnStepAhead ==
  ASSUME IInv, IInv', NEW c \in Calls, Step(c)
  PROVE  Ahead(call'[c]) < Ahead(call[c])
<1>0. /\ call \in [Calls -> CallRows] /\ call[c] \in CallRows /\ call'[c] \in CallRows
      /\ VerdictInv(c)
  BY CallFacts DEF IInv
<1>1. CASE Resolve(c)
  <2>1. PICK s, p : Become(c, [call[c] EXCEPT !.step = FirstRequest[call[c].tool],
                                              !.server = s, !.proof = p])
    BY <1>1 DEF Resolve
  <2>2. /\ call'[c].step = FirstRequest[call[c].tool] /\ call[c].step = "resolve"
        /\ call'[c].waited = call[c].waited /\ call'[c].work = call[c].work
    BY <1>0, <1>1, <2>1 DEF Become, Resolve, CallRows
  <2>3. Stage[FirstRequest[call[c].tool]] < Stage["resolve"]
    BY <1>0 DEF Stage, FirstRequest, CallRows, Tools
  <2>4. QED
    BY <1>0, <2>2, <2>3, EarlierStage
<1>2. CASE HearProof(c)
  <2>1. PICK s, p : Become(c, [call[c] EXCEPT !.step = "submit", !.server = s, !.proof = p])
    BY <1>2 DEF HearProof
  <2>2. /\ call'[c].step = "submit" /\ call[c].step = "start"
        /\ call'[c].waited = call[c].waited /\ call'[c].work = call[c].work
    BY <1>0, <1>2, <2>1 DEF Become, HearProof, CallRows
  <2>3. QED
    BY <1>0, <2>2, EarlierStage DEF Early, Requests, Stage
<1>3. CASE HearTaskId(c)
  <2>1. PICK s : Become(c, [call[c] EXCEPT !.step = "await", !.server = s, !.work = "RUNNING"])
    BY <1>3 DEF HearTaskId
  <2>2. /\ call'[c].step = "await" /\ call[c].step = "submit"
        /\ call'[c].waited = call[c].waited /\ call'[c].work = "RUNNING"
    BY <1>0, <1>3, <2>1 DEF Become, HearTaskId, CallRows
  <2>3. /\ PollsAhead(call'[c]) = PollsAhead(call[c])
        /\ GoalsAhead(call'[c]) = GoalsAhead(call[c])
        /\ Stage[call'[c].step] = 5 /\ Stage[call[c].step] = 7
    BY <2>2 DEF PollsAhead, GoalsAhead, Stage
  <2>4. QED
    BY <1>0, <2>3, AheadTypes DEF Ahead
<1>4. CASE PollAgain(c)
  <2>1. Become(c, [call[c] EXCEPT !.waited = call[c].waited + 1])
    BY <1>4 DEF PollAgain
  <2>2. /\ call'[c].step = "await" /\ call[c].step = "await"
        /\ call'[c].waited = call[c].waited + 1 /\ call'[c].work = call[c].work
        /\ call[c].waited \in 0..Patience
    BY <1>0, <1>4, <2>1 DEF Become, PollAgain, HearTask, CallRows
  <2>3. /\ PollsAhead(call'[c]) < PollsAhead(call[c])
        /\ GoalsAhead(call'[c]) = GoalsAhead(call[c])
        /\ WorkAhead(call'[c]) = WorkAhead(call[c])
    BY <2>2, McpAssumption DEF PollsAhead, GoalsAhead, WorkAhead
  <2>4. QED
    BY <1>0, <2>2, <2>3, AheadTypes DEF Ahead
<1>5. CASE \/ GiveUp(c) \/ TaskFailed(c) \/ HearObligations(c) \/ HearVersion(c) \/ Report(c)
           \/ Refused(c) \/ Lost(c)
  <2>1. call[c].step # "end"
    BY <1>5 DEF GiveUp, TaskFailed, HearTask, HearObligations, HearVersion, Report,
       Refused, Lost, Asking, Requests
  <2>2. call'[c].step = "end" /\ call'[c].work = call[c].work
    <3>1. CASE \E text : End(c, text)
      BY <1>0, <3>1 DEF End, Become, CallRows
    <3>2. CASE Refused(c)
      <4>1. PICK k : Become(c, [call[c] EXCEPT !.step = "end", !.answer = Headline(c),
                                               !.code = k])
        BY <3>2 DEF Refused
      <4>2. call'[c] = [call[c] EXCEPT !.step = "end", !.answer = Headline(c), !.code = k]
        BY <1>0, <4>1 DEF Become
      <4>3. QED
        BY <1>0, <4>2 DEF CallRows
    <3>3. CASE Lost(c)
      <4>1. PICK w : Become(c, [call[c] EXCEPT !.step = "end", !.answer = "error",
                                               !.written = w])
        BY <3>3 DEF Lost
      <4>2. call'[c] = [call[c] EXCEPT !.step = "end", !.answer = "error", !.written = w]
        BY <1>0, <4>1 DEF Become
      <4>3. QED
        BY <1>0, <4>2 DEF CallRows
    <3>4. QED
      BY <1>5, <3>1, <3>2, <3>3
         DEF GiveUp, TaskFailed, HearObligations, HearVersion, Report
  <2>3. QED
    BY <1>0, <2>1, <2>2, Over
<1>6. CASE TaskSucceeded(c) \/ HearRules(c)
  <2>1. PICK request :
           /\ Proceed(c, request)
           /\ \/ call[c].step = "await" /\ request \in {"obligations", "statistics"}
              \/ call[c].step = "rules" /\ request = "sequents"
    BY <1>6 DEF TaskSucceeded, HearTask, HearRules, Served
  <2>2. call'[c] = [call[c] EXCEPT !.step = request]
    BY <1>0, <2>1 DEF Proceed, Become
  <2>3. /\ call'[c].step = request /\ call'[c].waited = call[c].waited
        /\ call'[c].work = call[c].work /\ call'[c].todo = call[c].todo
    BY <1>0, <2>2 DEF CallRows
  <2>4. CASE call[c].step = "await"
    BY <1>0, <2>1, <2>3, <2>4, EarlierStage DEF Early, Requests, Stage
  <2>5. CASE call[c].step = "rules"
    <3>1. /\ PollsAhead(call'[c]) = PollsAhead(call[c])
          /\ GoalsAhead(call'[c]) = GoalsAhead(call[c])
          /\ Stage[call'[c].step] < Stage[call[c].step]
      BY <2>1, <2>3, <2>5 DEF PollsAhead, GoalsAhead, Stage
    <3>2. QED
      BY <1>0, <2>3, <3>1, AheadTypes, LaterStage
  <2>6. QED
    BY <2>1, <2>4, <2>5
<1>7. CASE HearSaved(c) \/ HearStatistics(c) \/ HearGoals(c) \/ HearDiagnoses(c)
  <2>1. /\ call[c].step = "save" => HearSaved(c)
        /\ call[c].step = "statistics" => HearStatistics(c)
        /\ call[c].step = "goals" => HearGoals(c)
        /\ call[c].step = "diagnose" => HearDiagnoses(c)
        /\ call[c].step \in {"save", "statistics", "goals", "diagnose"}
    BY <1>7 DEF HearSaved, HearStatistics, HearGoals, HearDiagnoses, Served
  <2>2. ASSUME NEW row, Become(c, row), row.waited = call[c].waited, row.work = call[c].work,
               Stage[row.step] < Stage[call[c].step],
               row.step \notin {"start", "submit", "await"}
        PROVE  Ahead(call'[c]) < Ahead(call[c])
    <3>1. call'[c] = row
      BY <1>0, <2>2 DEF Become
    <3>2. call[c].step \in Early
      BY <2>1 DEF Early, Requests
    <3>3. QED
      BY <1>0, <2>2, <3>1, <3>2, EarlierStage
  <2>3. CASE HearSaved(c)
    <3> DEFINE row == [call[c] EXCEPT !.step = "statistics", !.written = TRUE]
    <3>1. Become(c, row) /\ call[c].step = "save"
      BY <2>3 DEF HearSaved, Served
    <3>2. row.step = "statistics" /\ row.waited = call[c].waited /\ row.work = call[c].work
      BY <1>0 DEF CallRows
    <3> HIDE DEF row
    <3>3. QED
      BY <2>2, <3>1, <3>2 DEF Stage
  <2>4. CASE HearStatistics(c)
    <3>0. PICK state \in ReadOf(call[c].proof) :
              IF AsksForGoals(c, state)
              THEN Become(c, [call[c] EXCEPT !.step = "goals", !.seen = state])
              ELSE Become(c, [call[c] EXCEPT !.step = "end", !.seen = state, !.answer = state])
      BY <2>4 DEF HearStatistics
    <3> DEFINE asks == [call[c] EXCEPT !.step = "goals", !.seen = state]
               ends == [call[c] EXCEPT !.step = "end", !.seen = state, !.answer = state]
    <3>1. (Become(c, asks) \/ Become(c, ends)) /\ call[c].step = "statistics"
      BY <2>4, <3>0 DEF HearStatistics, Served
    <3>2. /\ asks.step = "goals" /\ asks.waited = call[c].waited
          /\ asks.work = call[c].work
          /\ ends.step = "end" /\ ends.waited = call[c].waited /\ ends.work = call[c].work
      BY <1>0 DEF CallRows
    <3> HIDE DEF asks, ends
    <3>3. QED
      BY <2>2, <3>1, <3>2 DEF Stage
  <2>5. CASE HearGoals(c)
    <3> DEFINE goals == open[call[c].proof]
               advice == IF call[c].seen = "open" THEN Remedy(call[c].outcome) ELSE {}
               goesOn == [call[c] EXCEPT !.step = "diagnose", !.listed = goals]
               ends == [call[c] EXCEPT !.step = "end", !.listed = goals,
                                       !.answer = call[c].seen, !.advice = advice]
    <3>1. (Become(c, goesOn) \/ Become(c, ends)) /\ call[c].step = "goals"
      BY <2>5 DEF HearGoals, Served
    <3> HIDE DEF goals, advice
    <3>2. /\ goesOn.step = "diagnose" /\ goesOn.waited = call[c].waited
          /\ goesOn.work = call[c].work
          /\ ends.step = "end" /\ ends.waited = call[c].waited /\ ends.work = call[c].work
      BY <1>0 DEF CallRows
    <3> HIDE DEF goesOn, ends
    <3>3. QED
      BY <2>2, <3>1, <3>2 DEF Stage
  <2>6. CASE HearDiagnoses(c)
    <3>1. PICK e, o, t : Become(c, [call[c] EXCEPT !.step = "sequents", !.explained = e,
                                                   !.outcome = o, !.todo = t])
      BY <2>6 DEF HearDiagnoses
    <3> DEFINE row == [call[c] EXCEPT !.step = "sequents", !.explained = e,
                                      !.outcome = o, !.todo = t]
    <3>2. row.step = "sequents" /\ row.waited = call[c].waited /\ row.work = call[c].work
      BY <1>0 DEF CallRows
    <3>3. Become(c, row) /\ call[c].step = "diagnose"
      BY <2>6, <3>1 DEF HearDiagnoses, Served
    <3> HIDE DEF row
    <3>4. QED
      BY <2>2, <3>2, <3>3 DEF Stage
  <2>7. QED
    BY <1>7, <2>3, <2>4, <2>5, <2>6
<1>8. CASE HearSequent(c)
  <2>1. PICK g \in call[c].todo, q \in {"rules", "sequents"} : \E a :
           Become(c, [call[c] EXCEPT !.step = q, !.todo = call[c].todo \ {g}, !.advice = a])
    BY <1>8 DEF HearSequent
  <2>0. PICK a : Become(c, [call[c] EXCEPT !.step = q, !.todo = call[c].todo \ {g},
                                           !.advice = a])
    BY <2>1
  <2> DEFINE rest == call[c].todo \ {g}
             row == [call[c] EXCEPT !.step = q, !.todo = rest, !.advice = a]
  <2>5. call'[c] = row /\ call[c].step = "sequents"
    BY <1>0, <1>8, <2>0 DEF Become, HearSequent, Served
  <2>6. row.step = q /\ row.work = call[c].work /\ row.todo = rest
    <3> HIDE DEF rest
    <3>1. QED
      BY <1>0 DEF CallRows
  <2>2. /\ call'[c].step = q /\ call[c].step = "sequents" /\ call'[c].work = call[c].work
        /\ call'[c].todo = call[c].todo \ {g} /\ call[c].todo \in SUBSET Goals
    <3> HIDE DEF row
    <3>1. QED
      BY <1>0, <2>5, <2>6 DEF CallRows
  <2>3. /\ Cardinality(call'[c].todo) = Cardinality(call[c].todo) - 1
        /\ Cardinality(call[c].todo) \in Nat
    BY <2>1, <2>2, GoalsFinite, FS_Subset, FS_RemoveElement, FS_CardinalityType
  <2>4. /\ GoalsAhead(call'[c]) = GoalsAhead(call[c]) - 1
        /\ PollsAhead(call'[c]) = 0 /\ PollsAhead(call[c]) = 0
        /\ WorkAhead(call'[c]) = WorkAhead(call[c])
        /\ Stage[call'[c].step] <= 2 /\ Stage[call[c].step] = 1
    BY <2>1, <2>2, <2>3 DEF GoalsAhead, PollsAhead, WorkAhead, Stage
  <2>7. QED
    BY <1>0, <2>4, AheadTypes DEF Ahead
<1>9. QED
  BY <1>1, <1>2, <1>3, <1>4, <1>5, <1>6, <1>7, <1>8 DEF Step

\* A call puts a bounded number of requests and hears of the end of its task once,
\* whatever servers and others do: for any patience and any finite set of goals.
THEOREM RequestsBoundedCorrect == Spec => RequestsBounded
<1>1. IInv /\ IInv' /\ [Next]_vars =>
          [\A c \in Calls :
              call'[c] # call[c] => Ahead(call'[c]) \in 0 .. Ahead(call[c]) - 1]_vars
  <2> SUFFICES ASSUME IInv, IInv', [Next]_vars, NEW c \in Calls, call'[c] # call[c]
               PROVE  Ahead(call'[c]) < Ahead(call[c])
    <3>1. ASSUME IInv, IInv', NEW c \in Calls
          PROVE  Ahead(call[c]) \in Nat /\ Ahead(call'[c]) \in Nat
      BY <3>1, AheadTypes DEF IInv
    <3>2. QED
      BY <3>1
  <2>0. call \in [Calls -> CallRows] /\ call[c] \in CallRows /\ call'[c] \in CallRows
    BY DEF IInv
  <2>1. PICK d \in Calls : WorkEnds(d) \/ Step(d)
    BY DEF Next, World, vars
  <2>2. \A e \in Calls : e # d => call'[e] = call[e]
    BY <2>0, <2>1, OthersStay
  <2>3. d = c
    BY <2>2
  <2>4. CASE WorkEnds(c)
    <3>1. /\ call[c].work = "RUNNING" /\ call'[c].work # "RUNNING"
          /\ call'[c].step = call[c].step /\ call'[c].waited = call[c].waited
          /\ call'[c].todo = call[c].todo
      BY <2>0, <2>4, WorkEndsRow
    <3>2. /\ PollsAhead(call'[c]) = PollsAhead(call[c])
          /\ GoalsAhead(call'[c]) = GoalsAhead(call[c])
          /\ WorkAhead(call'[c]) = 0 /\ WorkAhead(call[c]) = 1
      BY <3>1 DEF PollsAhead, GoalsAhead, WorkAhead
    <3>3. QED
      BY <2>0, <3>1, <3>2, AheadTypes DEF Ahead
  <2>5. CASE Step(c)
    BY <2>5, OwnStepAhead
  <2>6. QED
    BY <2>1, <2>3, <2>4, <2>5
<1>2. QED
  BY <1>1, Inductive, PTL DEF Spec, RequestsBounded
=============================================================================
