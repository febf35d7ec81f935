---------------------------- MODULE ProofVerdict ----------------------------
(***************************************************************************)
(* What the command line and the MCP tools promise of a verdict, whatever  *)
(* requests they make for it: the answer "closed" or "open" is the truth   *)
(* about one proof at one moment, looked up after the work that the asker  *)
(* itself had started on it was done.  It may be old when it is told, but  *)
(* a proof that is closed stays closed.  Where the server may leave out    *)
(* that a proof is closed, "open" may be said of a closed one: "closed" is *)
(* never said of an open one.                                              *)
(***************************************************************************)
CONSTANTS
    Proofs,
    Askers,         \* the runs and tool calls that may tell a verdict
    Incomplete,     \* whether the server may leave out that a proof is closed
    None

VARIABLES
    truth,          \* truth[p]: "absent", "open" or "closed"
    done,           \* done[k]: whether the own work of k has succeeded
    looked,         \* looked[k]: the sample k has in hand
    told            \* told[k]: the verdict k gave, "none" before

verdictVars == <<truth, done, looked, told>>

NoSample == [proof |-> None, state |-> "none"]

States == {"absent", "open", "closed"}

\* What a proof can become from one moment to a later one.
Later(state) ==
    IF state = "absent" THEN States
    ELSE IF state = "open" THEN {"open", "closed"}
    ELSE {"closed"}

AbsInit ==
    /\ truth = [p \in Proofs |-> "absent"]
    /\ done \in [Askers -> BOOLEAN]
    /\ looked = [k \in Askers |-> NoSample]
    /\ told = [k \in Askers |-> "none"]

\* Proofs are worked on, by the askers and by others, and work ends.
Progress ==
    /\ truth' \in [Proofs -> States]
    /\ done' \in [Askers -> BOOLEAN]
    /\ \A p \in Proofs : truth'[p] \in Later(truth[p])
    /\ \A k \in Askers : done[k] => done'[k]
    /\ UNCHANGED <<looked, told>>

\* What a look at proof p may show.
Seen(p) == {truth[p]} \cup (IF Incomplete THEN {"open"} ELSE {})

Look(k) ==
    /\ done[k]
    /\ told[k] = "none"
    /\ \E p \in Proofs : \E state \in Seen(p) :
          /\ truth[p] # "absent"
          /\ looked' = [looked EXCEPT ![k] = [proof |-> p, state |-> state]]
    /\ UNCHANGED <<truth, done, told>>

\* It ends without a verdict after all, or may not have heard the answer.
Forget(k) ==
    /\ told[k] = "none"
    /\ looked' = [looked EXCEPT ![k] = NoSample]
    /\ UNCHANGED <<truth, done, told>>

Tell(k) ==
    /\ told[k] = "none"
    /\ looked[k] # NoSample
    /\ told' = [told EXCEPT ![k] = looked[k].state]
    /\ UNCHANGED <<truth, done, looked>>

\* The sample is told in the step that takes it.
LookAndTell(k) ==
    /\ done[k]
    /\ told[k] = "none"
    /\ \E p \in Proofs : \E state \in Seen(p) :
          /\ truth[p] # "absent"
          /\ looked' = [looked EXCEPT ![k] = [proof |-> p, state |-> state]]
          /\ told' = [told EXCEPT ![k] = state]
    /\ UNCHANGED <<truth, done>>

AbsNext ==
    \/ Progress
    \/ \E k \in Askers : Look(k) \/ Forget(k) \/ Tell(k) \/ LookAndTell(k)

AbsSpec == AbsInit /\ [][AbsNext]_verdictVars

-----------------------------------------------------------------------------
\* What the reader of a verdict may hold against the proof at any later time: the
\* asker's own work has been done, and the proof it looked at is what it said, or
\* has closed since.  A proof that was said to be closed is.
VerdictStands ==
    \A k \in Askers :
        told[k] # "none" =>
            /\ done[k]
            /\ looked[k].proof \in Proofs
            /\ truth[looked[k].proof] \in Later(told[k])
=============================================================================
