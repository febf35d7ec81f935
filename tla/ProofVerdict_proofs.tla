------------------------- MODULE ProofVerdict_proofs -------------------------
(***************************************************************************)
(* What follows from ProofVerdict alone, and so holds of whatever          *)
(* implements it: a verdict stands.                                        *)
(***************************************************************************)
EXTENDS ProofVerdict, TLAPS

\* A sample was taken of a proof that was there, after the work was done.
SampleInv ==
    /\ truth \in [Proofs -> States]
    /\ looked \in [Askers -> [proof : Proofs, state : States] \cup {NoSample}]
    /\ told \in [Askers -> States \cup {"none"}]
    /\ done \in [Askers -> BOOLEAN]
    /\ \A k \in Askers :
          /\ looked[k] # NoSample =>
                /\ done[k]
                /\ looked[k].proof \in Proofs
                /\ looked[k].state \in {"open", "closed"}
                /\ truth[looked[k].proof] \in Later(looked[k].state)
          /\ told[k] # "none" => looked[k] # NoSample /\ told[k] = looked[k].state

\* What comes later than something later is later.
LEMMA LaterStill ==
  ASSUME NEW a \in States, NEW b \in Later(a), NEW c \in Later(b) PROVE c \in Later(a)
  BY DEF States, Later

LEMMA ProgressKeeps ==
  ASSUME SampleInv, Progress PROVE SampleInv'
<1>1. UNCHANGED <<looked, told>> /\ \A k \in Askers : done[k] => done'[k]
  BY DEF Progress
<1>2. ASSUME NEW k \in Askers, looked[k] # NoSample
      PROVE  truth'[looked[k].proof] \in Later(looked[k].state)
  <2>1. /\ looked[k].proof \in Proofs /\ looked[k].state \in States
        /\ truth[looked[k].proof] \in Later(looked[k].state)
    BY <1>2 DEF SampleInv, States
  <2>2. truth'[looked[k].proof] \in Later(truth[looked[k].proof])
    BY <2>1 DEF Progress
  <2>3. QED
    BY <2>1, <2>2, LaterStill
<1>3. QED
  BY <1>1, <1>2 DEF SampleInv, Progress

LEMMA AskerKeeps ==
  ASSUME SampleInv, NEW k \in Askers, Look(k) \/ Forget(k) \/ Tell(k) \/ LookAndTell(k)
  PROVE  SampleInv'
<1>1. CASE Look(k) \/ LookAndTell(k)
  <2>1. PICK p \in Proofs, state \in {"open", "closed"} :
          /\ state \in Seen(p)
          /\ truth[p] # "absent"
          /\ looked' = [looked EXCEPT ![k] = [proof |-> p, state |-> state]]
          /\ told' = told \/ told' = [told EXCEPT ![k] = state]
    BY <1>1 DEF Look, LookAndTell, Seen, SampleInv, States
  <2> DEFINE sample == [proof |-> p, state |-> state]
  <2>2. state \in {"open", "closed"} /\ truth[p] \in Later(state)
    BY <2>1 DEF SampleInv, States, Later, Seen
  <2>3. done[k] /\ told[k] = "none" /\ UNCHANGED <<truth, done>>
    BY <1>1 DEF Look, LookAndTell
  <2>4. /\ sample \in [proof : Proofs, state : States] /\ sample # NoSample
        /\ sample.proof = p /\ sample.state = state
    BY <2>2 DEF NoSample, States
  <2> HIDE DEF sample
  <2>5. /\ looked'[k] = sample /\ told'[k] \in {"none", state}
        /\ \A j \in Askers : j # k => looked'[j] = looked[j] /\ told'[j] = told[j]
    BY <2>1, <2>3 DEF SampleInv, sample
  <2>6. /\ looked' \in [Askers -> [proof : Proofs, state : States] \cup {NoSample}]
        /\ told' \in [Askers -> States \cup {"none"}]
    BY <2>1, <2>2, <2>4 DEF SampleInv, States, sample
  <2>7. QED
    BY <2>2, <2>3, <2>4, <2>5, <2>6 DEF SampleInv
<1>2. CASE Forget(k)
  BY <1>2 DEF Forget, SampleInv
<1>3. CASE Tell(k)
  BY <1>3 DEF Tell, SampleInv, States
<1>4. QED
  BY <1>1, <1>2, <1>3

\* A verdict that was told stands: the work was done and the proof is what it was
\* said to be, or has closed since, however many others ask and work.
THEOREM VerdictStandsCorrect == AbsSpec => []VerdictStands
<1>1. AbsInit => SampleInv
  BY DEF AbsInit, SampleInv, States
<1>2. SampleInv /\ [AbsNext]_verdictVars => SampleInv'
  <2> SUFFICES ASSUME SampleInv, [AbsNext]_verdictVars PROVE SampleInv'
    OBVIOUS
  <2>1. CASE UNCHANGED verdictVars
    BY <2>1 DEF verdictVars, SampleInv
  <2>2. CASE AbsNext
    BY <2>2, ProgressKeeps, AskerKeeps DEF AbsNext
  <2>3. QED
    BY <2>1, <2>2
<1>3. SampleInv => VerdictStands
  BY DEF SampleInv, VerdictStands
<1>4. QED
  BY <1>1, <1>2, <1>3, PTL DEF AbsSpec
=============================================================================
