------------------------ MODULE RpcTransport_proofs ------------------------
(***************************************************************************)
(* The wire layer for any number of calls and any kinds of nonsense: a     *)
(* request takes effect at most once, and what call reports is true.       *)
(***************************************************************************)
EXTENDS RpcTransport, TLAPS

(* The invariant that carries both.  A result was carried out and an error *)
(* object was not; a request still to be acted on has had no effect; and a *)
(* call that was answered has nothing left on its connection.              *)
CallInv(k) ==
    /\ effects[k] <= 1
    /\ stage[k] = "new" => wire[k] = "idle" /\ effects[k] = 0
    /\ stage[k] # "returned" => outcome[k] = "none"
    /\ wire[k] \in {"request", "error"} => effects[k] = 0
    /\ wire[k] \in {"acted", "result"} => effects[k] = 1
    /\ outcome[k] \in {"result", "rpcError"} => wire[k] = "idle"
    /\ outcome[k] = "rpcError" => effects[k] = 0
    /\ outcome[k] = "result" => effects[k] = 1

IInv == TypeOK /\ \A k \in Calls : CallInv(k)

\* call hands its caller one of five things, whatever it reads.
LEMMA ClassifyType == \A w : Classify(w) \in Outcomes
  BY DEF Classify, Outcomes

-----------------------------------------------------------------------------
\* The type of the state, for every set of calls.
THEOREM TypeCorrect == Spec => []TypeOK
<1>1. Init => TypeOK
  BY DEF Init, TypeOK, Wire, Outcomes
<1>2. TypeOK /\ [Next]_vars => TypeOK'
  <2> SUFFICES ASSUME TypeOK, [Next]_vars PROVE TypeOK'
    OBVIOUS
  <2> USE GarbledAssumption DEF TypeOK, Wire, Readable, Wreckage
  <2>1. CASE UNCHANGED vars
    BY <2>1 DEF vars
  <2>2. ASSUME NEW k \in Calls, Send(k) PROVE TypeOK'
    BY <2>2 DEF Send
  <2>3. ASSUME NEW k \in Calls, Unreachable(k) PROVE TypeOK'
    BY <2>3 DEF Unreachable, Outcomes
  <2>4. ASSUME NEW k \in Calls, Return(k) PROVE TypeOK'
    BY <2>4, ClassifyType DEF Return
  <2>5. ASSUME NEW k \in Calls, Timeout(k) PROVE TypeOK'
    BY <2>5 DEF Timeout, Outcomes
  <2>6. ASSUME NEW k \in Calls, Act(k) PROVE TypeOK'
    BY <2>6 DEF Act
  <2>7. ASSUME NEW k \in Calls, Answer(k) PROVE TypeOK'
    BY <2>7 DEF Answer
  <2>8. CASE Crash
    BY <2>8 DEF Crash, Left
  <2>9. CASE Restart
    BY <2>9 DEF Restart
  <2>10. QED
    BY <2>1, <2>2, <2>3, <2>4, <2>5, <2>6, <2>7, <2>8, <2>9 DEF Next, Client
<1>3. QED
  BY <1>1, <1>2, PTL DEF Spec

-----------------------------------------------------------------------------
\* The invariant, step by step.
LEMMA Inductive == Spec => []IInv
<1>1. Init => IInv
  BY DEF Init, IInv, TypeOK, Wire, Outcomes, CallInv
<1>2. IInv /\ [Next]_vars => (\A k \in Calls : CallInv(k))'
  <2> SUFFICES ASSUME IInv, [Next]_vars, NEW k \in Calls PROVE CallInv(k)'
    OBVIOUS
  <2>0. TypeOK /\ CallInv(k)
    BY DEF IInv
  <2> USE <2>0, GarbledAssumption
      DEF TypeOK, CallInv, Nonsense, Readable, Wreckage, Outcomes
  <2>1. CASE UNCHANGED vars
    BY <2>1 DEF vars
  <2>2. ASSUME NEW j \in Calls, Send(j) PROVE CallInv(k)'
    BY <2>2 DEF Send
  <2>3. ASSUME NEW j \in Calls, Unreachable(j) PROVE CallInv(k)'
    BY <2>3 DEF Unreachable
  <2>4. ASSUME NEW j \in Calls, Return(j) PROVE CallInv(k)'
    <3>1. CASE j = k
      BY <2>4, <3>1 DEF Return, Classify
    <3>2. CASE j # k
      BY <2>4, <3>2 DEF Return
    <3>3. QED
      BY <3>1, <3>2
  <2>5. ASSUME NEW j \in Calls, Timeout(j) PROVE CallInv(k)'
    BY <2>5 DEF Timeout
  <2>6. ASSUME NEW j \in Calls, Act(j) PROVE CallInv(k)'
    BY <2>6 DEF Act
  <2>7. ASSUME NEW j \in Calls, Answer(j) PROVE CallInv(k)'
    BY <2>7 DEF Answer
  <2>8. CASE Crash
    BY <2>8 DEF Crash, Left
  <2>9. CASE Restart
    BY <2>9 DEF Restart
  <2>10. QED
    BY <2>1, <2>2, <2>3, <2>4, <2>5, <2>6, <2>7, <2>8, <2>9 DEF Next, Client
<1>3. QED
  BY <1>1, <1>2, TypeCorrect, PTL DEF Spec, IInv

\* No request is carried out twice, whatever fails.
THEOREM AtMostOnceCorrect == Spec => []AtMostOnce
<1>1. IInv => AtMostOnce
  BY DEF IInv, CallInv, AtMostOnce
<1>2. QED
  BY <1>1, Inductive, PTL

-----------------------------------------------------------------------------
\* What call reports is what happened to the request.
THEOREM AnswerIsTrueCorrect == Spec => []AnswerIsTrue
<1>1. IInv => AnswerIsTrue
  BY DEF IInv, CallInv, AnswerIsTrue
<1>2. QED
  BY <1>1, Inductive, PTL

-----------------------------------------------------------------------------
\* The verdicts as one function, so that a step can be said to change one.
Verdicts == [k \in Calls |-> Verdict(k)]

\* A step that leaves a call's stage and outcome alone leaves its verdict.
LEMMA VerdictFrame ==
  ASSUME UNCHANGED <<stage, outcome>> PROVE Verdicts' = Verdicts
  BY DEF Verdicts, Verdict

\* A step that moves one call's stage and outcome moves its verdict only.
LEMMA VerdictStep ==
  ASSUME TypeOK, NEW k \in Calls, NEW s, NEW o,
         stage' = [stage EXCEPT ![k] = s],
         outcome' = [outcome EXCEPT ![k] = o]
  PROVE  Verdicts' = [Verdicts EXCEPT ![k] = Verdict(k)']
  BY DEF TypeOK, Verdicts, Verdict

\* Every behaviour of the transport is one of the at-most-once call.
THEOREM Refinement == Spec => ImplementsAtMostOnceCall
<1>1. Init => Abstract!AbsInit
  BY DEF Init, Abstract!AbsInit, Verdict
<1>2. IInv /\ [Next]_vars => [Abstract!AbsNext]_(Abstract!absVars)
  <2> SUFFICES ASSUME IInv, [Next]_vars
               PROVE  Abstract!AbsNext \/ UNCHANGED <<Verdicts, effects>>
    BY DEF Abstract!absVars, Verdicts
  <2>0. TypeOK /\ \A k \in Calls : CallInv(k)
    BY DEF IInv
  <2>1. CASE UNCHANGED vars
    BY <2>1, VerdictFrame DEF vars
  <2>2. ASSUME NEW k \in Calls, Send(k)
        PROVE  Abstract!AbsNext \/ UNCHANGED <<Verdicts, effects>>
    <3>1. stage' = [stage EXCEPT ![k] = "waiting"]
          /\ outcome' = [outcome EXCEPT ![k] = outcome[k]]
      BY <2>0, <2>2 DEF Send, TypeOK
    <3>2. Verdicts' = [Verdicts EXCEPT ![k] = "pending"]
      BY <2>0, <3>1, VerdictStep DEF Verdict, TypeOK
    <3>3. Abstract!Issue(k)
      BY <2>0, <2>2, <3>2 DEF Abstract!Issue, Send, Verdicts, Verdict
    <3>4. QED
      BY <3>3 DEF Abstract!AbsNext
  <2>3. ASSUME NEW k \in Calls, Unreachable(k)
        PROVE  Abstract!AbsNext \/ UNCHANGED <<Verdicts, effects>>
    <3>1. Verdicts' = [Verdicts EXCEPT ![k] = "unknown"]
      BY <2>0, <2>3, VerdictStep DEF Unreachable, Verdict, TypeOK
    <3>2. Abstract!LoseTrack(k)
      BY <2>0, <2>3, <3>1 DEF Abstract!LoseTrack, Unreachable, Verdicts, Verdict
    <3>3. QED
      BY <3>2 DEF Abstract!AbsNext
  <2>4. ASSUME NEW k \in Calls, Return(k)
        PROVE  Abstract!AbsNext \/ UNCHANGED <<Verdicts, effects>>
    <3>0. Verdicts' = [Verdicts EXCEPT ![k] = Verdict(k)'] /\ Verdicts[k] = "pending"
      BY <2>0, <2>4, VerdictStep DEF Return, Verdicts, Verdict
    <3>1. CASE wire[k] = "result"
      <4>1. Verdict(k)' = "yes"
        BY <2>0, <2>4, <3>1 DEF Return, Verdict, Classify, TypeOK
      <4>2. Abstract!Confirm(k)
        BY <2>0, <2>4, <3>0, <3>1, <4>1
           DEF Abstract!Confirm, Return, Verdicts, CallInv
      <4>3. QED
        BY <4>2 DEF Abstract!AbsNext
    <3>2. CASE wire[k] = "error"
      <4>1. Verdict(k)' = "no"
        BY <2>0, <2>4, <3>2 DEF Return, Verdict, Classify, TypeOK
      <4>2. Abstract!Deny(k)
        BY <2>0, <2>4, <3>0, <3>2, <4>1
           DEF Abstract!Deny, Return, Verdicts, CallInv
      <4>3. QED
        BY <4>2 DEF Abstract!AbsNext
    <3>3. CASE wire[k] \notin {"result", "error"}
      <4>1. Verdict(k)' = "unknown"
        BY <2>0, <2>4, <3>3
           DEF Return, Verdict, Classify, TypeOK
      <4>2. Abstract!LoseTrack(k)
        BY <2>0, <2>4, <3>0, <4>1 DEF Abstract!LoseTrack, Return, Verdicts
      <4>3. QED
        BY <4>2 DEF Abstract!AbsNext
    <3>4. QED
      BY <3>1, <3>2, <3>3
  <2>5. ASSUME NEW k \in Calls, Timeout(k)
        PROVE  Abstract!AbsNext \/ UNCHANGED <<Verdicts, effects>>
    <3>1. Verdicts' = [Verdicts EXCEPT ![k] = "unknown"]
      BY <2>0, <2>5, VerdictStep DEF Timeout, Verdict, TypeOK
    <3>2. Abstract!LoseTrack(k)
      BY <2>0, <2>5, <3>1 DEF Abstract!LoseTrack, Timeout, Verdicts, Verdict
    <3>3. QED
      BY <3>2 DEF Abstract!AbsNext
  <2>6. ASSUME NEW k \in Calls, Act(k)
        PROVE  Abstract!AbsNext \/ UNCHANGED <<Verdicts, effects>>
    <3>1. Verdicts' = Verdicts
      BY <2>6, VerdictFrame DEF Act
    <3>2. Verdicts[k] \in {"pending", "unknown"} /\ effects[k] = 0
      BY <2>0, <2>6 DEF Act, Verdicts, Verdict, CallInv, TypeOK, Outcomes
    <3>3. Abstract!TakeEffect(k)
      BY <2>0, <2>6, <3>1, <3>2 DEF Abstract!TakeEffect, Act, Verdicts, TypeOK
    <3>4. QED
      BY <3>3 DEF Abstract!AbsNext
  <2>7. ASSUME NEW k \in Calls, Answer(k)
        PROVE  UNCHANGED <<Verdicts, effects>>
    BY <2>7, VerdictFrame DEF Answer
  <2>8. CASE Crash
    BY <2>8, VerdictFrame DEF Crash
  <2>9. CASE Restart
    BY <2>9, VerdictFrame DEF Restart
  <2>10. QED
    BY <2>1, <2>2, <2>3, <2>4, <2>5, <2>6, <2>7, <2>8, <2>9 DEF Next, Client
<1>3. QED
  BY <1>1, <1>2, Inductive, PTL
     DEF Spec, ImplementsAtMostOnceCall, Abstract!AbsSpec
=============================================================================
