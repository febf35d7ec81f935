--------------------------- MODULE AtMostOnceCall ---------------------------
(***************************************************************************)
(* What a caller of the wire layer may rely on, and nothing about how.     *)
(*                                                                         *)
(* rpc.py opens with the promise: a request that may have been applied     *)
(* once is never applied again by this package.  As a specification: a     *)
(* call takes effect at most once; a positive answer means it took effect; *)
(* a refusal means it did not and never will; and a call that ended        *)
(* without an answer is undecided -- it may have taken effect already, or  *)
(* may still do so behind the caller's back.                               *)
(***************************************************************************)
EXTENDS Naturals

CONSTANT Calls      \* the invocations of RpcTransport.call, each one its own

VARIABLES
    verdict,        \* verdict[k]: what the caller knows about call k
    effects         \* effects[k]: how often the server carried call k out

absVars == <<verdict, effects>>

Verdicts == {"new", "pending", "yes", "no", "unknown"}

AbsInit ==
    /\ verdict = [k \in Calls |-> "new"]
    /\ effects = [k \in Calls |-> 0]

Issue(k) ==
    /\ verdict[k] = "new"
    /\ verdict' = [verdict EXCEPT ![k] = "pending"]
    /\ UNCHANGED effects

\* The one place a call acts.  It may come after the caller stopped waiting.
TakeEffect(k) ==
    /\ verdict[k] \in {"pending", "unknown"}
    /\ effects[k] = 0
    /\ effects' = [effects EXCEPT ![k] = 1]
    /\ UNCHANGED verdict

Confirm(k) ==
    /\ verdict[k] = "pending"
    /\ effects[k] = 1
    /\ verdict' = [verdict EXCEPT ![k] = "yes"]
    /\ UNCHANGED effects

Deny(k) ==
    /\ verdict[k] = "pending"
    /\ effects[k] = 0
    /\ verdict' = [verdict EXCEPT ![k] = "no"]
    /\ UNCHANGED effects

LoseTrack(k) ==
    /\ verdict[k] \in {"new", "pending"}
    /\ verdict' = [verdict EXCEPT ![k] = "unknown"]
    /\ UNCHANGED effects

AbsNext ==
    \E k \in Calls :
        Issue(k) \/ TakeEffect(k) \/ Confirm(k) \/ Deny(k) \/ LoseTrack(k)

AbsSpec == AbsInit /\ [][AbsNext]_absVars
=============================================================================
