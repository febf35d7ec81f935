---------------------------- MODULE RpcTransport ----------------------------
(***************************************************************************)
(* The wire layer, src/keyclient/rpc.py: one JSON-RPC call is one HTTP     *)
(* POST on a connection of its own.  The module follows each invocation of *)
(* RpcTransport.call from the request to what call returns or raises,      *)
(* against a server that may be slow, answer nonsense, die at any point    *)
(* and come back, and against a socket timeout that stops the waiting but  *)
(* not the request.                                                        *)
(*                                                                         *)
(* What the server does with a request is external: it either carries it   *)
(* out or not, and effects counts how often it did.                        *)
(***************************************************************************)
EXTENDS Naturals

CONSTANTS
    Calls,          \* the invocations of call, from any number of clients
    Garbled         \* the kinds of nonsense this server may answer with

VARIABLES
    up,             \* whether the server process exists
    stage,          \* stage[k]: "new", "waiting" or "returned"
    outcome,        \* outcome[k]: what call gave its caller
    wire,           \* wire[k]: what is on the connection of call k
    effects         \* effects[k]: how often the server carried k out

vars == <<up, stage, outcome, wire, effects>>

-----------------------------------------------------------------------------
(* Replies that are neither a result nor an error object, as rpc.py tells  *)
(* them apart.  "malformed" is JSON whose shape the code indexes into and  *)
(* cannot (null, a list, an error member that is null); "void" is an object *)
(* with neither member.                                                    *)
Nonsense == {"empty", "notJson", "notUtf8", "malformed", "void", "httpError"}

ASSUME GarbledAssumption == Garbled \subseteq Nonsense

\* What a dying server leaves behind: a connection closed before any status
\* line, a body shorter than its Content-Length, or a body without a length.
Wreckage == {"reset", "cut", "notJson"}

Readable == {"result", "error"} \cup Nonsense \cup Wreckage

\* "request" has yet to be acted on, "acted" has been and is unanswered.
Wire     == {"idle", "request", "acted"} \cup Readable
Outcomes == {"result", "nothing", "rpcError", "clientError", "escaped"}

\* Mutant: an empty body passes for the result of a method that has none.
ClassifyEmptyAsResult(w) ==
    IF w \in {"result", "empty"} THEN "result"
    ELSE IF w = "void" THEN "nothing"
    ELSE IF w = "error" THEN "rpcError"
    ELSE IF w \in {"reset", "httpError", "notJson"} THEN "clientError"
    ELSE "escaped"

\* Mutant: hands on what it read.
ClassifyHandsOn(w) ==
    IF w = "result" THEN "result"
    ELSE IF w = "error" THEN "rpcError"
    ELSE w

(* What call makes of what it reads.  Its handlers name URLError, OSError  *)
(* and JSONDecodeError: a reset, an HTTP status and a body that does not   *)
(* parse become KeyClientError.  IncompleteRead (a cut body),              *)
(* UnicodeDecodeError and the TypeError or AttributeError of a malformed   *)
(* object are none of these and leave the package as they are.  An object  *)
(* without a result is returned as None, which is no result of any method. *)
Classify(w) ==
    IF w = "result" THEN "result"
    ELSE IF w = "void" THEN "nothing"
    ELSE IF w = "error" THEN "rpcError"
    ELSE IF w \in {"reset", "httpError", "empty", "notJson"} THEN "clientError"
    ELSE "escaped"

-----------------------------------------------------------------------------
Init ==
    /\ up = TRUE
    /\ stage = [k \in Calls |-> "new"]
    /\ outcome = [k \in Calls |-> "none"]
    /\ wire = [k \in Calls |-> "idle"]
    /\ effects = [k \in Calls |-> 0]

\* urlopen connected and sent the request.
Send(k) ==
    /\ stage[k] = "new"
    /\ up
    /\ stage' = [stage EXCEPT ![k] = "waiting"]
    /\ wire' = [wire EXCEPT ![k] = "request"]
    /\ UNCHANGED <<up, outcome, effects>>

\* Nothing listens, or does not accept in time: URLError with nothing sent.
Unreachable(k) ==
    /\ stage[k] = "new"
    /\ stage' = [stage EXCEPT ![k] = "returned"]
    /\ outcome' = [outcome EXCEPT ![k] = "clientError"]
    /\ UNCHANGED <<up, wire, effects>>

\* There is something to read: the reply, or the end of the connection.
Return(k) ==
    /\ stage[k] = "waiting"
    /\ wire[k] \in Readable
    /\ stage' = [stage EXCEPT ![k] = "returned"]
    /\ outcome' = [outcome EXCEPT ![k] = Classify(wire[k])]
    /\ wire' = [wire EXCEPT ![k] = "idle"]
    /\ UNCHANGED <<up, effects>>

\* Mutant: sends the request again instead of giving up.
TimeoutResends(k) ==
    /\ stage[k] = "waiting"
    /\ wire' = [wire EXCEPT ![k] = "request"]
    /\ UNCHANGED <<up, stage, outcome, effects>>

\* Mutant: reports a request that was not answered as refused.
TimeoutAssumesRefused(k) ==
    /\ stage[k] = "waiting"
    /\ stage' = [stage EXCEPT ![k] = "returned"]
    /\ outcome' = [outcome EXCEPT ![k] = "rpcError"]
    /\ UNCHANGED <<up, wire, effects>>

\* The socket timeout, before or during the reply.  TimeoutError is an
\* OSError, so KeyClientError is raised and nothing is sent again; the request
\* stays where it is and the server may still act on it.
Timeout(k) ==
    /\ stage[k] = "waiting"
    /\ stage' = [stage EXCEPT ![k] = "returned"]
    /\ outcome' = [outcome EXCEPT ![k] = "clientError"]
    /\ UNCHANGED <<up, wire, effects>>

-----------------------------------------------------------------------------
(* The server, as far as the wire shows it.                                *)

\* It carries out a request it was sent.
Act(k) ==
    /\ up
    /\ wire[k] = "request"
    /\ wire' = [wire EXCEPT ![k] = "acted"]
    /\ effects' = [effects EXCEPT ![k] = @ + 1]
    /\ UNCHANGED <<up, stage, outcome>>

\* It answers: with a result when it acted, with an error object when it did
\* not, and with nonsense in either case.
Answer(k) ==
    /\ up
    /\ \/ /\ wire[k] = "request"
          /\ \E r \in {"error"} \cup Garbled : wire' = [wire EXCEPT ![k] = r]
       \/ /\ wire[k] = "acted"
          /\ \E r \in {"result"} \cup Garbled : wire' = [wire EXCEPT ![k] = r]
    /\ UNCHANGED <<up, stage, outcome, effects>>

\* What is left of a connection when the server dies: a request it had not
\* answered is gone; an answer may be with the client already, cut short, or lost.
Left(w, remains) ==
    IF w = "idle" THEN "idle"
    ELSE IF w \in {"request", "acted"} THEN "reset"
    ELSE IF remains = "intact" THEN w
    ELSE remains

Crash ==
    /\ up
    /\ up' = FALSE
    /\ \E remains \in [Calls -> Wreckage \cup {"intact"}] :
          wire' = [k \in Calls |-> Left(wire[k], remains[k])]
    /\ UNCHANGED <<stage, outcome, effects>>

Restart ==
    /\ ~up
    /\ up' = TRUE
    /\ UNCHANGED <<stage, outcome, wire, effects>>

-----------------------------------------------------------------------------
Client(k) == Send(k) \/ Unreachable(k) \/ Return(k) \/ Timeout(k)

\* Every call is over, and the server may go on dying and coming back.
Next ==
    \/ \E k \in Calls : Client(k) \/ Act(k) \/ Answer(k)
    \/ Crash
    \/ Restart

Spec == Init /\ [][Next]_vars

\* The only fairness the code brings is its own clock: urlopen was given a
\* timeout, so a wait that nothing answers ends.
FairSpec == Spec /\ \A k \in Calls : WF_vars(Return(k) \/ Timeout(k))

-----------------------------------------------------------------------------
\* The state of a run of call, of its connection and of what the server did.
TypeOK ==
    /\ up \in BOOLEAN
    /\ stage \in [Calls -> {"new", "waiting", "returned"}]
    /\ outcome \in [Calls -> Outcomes \cup {"none"}]
    /\ wire \in [Calls -> Wire]
    /\ effects \in [Calls -> Nat]

\* A request is carried out at most once, whatever is lost, cut short or timed
\* out: rpc.py:3-6 refuses to retry for this reason.
AtMostOnce == \A k \in Calls : effects[k] <= 1

\* What call reports is what happened: a result was carried out, and a request
\* refused with an error object was not and is not carried out later.
AnswerIsTrue ==
    \A k \in Calls :
        /\ outcome[k] = "result" => effects[k] = 1
        /\ outcome[k] = "rpcError" => effects[k] = 0

\* A call that was sent returns or raises, whatever the server does.
EveryCallReturns ==
    \A k \in Calls : (stage[k] = "waiting") ~> (stage[k] = "returned")

(* What the caller knows of a call, in the terms of AtMostOnceCall: only a *)
(* result or an error object tells it anything.                            *)
Verdict(k) ==
    IF stage[k] = "new" THEN "new"
    ELSE IF stage[k] = "waiting" THEN "pending"
    ELSE IF outcome[k] = "result" THEN "yes"
    ELSE IF outcome[k] = "rpcError" THEN "no"
    ELSE "unknown"

Abstract == INSTANCE AtMostOnceCall WITH
                verdict <- [k \in Calls |-> Verdict(k)]

\* The transport implements the at-most-once call its documentation promises.
ImplementsAtMostOnceCall == Abstract!AbsSpec
=============================================================================
