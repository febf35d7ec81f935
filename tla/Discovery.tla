----------------------------- MODULE Discovery -----------------------------
(***************************************************************************)
(* Finding a server, src/keyclient/discovery.py: servers publish a record  *)
(* in the directory of their user and in that of the workspace they were   *)
(* started on; a client reads both directories and picks one server.       *)
(*                                                                         *)
(* Neither side takes a lock.  The client lists a directory and then reads *)
(* its files one at a time, while servers start, write their records, take *)
(* them away and die with half of one on disk.                             *)
(***************************************************************************)
EXTENDS Naturals

CONSTANTS
    Servers,        \* instance ids; a server process has one for life
    Workspaces,
    None,           \* no workspace, no id asked for, no answer
    Damage          \* how a record may look that is not completely written

(* "torn" does not parse, or lacks a member.  "undecodable" ends inside a   *)
(* character of more than one byte, or holds a number no pid can have.      *)
ASSUME DiscoveryAssumption ==
    /\ None \notin Servers \cup Workspaces
    /\ "user" \notin Workspaces
    /\ Damage \subseteq {"torn", "undecodable"}

VARIABLES
    running,        \* the server processes that exist
    clock,          \* the time of the last start
    started,        \* started[s]: when s started, 0 before that
    where,          \* where[s]: the workspace it was started on
    file,           \* file[d][s]: the record of s in directory d
    reused,         \* dead servers whose pid is that of another process now
    phase,          \* what the query is doing
    ws, want,       \* the workspace and the instance id asked for
    todo,           \* the files of this directory it has still to read
    found, alive,   \* the records it has, and those it takes for alive
    answer,         \* what it answered
    steady, seen    \* auxiliary: what was so since the query began

serverVars == <<running, clock, started, where, file, reused>>
queryVars  == <<phase, ws, want, todo, found, alive, answer>>
vars       == <<serverVars, queryVars, steady, seen>>

-----------------------------------------------------------------------------
Dirs == {"user"} \cup Workspaces

\* The directories s publishes in, and those the query reads.
Home(s)    == {"user", where[s]}
QueryDirs == {"user"} \cup ({ws} \ {None})

Init ==
    /\ running = {}
    /\ clock = 0
    /\ started = [s \in Servers |-> 0]
    /\ where \in [Servers -> Workspaces]
    /\ file = [d \in Dirs |-> [s \in Servers |-> "absent"]]
    /\ reused = {}
    /\ phase = "idle"
    /\ ws = None /\ want = None
    /\ todo = {} /\ found = {} /\ alive = {}
    /\ answer = None
    /\ steady = {} /\ seen = {}

-----------------------------------------------------------------------------
(* The servers.                                                            *)

Start(s) ==
    /\ started[s] = 0
    /\ clock' = clock + 1
    /\ started' = [started EXCEPT ![s] = clock']
    /\ running' = running \cup {s}
    /\ seen' = seen \cup {s}
    /\ UNCHANGED <<where, file, reused, queryVars, steady>>

\* A record is written in pieces, and may be read before the last of them.
Write(s, d) ==
    /\ s \in running /\ d \in Home(s)
    /\ \/ file[d][s] = "absent"
          /\ \E f \in Damage \cup {"whole"} : file' = [file EXCEPT ![d][s] = f]
       \/ file[d][s] \in Damage
          /\ file' = [file EXCEPT ![d][s] = "whole"]
    /\ UNCHANGED <<running, clock, started, where, reused, queryVars, steady, seen>>

\* The server tidies up after itself, or somebody after a server.
Remove(s, d) ==
    /\ file[d][s] # "absent"
    /\ file' = [file EXCEPT ![d][s] = "absent"]
    /\ steady' = steady \ {<<d, s>>}
    /\ UNCHANGED <<running, clock, started, where, reused, queryVars, seen>>

Die(s) ==
    /\ s \in running
    /\ running' = running \ {s}
    /\ steady' = {e \in steady : e[2] # s}
    /\ UNCHANGED <<clock, started, where, file, reused, queryVars, seen>>

\* The pid of a dead server comes up again.
Reuse(s) ==
    /\ started[s] # 0
    /\ s \notin running \cup reused
    /\ reused' = reused \cup {s}
    /\ UNCHANGED <<running, clock, started, where, file, queryVars, steady, seen>>

-----------------------------------------------------------------------------
(* The query: resolve, which calls list_instances and _read_directory.     *)

\* directory.glob, sorted into a list: the names, not yet the contents.
Listing(d) == {s \in Servers : file[d][s] # "absent"}

Ask ==
    /\ phase = "idle"
    /\ phase' = "user"
    /\ ws' \in Workspaces \cup {None}
    /\ want' \in Servers \cup {None}
    /\ todo' = Listing("user")
    /\ steady' = {e \in QueryDirs' \X running : file[e[1]][e[2]] = "whole"}
    /\ seen' = running
    /\ UNCHANGED <<serverVars, found, alive, answer>>

\* The user's directory is read; the workspace's is next if one was named.
NextDirectory ==
    /\ phase = "user" /\ todo = {}
    /\ IF ws = None
       THEN phase' = "deciding" /\ UNCHANGED todo
       ELSE phase' = "workspace" /\ todo' = Listing(ws)
    /\ UNCHANGED <<serverVars, ws, want, found, alive, answer, steady, seen>>

LastDirectory ==
    /\ phase = "workspace" /\ todo = {}
    /\ phase' = "deciding"
    /\ UNCHANGED <<serverVars, ws, want, todo, found, alive, answer, steady, seen>>

Directory == IF phase = "user" THEN "user" ELSE ws

\* os.kill(pid, 0): some process has that id.
ProcessExists(s) == s \in running \cup reused

\* Mutant: keeps what it found out about the process and not the record.
ReadRecordLost(s) ==
    /\ phase \in {"user", "workspace"} /\ s \in todo
    /\ file[Directory][s] = "whole"
    /\ todo' = todo \ {s}
    /\ alive' = IF s \notin found /\ ProcessExists(s) THEN alive \cup {s} ELSE alive
    /\ UNCHANGED <<serverVars, phase, ws, want, found, answer, steady, seen>>

\* A whole record.  Of two copies the first counts, with what was found out
\* about the process when it was read.
ReadRecord(s) ==
    /\ phase \in {"user", "workspace"} /\ s \in todo
    /\ file[Directory][s] = "whole"
    /\ todo' = todo \ {s}
    /\ found' = found \cup {s}
    /\ alive' = IF s \notin found /\ ProcessExists(s) THEN alive \cup {s} ELSE alive
    /\ UNCHANGED <<serverVars, phase, ws, want, answer, steady, seen>>

\* Mutant: a broken record ends the listing.
SkipRecordStops(s) ==
    /\ phase \in {"user", "workspace"} /\ s \in todo
    /\ file[Directory][s] \in {"absent", "torn"}
    /\ todo' = {}
    /\ UNCHANGED <<serverVars, phase, ws, want, found, alive, answer, steady, seen>>

\* The file is gone by now, or is not JSON, or lacks a member.
SkipRecord(s) ==
    /\ phase \in {"user", "workspace"} /\ s \in todo
    /\ file[Directory][s] \in {"absent", "torn"}
    /\ todo' = todo \ {s}
    /\ UNCHANGED <<serverVars, phase, ws, want, found, alive, answer, steady, seen>>

\* UnicodeDecodeError and OverflowError are not among the exceptions caught.
Escape(s) ==
    /\ phase \in {"user", "workspace"} /\ s \in todo
    /\ file[Directory][s] = "undecodable"
    /\ phase' = "escaped"
    /\ UNCHANGED <<serverVars, ws, want, todo, found, alive, answer, steady, seen>>

-----------------------------------------------------------------------------
Anchored(s) == where[s] = ws
Matching(s) == want \in {None, s}

\* Mutant: include_stale by default.
CandidatesWithStale ==
    LET matching == {s \in found : Matching(s)}
        anchored == {s \in matching : ws # None /\ Anchored(s)}
    IN  IF anchored = {} THEN matching ELSE anchored

\* Mutant: the id is preferred like the workspace, not demanded.
CandidatesPreferringId ==
    LET named    == {s \in found : want = s}
        matching == IF named = {} THEN found ELSE named
        anchored == {s \in matching : ws # None /\ Anchored(s)}
    IN  (IF anchored = {} THEN matching ELSE anchored) \cap alive

\* Mutant: the workspace is demanded like the id, not preferred.
CandidatesAnchored ==
    {s \in found : Matching(s) /\ (ws # None => Anchored(s))} \cap alive

\* The id is demanded, the workspace preferred, and only then the dead dropped.
Candidates ==
    LET matching == {s \in found : Matching(s)}
        anchored == {s \in matching : ws # None /\ Anchored(s)}
    IN  (IF anchored = {} THEN matching ELSE anchored) \cap alive

Pick ==
    /\ phase = "deciding"
    /\ phase' = "done"
    /\ \E s \in Candidates :
          /\ \A t \in Candidates : started[t] <= started[s]
          /\ answer' = s
    /\ UNCHANGED <<serverVars, ws, want, todo, found, alive, steady, seen>>

\* InstanceNotFoundError
NotFound ==
    /\ phase = "deciding"
    /\ Candidates = {}
    /\ phase' = "done"
    /\ UNCHANGED <<serverVars, ws, want, todo, found, alive, answer, steady, seen>>

Query ==
    \/ Ask \/ NextDirectory \/ LastDirectory \/ Pick \/ NotFound
    \/ \E s \in Servers : ReadRecord(s) \/ SkipRecord(s) \/ Escape(s)

Next ==
    \/ Query
    \/ \E s \in Servers : Start(s) \/ Die(s) \/ Reuse(s)
    \/ \E s \in Servers, d \in Dirs : Write(s, d) \/ Remove(s, d)

Spec == Init /\ [][Next]_vars

-----------------------------------------------------------------------------
\* The state of the servers, their records and the query.
TypeOK ==
    /\ running \subseteq Servers /\ reused \subseteq Servers
    /\ clock \in Nat
    /\ started \in [Servers -> Nat]
    /\ where \in [Servers -> Workspaces]
    /\ file \in [Dirs -> [Servers -> {"absent", "whole"} \cup Damage]]
    /\ phase \in {"idle", "user", "workspace", "deciding", "done", "escaped"}
    /\ ws \in Workspaces \cup {None}
    /\ want \in Servers \cup {None}
    /\ todo \subseteq Servers
    /\ found \subseteq Servers
    /\ alive \subseteq found
    /\ answer \in found \cup {None}
    /\ steady \subseteq Dirs \X Servers
    /\ seen \subseteq Servers

\* The servers asked for that were up, with a whole record where the query looks,
\* from its beginning to now.
SteadyServers == {s \in Servers : Matching(s) /\ \E d \in Dirs : <<d, s>> \in steady}

\* discovery.py:97 and 169-171: the answer was running at some time while the
\* query was, unless its pid is that of another process.
AnswerWasRunning == answer # None => answer \in seen \cup reused

\* discovery.py:94-97: whatever starts, dies or is half-written around it, a
\* server that is steadily there is passed over only for a newer one, or for one
\* anchored to the workspace; and never for nothing if it is anchored itself.
AnswerIsBest ==
    phase = "done" =>
        \A s \in SteadyServers :
            /\ ws # None /\ Anchored(s) =>
                   answer # None /\ Anchored(answer) /\ started[s] <= started[answer]
            /\ ws = None => answer # None
            /\ answer # None =>
                   \/ started[s] <= started[answer]
                   \/ Anchored(answer) /\ ~Anchored(s)

\* What callers of resolve rely on (mcp.py:57-64): it answers with a server that
\* exists or existed, and with no other than the one whose id they gave.
AnswerFits == answer # None => started[answer] # 0 /\ want \in {None, answer}

\* discovery.py:106-107: when a server that is steadily there is not fallen back
\* to, the record of a server of the workspace was read that does not run any more.
NoneOnlyOverTheDead ==
    phase = "done" /\ answer = None /\ SteadyServers # {} =>
        ws # None /\ \E s \in found : Matching(s) /\ Anchored(s) /\ s \notin running

\* discovery.py:106-107: fall back to any instance rather than none.
FallbackServes ==
    phase = "done" /\ answer = None => SteadyServers = {}

\* discovery.py:137: a half-written file costs its own entry, not the listing.
BrokenRecordCostsItself == phase # "escaped"
=============================================================================
