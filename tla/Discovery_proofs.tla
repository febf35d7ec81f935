-------------------------- MODULE Discovery_proofs --------------------------
(***************************************************************************)
(* What a query answers, for any number of servers and workspaces.         *)
(***************************************************************************)
EXTENDS Discovery, TLAPS

\* A process and its record are of a server that was started; a server that was
\* found dead stays dead.
ServerInv ==
    \A s \in Servers :
        /\ s \in running => started[s] # 0
        /\ (\E d \in Dirs : file[d][s] # "absent") => started[s] # 0
        /\ s \in found => started[s] # 0
        /\ s \in found /\ s \notin alive => s \notin running

\* What was steadily there is running and readable.
SteadyInv ==
    \A d \in Dirs, s \in Servers :
        <<d, s>> \in steady =>
            d \in QueryDirs /\ file[d][s] = "whole" /\ s \in running

\* A record that is steadily there is in one of the files still to be read, or
\* among the live ones already.
ReadInv ==
    \A s \in Servers :
        /\ <<"user", s>> \in steady =>
               (phase = "user" /\ s \in todo) \/ s \in alive \/ phase = "escaped"
        /\ ws # None /\ <<ws, s>> \in steady =>
               \/ phase = "workspace" /\ s \in todo
               \/ phase \in {"user", "escaped"}
               \/ s \in alive

IdleInv ==
    /\ phase = "idle" => found = {} /\ alive = {} /\ steady = {} /\ answer = None
    /\ phase = "deciding" => answer = None
    /\ phase = "workspace" => ws # None
    /\ phase \in {"user", "escaped", "workspace"} => answer = None

IInv == TypeOK /\ ServerInv /\ SteadyInv /\ ReadInv /\ IdleInv

-----------------------------------------------------------------------------
THEOREM TypeCorrect == Spec => []TypeOK
<1>1. Init => TypeOK
  BY DiscoveryAssumption DEF Init, TypeOK, Dirs
<1>2. TypeOK /\ [Next]_vars => TypeOK'
  <2> SUFFICES ASSUME TypeOK, [Next]_vars PROVE TypeOK'
    OBVIOUS
  <2> USE DiscoveryAssumption DEF TypeOK, serverVars, queryVars
  <2>1. CASE UNCHANGED vars
    BY <2>1 DEF vars
  <2>2. ASSUME NEW s \in Servers, Start(s) \/ Die(s) \/ Reuse(s) PROVE TypeOK'
    BY <2>2 DEF Start, Die, Reuse
  <2>3. ASSUME NEW s \in Servers, NEW d \in Dirs, Write(s, d) \/ Remove(s, d)
        PROVE  TypeOK'
    BY <2>3 DEF Write, Remove
  <2>4. CASE Ask
    <3>1. QueryDirs' \subseteq Dirs
      BY <2>4 DEF Ask, QueryDirs, Dirs
    <3>2. steady' \subseteq Dirs \X Servers
      BY <2>4, <3>1 DEF Ask
    <3>3. QED
      BY <2>4, <3>2 DEF Ask, Listing
  <2>5. CASE NextDirectory \/ LastDirectory \/ NotFound
    BY <2>5 DEF NextDirectory, LastDirectory, NotFound, Listing
  <2>6. CASE Pick
    <3>1. answer' \in found
      BY <2>6 DEF Pick, Candidates
    <3>2. QED
      BY <2>6, <3>1 DEF Pick
  <2>7. ASSUME NEW s \in Servers, ReadRecord(s) \/ SkipRecord(s) \/ Escape(s)
        PROVE  TypeOK'
    BY <2>7 DEF ReadRecord, SkipRecord, Escape
  <2>8. QED
    BY <2>1, <2>2, <2>3, <2>4, <2>5, <2>6, <2>7 DEF Next, Query
<1>3. QED
  BY <1>1, <1>2, PTL DEF Spec

-----------------------------------------------------------------------------
LEMMA Inductive == Spec => []IInv
<1>1. Init => ServerInv /\ SteadyInv /\ ReadInv /\ IdleInv
  BY DEF Init, ServerInv, SteadyInv, ReadInv, IdleInv
<1>2. IInv /\ [Next]_vars => (ServerInv /\ SteadyInv /\ ReadInv /\ IdleInv)'
  <2> SUFFICES ASSUME IInv, [Next]_vars
               PROVE  (ServerInv /\ SteadyInv /\ ReadInv /\ IdleInv)'
    OBVIOUS
  <2>0. TypeOK /\ ServerInv /\ SteadyInv /\ ReadInv /\ IdleInv
        /\ None \notin Servers /\ None \notin Workspaces /\ "user" \notin Workspaces
        /\ "absent" \notin Damage /\ "whole" \notin Damage
    BY DiscoveryAssumption DEF IInv
  <2>1. CASE UNCHANGED vars
    BY <2>0, <2>1
       DEF vars, serverVars, queryVars, ServerInv, SteadyInv, ReadInv, IdleInv, QueryDirs
  <2>2. ASSUME NEW s \in Servers, Start(s)
        PROVE  (ServerInv /\ SteadyInv /\ ReadInv /\ IdleInv)'
    <3>1. ServerInv'
      BY <2>0, <2>2 DEF Start, ServerInv, queryVars, TypeOK
    <3>2. QED
      BY <2>0, <2>2, <3>1 DEF Start, queryVars, SteadyInv, ReadInv, IdleInv, QueryDirs
  <2>3. ASSUME NEW s \in Servers, Die(s) \/ Reuse(s)
        PROVE  (ServerInv /\ SteadyInv /\ ReadInv /\ IdleInv)'
    BY <2>0, <2>3
       DEF Die, Reuse, queryVars, ServerInv, SteadyInv, ReadInv, IdleInv, QueryDirs, TypeOK
  <2>4. ASSUME NEW s \in Servers, NEW d \in Dirs, Write(s, d)
        PROVE  (ServerInv /\ SteadyInv /\ ReadInv /\ IdleInv)'
    <3>1. file[d][s] # "whole"
          /\ \A e \in Dirs, t \in Servers :
                <<e, t>> # <<d, s>> => file'[e][t] = file[e][t]
      BY <2>0, <2>4 DEF Write, TypeOK
    <3>2. ServerInv'
      BY <2>0, <2>4, <3>1 DEF Write, queryVars, ServerInv
    <3>3. SteadyInv'
      BY <2>0, <2>4, <3>1 DEF Write, queryVars, SteadyInv, QueryDirs
    <3>4. QED
      BY <2>0, <2>4, <3>2, <3>3 DEF Write, queryVars, ReadInv, IdleInv
  <2>5. ASSUME NEW s \in Servers, NEW d \in Dirs, Remove(s, d)
        PROVE  (ServerInv /\ SteadyInv /\ ReadInv /\ IdleInv)'
    <3>1. \A e \in Dirs, t \in Servers :
                <<e, t>> # <<d, s>> => file'[e][t] = file[e][t]
      BY <2>0, <2>5 DEF Remove, TypeOK
    <3>2. ServerInv'
      BY <2>0, <2>5, <3>1 DEF Remove, queryVars, ServerInv, TypeOK
    <3>3. SteadyInv'
      BY <2>0, <2>5, <3>1 DEF Remove, queryVars, SteadyInv, QueryDirs
    <3>4. QED
      BY <2>0, <2>5, <3>2, <3>3 DEF Remove, queryVars, ReadInv, IdleInv
  <2>6. CASE Ask
    <3>1. ServerInv' /\ IdleInv'
      BY <2>0, <2>6 DEF Ask, serverVars, ServerInv, IdleInv
    <3>2. SteadyInv'
      BY <2>0, <2>6 DEF Ask, serverVars, SteadyInv
    <3>3. ReadInv'
      BY <2>0, <2>6 DEF Ask, serverVars, ReadInv, Listing
    <3>4. QED
      BY <3>1, <3>2, <3>3
  <2>7. CASE NextDirectory
    <3>1. ServerInv' /\ SteadyInv' /\ IdleInv'
      BY <2>0, <2>7
         DEF NextDirectory, serverVars, ServerInv, SteadyInv, IdleInv, QueryDirs
    <3>2. \A s \in Servers : ws # None /\ <<ws, s>> \in steady => s \in Listing(ws)
      BY <2>0 DEF SteadyInv, Listing, TypeOK, Dirs
    <3>3. ReadInv'
      BY <2>0, <2>7, <3>2 DEF NextDirectory, serverVars, ReadInv
    <3>4. QED
      BY <3>1, <3>3
  <2>8. CASE LastDirectory \/ NotFound
    BY <2>0, <2>8 DEF LastDirectory, NotFound, serverVars, ServerInv, SteadyInv, ReadInv,
                      IdleInv, QueryDirs
  <2>9. CASE Pick
    BY <2>0, <2>9 DEF Pick, serverVars, ServerInv, SteadyInv, ReadInv, IdleInv, QueryDirs
  <2>10. ASSUME NEW s \in Servers, ReadRecord(s)
         PROVE  (ServerInv /\ SteadyInv /\ ReadInv /\ IdleInv)'
    <3>0. Directory \in Dirs /\ phase \in {"user", "workspace"}
      BY <2>0, <2>10 DEF ReadRecord, Directory, Dirs, TypeOK, IdleInv
    <3>1. ServerInv'
      BY <2>0, <2>10, <3>0 DEF ReadRecord, serverVars, ServerInv, ProcessExists
    <3>2. SteadyInv' /\ IdleInv'
      BY <2>0, <2>10 DEF ReadRecord, serverVars, SteadyInv, IdleInv, QueryDirs
    <3>3. s \in running => s \in alive'
      BY <2>0, <2>10 DEF ReadRecord, ServerInv, ProcessExists
    <3>4. alive \subseteq alive'
      BY <2>10 DEF ReadRecord
    <3>5. ReadInv'
      <4>1. \A d \in Dirs : <<d, s>> \in steady => s \in alive'
        BY <2>0, <3>3 DEF SteadyInv
      <4>2. QED
        BY <2>0, <2>10, <3>4, <4>1 DEF ReadRecord, ReadInv, Dirs, TypeOK
    <3>6. QED
      BY <3>1, <3>2, <3>5
  <2>11. ASSUME NEW s \in Servers, SkipRecord(s)
         PROVE  (ServerInv /\ SteadyInv /\ ReadInv /\ IdleInv)'
    <3>1. ServerInv' /\ SteadyInv' /\ IdleInv'
      BY <2>0, <2>11
         DEF SkipRecord, serverVars, ServerInv, SteadyInv, IdleInv, QueryDirs
    <3>2. <<Directory, s>> \notin steady
      BY <2>0, <2>11 DEF SkipRecord, SteadyInv, Directory, Dirs, TypeOK, IdleInv
    <3>3. ReadInv'
      BY <2>0, <2>11, <3>2 DEF SkipRecord, ReadInv, Directory
    <3>4. QED
      BY <3>1, <3>3
  <2>12. ASSUME NEW s \in Servers, Escape(s)
         PROVE  (ServerInv /\ SteadyInv /\ ReadInv /\ IdleInv)'
    BY <2>0, <2>12 DEF Escape, serverVars, ServerInv, SteadyInv, ReadInv, IdleInv, QueryDirs
  <2>13. QED
    BY <2>1, <2>2, <2>3, <2>4, <2>5, <2>6, <2>7, <2>8, <2>9, <2>10, <2>11, <2>12
       DEF Next, Query
<1>3. QED
  BY <1>1, <1>2, TypeCorrect, PTL DEF Spec, IInv

-----------------------------------------------------------------------------
\* Once there is an answer, it and what it is compared with stay what they are.
BestInv == AnswerIsBest /\ (answer # None => started[answer] # 0)

\* What was steadily there is among the records read, and not among the dead.
LEMMA SteadyFound ==
  ASSUME IInv, phase = "deciding", NEW s \in SteadyServers
  PROVE  s \in alive /\ s \in found /\ Matching(s) /\ s \in Servers
<1>0. TypeOK /\ SteadyInv /\ ReadInv
  BY DEF IInv
<1>1. PICK d \in Dirs : <<d, s>> \in steady
  BY DEF SteadyServers
<1>2. d = "user" \/ (d = ws /\ ws # None)
  BY <1>0, <1>1 DEF SteadyServers, SteadyInv, QueryDirs
<1>3. s \in alive
  BY <1>0, <1>1, <1>2 DEF SteadyServers, ReadInv
<1>4. QED
  BY <1>0, <1>3 DEF SteadyServers, TypeOK

LEMMA PickIsBest ==
  ASSUME IInv, NotFound \/ Pick PROVE BestInv'
<1>0. /\ TypeOK /\ ServerInv /\ SteadyInv /\ ReadInv /\ IdleInv
      /\ None \notin Servers
  BY DiscoveryAssumption DEF IInv
<1>1. ASSUME NEW s \in SteadyServers
      PROVE  s \in alive /\ s \in found /\ Matching(s) /\ s \in Servers
  BY SteadyFound DEF NotFound, Pick
<1>2. UNCHANGED <<serverVars, ws, want, found, alive, steady>> /\ answer = None
  BY <1>0 DEF NotFound, Pick, IdleInv
<1>3. SteadyServers' = SteadyServers
  BY <1>2 DEF SteadyServers, Matching, Dirs
<1>4. ASSUME NEW s \in SteadyServers, ws # None => Anchored(s) PROVE s \in Candidates
  BY <1>1, <1>4 DEF Candidates
<1>5. ASSUME NEW s \in SteadyServers, s \notin Candidates
      PROVE  \A t \in Candidates : Anchored(t) /\ ~Anchored(s)
  BY <1>1, <1>5 DEF Candidates
<1>6. CASE NotFound
  <2>1. Candidates = {} /\ answer' = None
    BY <1>2, <1>6 DEF NotFound
  <2>2. QED
    BY <1>2, <1>3, <1>4, <2>1 DEF BestInv, AnswerIsBest, Anchored, serverVars
<1>7. CASE Pick
  <2>1. /\ answer' \in Candidates
        /\ \A t \in Candidates : started[t] <= started[answer']
    BY <1>7 DEF Pick
  <2>2. answer' \in found /\ answer' \in Servers
    BY <1>0, <2>1 DEF Candidates, TypeOK
  <2>3. started[answer'] # 0 /\ answer' # None
    BY <1>0, <2>2 DEF ServerInv
  <2>4. ASSUME NEW s \in SteadyServers, ws # None, Anchored(s)
        PROVE  Anchored(answer')
    BY <1>1, <2>1, <2>4 DEF Candidates
  <2>5. ASSUME NEW s \in SteadyServers
        PROVE  \/ started[s] <= started[answer']
               \/ Anchored(answer') /\ ~Anchored(s)
    BY <1>5, <2>1
  <2>6. QED
    BY <1>2, <1>3, <1>4, <2>1, <2>3, <2>4, <2>5
       DEF BestInv, AnswerIsBest, Anchored, serverVars
<1>8. QED
  BY <1>6, <1>7

\* A query answers with the newest of the servers that were steadily there,
\* those of the workspace first, however many start, die and write around it.
THEOREM AnswerIsBestCorrect == Spec => []AnswerIsBest
<1>1. Init => BestInv
  BY DEF Init, BestInv, AnswerIsBest
<1>2. IInv /\ IInv' /\ BestInv /\ [Next]_vars => BestInv'
  <2> SUFFICES ASSUME IInv, IInv', BestInv, [Next]_vars PROVE BestInv'
    OBVIOUS
  <2>0. TypeOK /\ ServerInv /\ SteadyInv /\ TypeOK' /\ ServerInv' /\ SteadyInv'
    BY DEF IInv
  <2>1. CASE Pick \/ NotFound
    BY <2>1, PickIsBest
  <2>2. CASE Ask
    BY <2>0, <2>2 DEF Ask, BestInv, AnswerIsBest, serverVars
  <2>3. CASE NextDirectory \/ LastDirectory
             \/ \E s \in Servers : ReadRecord(s) \/ SkipRecord(s) \/ Escape(s)
    BY <2>0, <2>3 DEF NextDirectory, LastDirectory, ReadRecord, SkipRecord, Escape,
                      BestInv, AnswerIsBest, serverVars
  <2>4. ASSUME UNCHANGED queryVars, where' = where, steady' \subseteq steady,
               \A s \in Servers : started[s] # 0 => started'[s] = started[s]
        PROVE  BestInv'
    <3>1. \A s \in Servers : s \in SteadyServers' => s \in SteadyServers
      BY <2>4 DEF SteadyServers, Matching, queryVars, Dirs
    <3>2. \A s \in SteadyServers : started[s] # 0 /\ s \in Servers
      BY <2>0 DEF SteadyServers, SteadyInv, ServerInv
    <3>3. answer \in Servers \cup {None}
      BY <2>0 DEF TypeOK
    <3>4. \A s \in SteadyServers' : s \in Servers /\ s \in SteadyServers
      BY <3>1 DEF SteadyServers
    <3>5. \A s \in SteadyServers' : started'[s] = started[s]
      BY <2>4, <3>2, <3>4
    <3>6. answer # None => started'[answer] = started[answer]
      BY <2>4, <3>3 DEF BestInv
    <3>7. QED
      BY <2>4, <3>4, <3>5, <3>6 DEF BestInv, AnswerIsBest, Anchored, queryVars
  <2>5. CASE \E s \in Servers : Start(s) \/ Die(s) \/ Reuse(s)
    BY <2>0, <2>4, <2>5 DEF Start, Die, Reuse, TypeOK, queryVars
  <2>6. CASE \E s \in Servers, d \in Dirs : Write(s, d) \/ Remove(s, d)
    BY <2>0, <2>4, <2>6 DEF Write, Remove, queryVars
  <2>7. CASE UNCHANGED vars
    BY <2>4, <2>7 DEF vars, serverVars
  <2>8. QED
    BY <2>1, <2>2, <2>3, <2>5, <2>6, <2>7 DEF Next, Query
<1>3. QED
  <2>1. BestInv => AnswerIsBest
    BY DEF BestInv
  <2>2. QED
    BY <1>1, <1>2, <2>1, Inductive, PTL DEF Spec

-----------------------------------------------------------------------------
\* What the query takes for alive was running since it began, or its pid is that
\* of another process.
SeenInv ==
    /\ phase # "idle" => running \subseteq seen
    /\ phase = "idle" => alive = {}
    /\ alive \subseteq seen \cup reused
    /\ answer # None => answer \in alive

\* The server resolve answers with was running while it looked, unless its pid
\* has come up again; for every set of servers and workspaces.
THEOREM AnswerWasRunningCorrect == Spec => []AnswerWasRunning
<1>1. Init => SeenInv
  BY DEF Init, SeenInv
<1>2. IInv /\ SeenInv /\ [Next]_vars => SeenInv'
  <2> SUFFICES ASSUME IInv, SeenInv, [Next]_vars PROVE SeenInv'
    OBVIOUS
  <2> USE DEF SeenInv, serverVars, queryVars
  <2>1. CASE UNCHANGED vars
    BY <2>1 DEF vars
  <2>2. ASSUME NEW s \in Servers, Start(s) \/ Die(s) \/ Reuse(s) PROVE SeenInv'
    BY <2>2 DEF Start, Die, Reuse
  <2>3. ASSUME NEW s \in Servers, NEW d \in Dirs, Write(s, d) \/ Remove(s, d)
        PROVE  SeenInv'
    BY <2>3 DEF Write, Remove
  <2>4. CASE Ask
    BY <2>4 DEF Ask, IInv, IdleInv
  <2>5. CASE NextDirectory \/ LastDirectory \/ NotFound
    BY <2>5 DEF NextDirectory, LastDirectory, NotFound
  <2>6. CASE Pick
    <3>1. answer' \in alive
      BY <2>6 DEF Pick, Candidates
    <3>2. QED
      BY <2>6, <3>1 DEF Pick
  <2>7. ASSUME NEW s \in Servers, ReadRecord(s) \/ SkipRecord(s) \/ Escape(s)
        PROVE  SeenInv'
    BY <2>7 DEF ReadRecord, SkipRecord, Escape, ProcessExists
  <2>8. QED
    BY <2>1, <2>2, <2>3, <2>4, <2>5, <2>6, <2>7 DEF Next, Query
<1>3. SeenInv => AnswerWasRunning
  BY DEF SeenInv, AnswerWasRunning
<1>4. QED
  BY <1>1, <1>2, <1>3, Inductive, PTL DEF Spec
-----------------------------------------------------------------------------
\* The answer of resolve is a server that was started, and the one asked for if
\* one was; for every set of servers and workspaces.
THEOREM AnswerFitsCorrect == Spec => []AnswerFits
<1>1. Init => AnswerFits
  BY DEF Init, AnswerFits
<1>2. IInv /\ AnswerFits /\ [Next]_vars => AnswerFits'
  <2> SUFFICES ASSUME IInv, AnswerFits, [Next]_vars PROVE AnswerFits'
    OBVIOUS
  <2>0. TypeOK /\ ServerInv /\ IdleInv
    BY DEF IInv
  <2>1. CASE UNCHANGED <<want, answer>> /\ UNCHANGED started
    BY <2>1 DEF AnswerFits
  <2>2. CASE \E s \in Servers : Start(s)
    BY <2>0, <2>2 DEF Start, AnswerFits, TypeOK, queryVars
  <2>3. CASE Ask
    BY <2>0, <2>3 DEF Ask, AnswerFits, IdleInv
  <2>4. CASE Pick
    <3>1. answer' \in found /\ Matching(answer')
      BY <2>4 DEF Pick, Candidates
    <3>2. started[answer'] # 0
      BY <2>0, <3>1 DEF ServerInv, TypeOK
    <3>3. QED
      BY <2>4, <3>1, <3>2 DEF Pick, AnswerFits, Matching, serverVars
  <2>5. QED
    BY <2>1, <2>2, <2>3, <2>4
       DEF Next, Query, NextDirectory, LastDirectory, NotFound, ReadRecord, SkipRecord,
           Escape, Die, Reuse, Write, Remove, vars, serverVars, queryVars
<1>3. QED
  BY <1>1, <1>2, Inductive, PTL DEF Spec

-----------------------------------------------------------------------------
\* At the moment it gives up: the preference for the workspace left only the dead.
LEMMA GivesUp ==
  ASSUME IInv, NotFound PROVE NoneOnlyOverTheDead'
<1>1. /\ phase = "deciding" /\ Candidates = {}
      /\ UNCHANGED <<running, where, ws, want, found, steady>>
  BY DEF NotFound, serverVars
<1>2. SteadyServers' = SteadyServers
  BY <1>1 DEF SteadyServers, Matching, Dirs
<1>3. ASSUME NEW s \in SteadyServers
      PROVE  ws # None /\ \E a \in found : Matching(a) /\ Anchored(a) /\ a \notin running
  <2>1. s \in alive /\ s \in found /\ Matching(s)
    BY <1>1, SteadyFound
  <2>2. PICK a \in found : Matching(a) /\ ws # None /\ Anchored(a)
    BY <1>1, <2>1 DEF Candidates
  <2>3. a \notin alive
    BY <1>1, <2>2 DEF Candidates
  <2>4. a \notin running
    BY <2>2, <2>3 DEF IInv, ServerInv, TypeOK
  <2>5. QED
    BY <2>2, <2>4
<1>4. QED
  BY <1>1, <1>2, <1>3 DEF NoneOnlyOverTheDead, Matching, Anchored

\* resolve says that no server runs, while one that it could have fallen back to
\* was steadily there, only when it read the record of a server of the workspace
\* that is dead: the one way in which discovery.py:106-107 is broken.
THEOREM NoneOnlyOverTheDeadCorrect == Spec => []NoneOnlyOverTheDead
<1>1. Init => NoneOnlyOverTheDead
  BY DEF Init, NoneOnlyOverTheDead
<1>2. IInv /\ NoneOnlyOverTheDead /\ [Next]_vars => NoneOnlyOverTheDead'
  <2> SUFFICES ASSUME IInv, NoneOnlyOverTheDead, [Next]_vars PROVE NoneOnlyOverTheDead'
    OBVIOUS
  <2>0. TypeOK /\ ServerInv /\ None \notin Servers
    BY DiscoveryAssumption DEF IInv
  <2>1. ASSUME UNCHANGED <<where, queryVars>>, steady' \subseteq steady,
               \A s \in Servers : s \in running' => s \in running \/ started[s] = 0
        PROVE  NoneOnlyOverTheDead'
    <3>1. \A s \in Servers : s \in SteadyServers' => s \in SteadyServers
      BY <2>1 DEF SteadyServers, Matching, queryVars, Dirs
    <3>2. SteadyServers' # {} => SteadyServers # {}
      BY <3>1 DEF SteadyServers
    <3>3. \A s \in found : s \notin running => s \notin running'
      BY <2>0, <2>1 DEF ServerInv, TypeOK
    <3>4. QED
      BY <2>1, <3>2, <3>3 DEF NoneOnlyOverTheDead, Matching, Anchored, queryVars
  <2>2. CASE NotFound
    BY <2>2, GivesUp
  <2>3. CASE Pick
    <3>1. answer' # None
      BY <2>0, <2>3 DEF Pick, Candidates, TypeOK
    <3>2. QED
      BY <3>1 DEF NoneOnlyOverTheDead
  <2>4. CASE \/ Ask \/ NextDirectory \/ LastDirectory
             \/ \E s \in Servers : ReadRecord(s) \/ SkipRecord(s) \/ Escape(s)
    <3>1. phase' # "done"
      BY <2>4 DEF Ask, NextDirectory, LastDirectory, ReadRecord, SkipRecord, Escape
    <3>2. QED
      BY <3>1 DEF NoneOnlyOverTheDead
  <2>5. CASE \E s \in Servers : Start(s) \/ Die(s) \/ Reuse(s)
    BY <2>1, <2>5 DEF Start, Die, Reuse
  <2>6. CASE \E s \in Servers, d \in Dirs : Write(s, d) \/ Remove(s, d)
    BY <2>1, <2>6 DEF Write, Remove
  <2>7. CASE UNCHANGED vars
    BY <2>1, <2>7 DEF vars, serverVars
  <2>8. QED
    BY <2>2, <2>3, <2>4, <2>5, <2>6, <2>7 DEF Next, Query
<1>3. QED
  BY <1>1, <1>2, Inductive, PTL DEF Spec
=============================================================================
