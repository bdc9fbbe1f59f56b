------------------------------ MODULE Sessions -------------------------------
(***************************************************************************)
(* The table of MCP sessions (adb-api mcp_http.rs, struct Sessions): each  *)
(* session is bound to the fingerprint of the API key that opened it and   *)
(* to the moment it was last used.  Every operation runs under one mutex,  *)
(* so each is one action.  Time is counted in ticks.                       *)
(***************************************************************************)
EXTENDS Integers, FiniteSets

CONSTANTS
    Ids,             \* the identifiers uuid can draw
    MAX_SESSIONS, SESSION_IDLE,
    MaxTime          \* bound on the clock

ASSUME SessionsAssumption ==
    /\ MAX_SESSIONS \in Nat \ {0}
    /\ SESSION_IDLE \in Nat \ {0}
    /\ MaxTime \in Nat

VARIABLES
    live,            \* the live sessions: id -> [owner (a key's fingerprint), last_used]
    now,             \* Instant::now()
    issued           \* history: the identifiers ever drawn

sessionVars == <<live, now, issued>>

\* The sessions of S, as they are.
Only(S) == [id \in S |-> live[id]]

Idle(id) == now - live[id].last_used >= SESSION_IDLE

\* What the sweep of a full table leaves.
Retained ==
    IF Cardinality(DOMAIN live) >= MAX_SESSIONS
    THEN {id \in DOMAIN live : ~Idle(id)}
    ELSE DOMAIN live

\* Mutant: the most recently used session goes.
MostRecent(S) == {id \in S : \A other \in S : live[id].last_used >= live[other].last_used}

LeastRecent(S) == {id \in S : \A other \in S : live[id].last_used <= live[other].last_used}

\* What is removed from a table that the sweep left full: one of the least
\* recently used sessions, whichever the hash map yields first.
Displaced ==
    IF Cardinality(Retained) >= MAX_SESSIONS
    THEN {{id} : id \in LeastRecent(Retained)}
    ELSE {{}}

\* Mutant: the bound is checked as if the new session were not added.
OpenPastTheCap(id, owner) ==
    /\ id \in Ids \ issued
    /\ live' = [i \in (IF Cardinality(DOMAIN live) > MAX_SESSIONS
                       THEN Retained ELSE DOMAIN live) \cup {id} |->
                    IF i = id THEN [owner |-> owner, last_used |-> now] ELSE live[i]]
    /\ issued' = issued \cup {id}
    /\ UNCHANGED now

open(id, owner) ==
    /\ id \in Ids \ issued
    /\ \E gone \in Displaced :
          live' = [i \in (Retained \ gone) \cup {id} |->
                      IF i = id THEN [owner |-> owner, last_used |-> now] ELSE live[i]]
    /\ issued' = issued \cup {id}
    /\ UNCHANGED now

\* Mutant: the owner is not compared.
UsableByAnyone(id, owner) == id \in DOMAIN live /\ ~Idle(id)

\* touch answers TRUE.
Usable(id, owner) == id \in DOMAIN live /\ live[id].owner = owner /\ ~Idle(id)

touch(id, owner) ==
    /\ \/ Usable(id, owner) /\ live' = [live EXCEPT ![id].last_used = now]
       \/ /\ id \in DOMAIN live /\ live[id].owner = owner /\ Idle(id)
          /\ live' = Only(DOMAIN live \ {id})
       \/ ~(id \in DOMAIN live /\ live[id].owner = owner) /\ UNCHANGED live
    /\ UNCHANGED <<now, issued>>

close(id) ==
    /\ live' = Only(DOMAIN live \ {id})
    /\ UNCHANGED <<now, issued>>

\* Time passes.
Tick ==
    /\ now < MaxTime
    /\ now' = now + 1
    /\ UNCHANGED <<live, issued>>

SessionsInit ==
    /\ live = [id \in {} |-> 0]
    /\ now = 0
    /\ issued = {}

-----------------------------------------------------------------------------

(* The table never holds more than MAX_SESSIONS sessions, so a client that *)
(* initializes in a loop cannot grow it (Sessions::open, MAX_SESSIONS).    *)
SessionsBounded == Cardinality(DOMAIN live) <= MAX_SESSIONS
=============================================================================
