---------------------------- MODULE ServingProofs ----------------------------
(***************************************************************************)
(* A running server, whatever requests arrive and however long it runs:    *)
(* its session table stays within its bound and serves whoever opened a    *)
(* session, a shutdown drains what it promises to, and what is stored      *)
(* changes only for a key that may change it.                              *)
(***************************************************************************)
EXTENDS Serving, FiniteSetTheorems, WellFoundedInduction, TLAPS

(* The inductive invariant: the bound, and that the table is finite, which *)
(* cardinalities need.                                                     *)
TableInv == IsFiniteSet(DOMAIN live) /\ SessionsBounded

(* What a step of the server may do to the session table.                  *)
SessionStep ==
    \/ \E id, owner : open(id, owner) \/ touch(id, owner)
    \/ \E id : close(id)
    \/ UNCHANGED live

(* One more element makes a set larger by one at most.                     *)
LEMMA OneMore ==
    ASSUME NEW S, IsFiniteSet(S), NEW x
    PROVE  /\ IsFiniteSet(S \cup {x})
           /\ Cardinality(S \cup {x}) <= Cardinality(S) + 1
<1>1. Cardinality(S) \in Nat
  BY FS_CardinalityType
<1>2. /\ IsFiniteSet(S \cup {x})
      /\ \/ Cardinality(S \cup {x}) = Cardinality(S)
         \/ Cardinality(S \cup {x}) = Cardinality(S) + 1
  BY FS_AddElement
<1> QED
  BY <1>1, <1>2

(* Sessions::open keeps the bound: a full table loses a session before it  *)
(* gains one.                                                              *)
LEMMA OpenKeepsBound ==
    ASSUME NEW id, NEW owner, TableInv, open(id, owner)
    PROVE  TableInv'
<1>1. MAX_SESSIONS \in Nat \ {0}
  BY SessionsAssumption
<1>2. PICK gone \in Displaced :
          live' = [i \in (Retained \ gone) \cup {id} |->
                      IF i = id THEN [owner |-> owner, last_used |-> now] ELSE live[i]]
  BY DEF open
<1>3. DOMAIN live' = (Retained \ gone) \cup {id}
  BY <1>2
<1>4. /\ IsFiniteSet(Retained)
      /\ Cardinality(Retained) <= Cardinality(DOMAIN live)
  <2>1. Retained \subseteq DOMAIN live
    BY DEF Retained
  <2> QED
    BY <2>1, FS_Subset DEF TableInv
<1>5. /\ IsFiniteSet(Retained \ gone)
      /\ Cardinality(Retained \ gone) <= MAX_SESSIONS - 1
  <2>0. Cardinality(Retained) \in Nat
    BY <1>4, FS_CardinalityType
  <2>1. CASE Cardinality(Retained) >= MAX_SESSIONS
    <3>1. PICK old \in Retained : gone = {old}
      BY <1>2, <2>1 DEF Displaced, LeastRecent
    <3>2. /\ IsFiniteSet(Retained \ {old})
          /\ Cardinality(Retained \ {old}) = Cardinality(Retained) - 1
      BY <1>4, <3>1, FS_RemoveElement
    <3>3. Cardinality(Retained) <= MAX_SESSIONS
      <4>1. Cardinality(DOMAIN live) \in Nat
        BY FS_CardinalityType DEF TableInv
      <4> QED
        BY <1>1, <1>4, <2>0, <4>1 DEF TableInv, SessionsBounded
    <3> QED
      BY <1>1, <2>0, <3>1, <3>2, <3>3
  <2>2. CASE ~(Cardinality(Retained) >= MAX_SESSIONS)
    <3>1. gone = {}
      BY <1>2, <2>2 DEF Displaced
    <3>2. Retained \ gone = Retained
      BY <3>1
    <3> QED
      BY <1>1, <1>4, <2>0, <2>2, <3>2
  <2> QED
    BY <2>1, <2>2
<1>6. /\ IsFiniteSet((Retained \ gone) \cup {id})
      /\ Cardinality((Retained \ gone) \cup {id}) <= Cardinality(Retained \ gone) + 1
  BY <1>5, OneMore
<1>7. Cardinality((Retained \ gone) \cup {id}) <= MAX_SESSIONS
  <2>1. /\ Cardinality(Retained \ gone) \in Nat
        /\ Cardinality((Retained \ gone) \cup {id}) \in Nat
    BY <1>5, <1>6, FS_CardinalityType
  <2> QED
    BY <1>1, <1>5, <1>6, <2>1
<1> QED
  BY <1>3, <1>6, <1>7 DEF TableInv, SessionsBounded

(* Removing sessions keeps the bound.                                      *)
LEMMA RemovalKeepsBound ==
    ASSUME TableInv, DOMAIN live' \subseteq DOMAIN live
    PROVE  TableInv'
<1>1. /\ IsFiniteSet(DOMAIN live')
      /\ Cardinality(DOMAIN live') <= Cardinality(DOMAIN live)
  BY FS_Subset DEF TableInv
<1>2. /\ Cardinality(DOMAIN live) \in Nat
      /\ Cardinality(DOMAIN live') \in Nat
  BY <1>1, FS_CardinalityType DEF TableInv
<1> QED
  BY <1>1, <1>2, SessionsAssumption DEF TableInv, SessionsBounded

(* Sessions::touch and close only update or remove.                        *)
LEMMA SessionStepKeepsBound ==
    ASSUME TableInv, SessionStep
    PROVE  TableInv'
<1>1. ASSUME NEW id, NEW owner, open(id, owner)
      PROVE  TableInv'
  BY <1>1, OpenKeepsBound
<1>2. ASSUME NEW id, NEW owner, touch(id, owner)
      PROVE  TableInv'
  <2>1. DOMAIN live' \subseteq DOMAIN live
    BY <1>2 DEF touch, Only
  <2> QED
    BY <2>1, RemovalKeepsBound
<1>3. ASSUME NEW id, close(id)
      PROVE  TableInv'
  <2>1. DOMAIN live' \subseteq DOMAIN live
    BY <1>3 DEF close, Only
  <2> QED
    BY <2>1, RemovalKeepsBound
<1>4. ASSUME UNCHANGED live
      PROVE  TableInv'
  BY <1>4 DEF TableInv, SessionsBounded
<1> QED
  BY <1>1, <1>2, <1>3, <1>4 DEF SessionStep

(* Every step of the server reaches the table through its operations.      *)
LEMMA StepsOfTheServer ==
    ASSUME [Next]_vars
    PROVE  SessionStep
<1>1. ASSUME NEW r \in Slots, NEW input, NEW id, Mcp(r, input, id)
      PROVE  SessionStep
  BY <1>1 DEF Mcp, Touch, SessionStep, sessionVars
<1>2. ASSUME NEW r \in Slots, NEW input,
             \/ options(r, input) \/ RestCatalog(r, input) \/ RestData(r, input)
             \/ ReadLine(r, input)
      PROVE  SessionStep
  <2>1. CASE options(r, input)
    BY <2>1 DEF options, SessionStep, sessionVars
  <2>2. CASE RestCatalog(r, input)
    BY <2>2 DEF RestCatalog, SessionStep, sessionVars
  <2>3. CASE RestData(r, input)
    BY <2>3 DEF RestData, SessionStep, sessionVars
  <2>4. CASE ReadLine(r, input)
    BY <2>4 DEF ReadLine, SessionStep, sessionVars
  <2> QED
    BY <1>2, <2>1, <2>2, <2>3, <2>4
<1>3. ASSUME NEW r \in Slots, handle(r)
      PROVE  SessionStep
  BY <1>3 DEF handle, SessionStep, sessionVars
<1>4. ASSUME NEW r \in Slots, Apply(r)
      PROVE  SessionStep
  BY <1>4 DEF Apply, SessionStep, sessionVars
<1>5. ASSUME NEW r \in Slots, Respond(r)
      PROVE  SessionStep
  BY <1>5 DEF Respond, SessionStep, sessionVars
<1>6. ASSUME NEW r \in Slots, Close(r)
      PROVE  SessionStep
  BY <1>6 DEF Close, SessionStep
<1>7. ASSUME NEW r \in Slots, EndStream(r) \/ ClientGone(r)
      PROVE  SessionStep
  BY <1>7 DEF EndStream, ClientGone, SessionStep, sessionVars
<1>8. ASSUME Requests
      PROVE  SessionStep
  <2>1. PICK r \in Slots :
          \/ \E input \in config.inputs[r] :
                \/ \E id \in issued \cup {"", "unknown"} : Mcp(r, input, id)
                \/ options(r, input) \/ RestCatalog(r, input) \/ RestData(r, input)
                \/ ReadLine(r, input)
          \/ handle(r) \/ Apply(r) \/ Respond(r) \/ Close(r) \/ EndStream(r) \/ ClientGone(r)
    BY <1>8 DEF Requests
  <2>2. CASE \E input \in config.inputs[r] :
                \/ \E id \in issued \cup {"", "unknown"} : Mcp(r, input, id)
                \/ options(r, input) \/ RestCatalog(r, input) \/ RestData(r, input)
                \/ ReadLine(r, input)
    BY <2>2, <1>1, <1>2
  <2> QED
    BY <2>1, <2>2, <1>3, <1>4, <1>5, <1>6, <1>7
<1>9. ASSUME Start \/ Bind \/ Signal \/ StdinEnds \/ TimePasses \/ Quiet
      PROVE  SessionStep
  BY <1>9 DEF Start, Bind, Signal, StdinEnds, TimePasses, Tick, Quiet, ProcessStep, vars,
              SessionStep, sessionVars
<1>10. ASSUME Proceeds
       PROVE  SessionStep
  <2>1. ASSUME NEW table, Flush(table)
        PROVE  SessionStep
    BY <2>1 DEF Flush, SessionStep, sessionVars
  <2>2. ASSUME \/ Race \/ begin_shutdown \/ StopAccepting \/ HttpEnds \/ StopsWaiting \/ Drained
               \/ DrainTimesOut \/ Exit
        PROVE  SessionStep
    BY <2>2 DEF Race, begin_shutdown, StopAccepting, HttpEnds, StopsWaiting, Drained,
                DrainTimesOut, Exit, ProcessStep, SessionStep, sessionVars
  <2> QED
    BY <1>10, <2>1, <2>2 DEF Proceeds
<1>11. ASSUME UNCHANGED vars
       PROVE  SessionStep
  BY <1>11 DEF vars, SessionStep, sessionVars
<1> QED
  BY <1>8, <1>9, <1>10, <1>11 DEF Next

(* The bound holds, and the table is finite, for as long as the server     *)
(* runs.                                                                   *)
LEMMA TableInvHolds == Spec => []TableInv
<1>1. Init => TableInv
  <2>1. ASSUME Init
        PROVE  TableInv
    <3>1. DOMAIN live = {}
      BY <2>1 DEF Init, SessionsInit
    <3> QED
      BY <3>1, FS_EmptySet, SessionsAssumption DEF TableInv, SessionsBounded
  <2> QED
    BY <2>1
<1>2. TableInv /\ [Next]_vars => TableInv'
  BY StepsOfTheServer, SessionStepKeepsBound
<1> QED
  BY <1>1, <1>2, PTL DEF Spec

(* A server never keeps more than MAX_SESSIONS sessions: Sessions::open    *)
(* makes room before it adds one, for every bound, any number of clients   *)
(* and every interleaving of their requests.                               *)
THEOREM ServerBoundsSessions == Spec => []SessionsBounded
<1>1. TableInv => SessionsBounded
  BY DEF TableInv
<1> QED
  BY TableInvHolds, <1>1, PTL

-----------------------------------------------------------------------------
(* Who a session serves, and why it ends.                                  *)

Fields == {"phase", "input", "session", "ctx", "schema", "gone", "opens", "status", "error"}

\* A request past its admission.
Admitted(r) == req[r].phase \in {"blocking", "resolved", "finished", "closing", "stream"}

\* What a key grants, whatever the database.
Grants(ctx, other) == ctx.tenant = other.tenant /\ ctx.scopes = other.scopes

FormInv ==
    /\ DOMAIN req = Slots
    /\ \A r \in Slots :
          /\ DOMAIN req[r] = Fields
          /\ DOMAIN req[r].ctx = {"tenant", "database", "scopes", "limits"}

\* The sessions that were opened have an opener, and a live one is bound to a
\* token that resolves to what its opener had.
OpenerInv ==
    /\ issued = DOMAIN opener /\ issued \subseteq Ids
    /\ DOMAIN live \subseteq issued
    /\ \A id \in DOMAIN live :
          /\ DOMAIN live[id] = {"owner", "last_used"}
          /\ Grants(opener[id], context_for_key(registry, live[id].owner))

\* An admitted request of the endpoint has what its token grants, and names a
\* session that was opened before, or none.
CallerInv ==
    \A r \in Slots :
        /\ Admitted(r) /\ req[r].input.via = "mcp" =>
              Grants(req[r].ctx, context_for_key(registry, key_fingerprint(req[r].input.header)))
        /\ req[r].session \in issued \cup {"", "unknown"}
        /\ req[r].phase \in {"new", "blocking", "resolved"} => ~req[r].opens
        /\ req[r].opens => req[r].input.via = "mcp"

\* A session is closed on behalf of its owner.
CloserInv ==
    \A r \in Slots :
        req[r].phase = "closing" /\ req[r].session \in DOMAIN live =>
            key_fingerprint(req[r].input.header) = live[req[r].session].owner

SessionInv == FormInv /\ OpenerInv /\ CallerInv /\ CloserInv /\ SessionServesItsOpener


(* Changing some fields of a request or the database of a caller leaves    *)
(* the others.                                                             *)
LEMMA ResolveKeepsCaller ==
    ASSUME NEW ctx, DOMAIN ctx = {"tenant", "database", "scopes", "limits"},
           NEW cat, NEW tool, NEW args, resolve(cat, ctx, tool, args).error = ""
    PROVE  LET caller == resolve(cat, ctx, tool, args).ctx
           IN  /\ DOMAIN caller = {"tenant", "database", "scopes", "limits"}
               /\ Grants(caller, ctx)
<1> DEFINE chosen == IF tool \in Unscoped THEN ctx ELSE scoped(cat, ctx, args)
<1>1. resolve(cat, ctx, tool, args).ctx = chosen
  BY DEF resolve
<1>2. chosen /= NoContext \/ chosen = ctx
  BY DEF resolve
<1>3. chosen = ctx \/ \E d : chosen = [ctx EXCEPT !.database = d]
  BY <1>2 DEF scoped
<1> HIDE DEF chosen
<1>4. DOMAIN chosen = {"tenant", "database", "scopes", "limits"} /\ Grants(chosen, ctx)
  BY <1>3 DEF Grants
<1> QED
  BY <1>1, <1>4


(* The configuration never changes, and with it what a token grants.       *)
LEMMA RegistryKept ==
    ASSUME UNCHANGED scenario
    PROVE  registry' = registry
BY DEF registry, config

(* A token that is admitted is not absent.                                 *)
LEMMA HeaderGrants ==
    ASSUME NEW header
    PROVE  LET ctx == context_for_header(registry, header)
           IN  /\ DOMAIN ctx = {"tenant", "database", "scopes", "limits"}
               /\ ctx /= NoContext =>
                     Grants(ctx, context_for_key(registry, key_fingerprint(header)))
<1>1. \A presented : DOMAIN context_for_key(registry, presented)
                        = {"tenant", "database", "scopes", "limits"}
  BY DEF context_for_key, context, NoContext
<1>2. DOMAIN NoContext = {"tenant", "database", "scopes", "limits"}
  BY DEF NoContext
<1> QED
  BY <1>1, <1>2 DEF context_for_header, key_fingerprint, Grants

(* A request that changes in one slot only.                                *)
LEMMA OneSlot ==
    ASSUME FormInv, NEW r \in Slots, NEW value, Set(r, value),
           DOMAIN value = Fields, DOMAIN value.ctx = {"tenant", "database", "scopes", "limits"}
    PROVE  /\ FormInv'
           /\ req'[r] = value
           /\ \A q \in Slots \ {r} : req'[q] = req[q]
<1>1. /\ req'[r] = value
      /\ \A q \in Slots \ {r} : req'[q] = req[q]
      /\ DOMAIN req' = Slots
  BY DEF Set, FormInv
<1> QED
  BY <1>1 DEF FormInv

\* What the operations of the table but open do: sessions go, none changes owner.
Narrowed ==
    /\ DOMAIN live' \subseteq DOMAIN live
    /\ \A id \in DOMAIN live' :
          DOMAIN live'[id] = {"owner", "last_used"} /\ live'[id].owner = live[id].owner

(* touch and close change no owner.                                        *)
LEMMA OwnersKept ==
    ASSUME OpenerInv, NEW id,
           UNCHANGED live \/ close(id) \/ \E owner : touch(id, owner)
    PROVE  Narrowed
<1>1. \A i \in DOMAIN live : DOMAIN live[i] = {"owner", "last_used"}
  BY DEF OpenerInv
<1>2. CASE UNCHANGED live
  BY <1>1, <1>2 DEF Narrowed
<1>3. CASE live' = Only(DOMAIN live \ {id})
  BY <1>1, <1>3 DEF Narrowed, Only
<1>4. CASE live' = [live EXCEPT ![id].last_used = now]
  <2>1. /\ DOMAIN live' = DOMAIN live
        /\ \A i \in DOMAIN live :
              live'[i] = IF i = id THEN [live[i] EXCEPT !.last_used = now] ELSE live[i]
    BY <1>4
  <2> QED
    BY <1>1, <2>1 DEF Narrowed
<1> QED
  BY <1>2, <1>3, <1>4 DEF close, touch

(* What narrows the table leaves the sessions of others as they were.      *)
LEMMA NarrowedKeepsSessions ==
    ASSUME SessionInv, Narrowed, UNCHANGED <<issued, opener, scenario>>
    PROVE  OpenerInv' /\ (UNCHANGED req => SessionInv')
<1>1. registry' = registry
  BY RegistryKept
<1>2. OpenerInv'
  BY <1>1 DEF SessionInv, OpenerInv, Narrowed
<1>3. ASSUME UNCHANGED req
      PROVE  FormInv' /\ CallerInv' /\ CloserInv' /\ SessionServesItsOpener'
  <2>1. FormInv' /\ SessionServesItsOpener'
    BY <1>3 DEF SessionInv, FormInv, SessionServesItsOpener
  <2>2. CallerInv'
    BY <1>1, <1>3 DEF SessionInv, CallerInv, Admitted
  <2>3. CloserInv'
    BY <1>3 DEF SessionInv, CloserInv, Narrowed
  <2> QED
    BY <2>1, <2>2, <2>3
<1> QED
  BY <1>2, <1>3 DEF SessionInv

(* A request that is received or answered at once: what it is bound to is  *)
(* what its token grants.                                                  *)
LEMMA FreshRequest ==
    ASSUME SessionInv, Narrowed, UNCHANGED <<issued, opener, scenario>>,
           NEW r \in Slots, NEW value, Set(r, value),
           DOMAIN value = Fields, DOMAIN value.ctx = {"tenant", "database", "scopes", "limits"},
           value.session \in issued \cup {"", "unknown"}, value.opens = FALSE,
           value.phase /= "replied" /\ value.input.via = "mcp" =>
               Grants(value.ctx, context_for_key(registry, key_fingerprint(value.input.header))),
           value.session \in issued =>
               /\ value.session \in DOMAIN live
               /\ value.phase /= "replied" /\ value.input.via = "mcp"
               /\ live[value.session].owner = key_fingerprint(value.input.header)
    PROVE  SessionInv'
<1>1. /\ FormInv' /\ req'[r] = value
      /\ \A q \in Slots \ {r} : req'[q] = req[q]
  BY OneSlot DEF SessionInv
<1>2. registry' = registry
  BY RegistryKept
<1>3. OpenerInv'
  BY NarrowedKeepsSessions
<1>4. CallerInv'
  <2>1. ASSUME Admitted(r)', req'[r].input.via = "mcp"
        PROVE  Grants(req'[r].ctx, context_for_key(registry, key_fingerprint(req'[r].input.header)))
    BY <1>1, <2>1 DEF Admitted
  <2>2. \A q \in Slots \ {r} : Admitted(q)' <=> Admitted(q)
    BY <1>1 DEF Admitted
  <2> QED
    BY <1>1, <1>2, <2>1, <2>2 DEF SessionInv, CallerInv
<1>5. CloserInv'
  <2>1. ASSUME req'[r].session \in DOMAIN live'
        PROVE  key_fingerprint(req'[r].input.header) = live'[req'[r].session].owner
    BY <1>1, <2>1 DEF SessionInv, OpenerInv, Narrowed
  <2>2. ASSUME NEW q \in Slots \ {r}, req[q].phase = "closing", req[q].session \in DOMAIN live'
        PROVE  key_fingerprint(req[q].input.header) = live'[req[q].session].owner
    BY <2>2 DEF SessionInv, CloserInv, Narrowed
  <2> QED
    BY <1>1, <2>1, <2>2 DEF CloserInv
<1>6. SessionServesItsOpener'
  <2>1. ASSUME req'[r].session \in DOMAIN opener'
        PROVE  /\ req'[r].ctx.tenant = opener'[req'[r].session].tenant
               /\ req'[r].ctx.scopes = opener'[req'[r].session].scopes
    <3>1. /\ Grants(value.ctx, context_for_key(registry, key_fingerprint(value.input.header)))
          /\ Grants(opener[value.session],
                    context_for_key(registry, key_fingerprint(value.input.header)))
      BY <1>1, <2>1 DEF SessionInv, OpenerInv
    <3> QED
      BY <1>1, <3>1 DEF Grants
  <2>2. \A q \in Slots \ {r} : req[q].session \in DOMAIN opener /\ req[q].phase /= "new" =>
            /\ req[q].ctx.tenant = opener[req[q].session].tenant
            /\ req[q].ctx.scopes = opener[req[q].session].scopes
    BY DEF SessionInv, SessionServesItsOpener
  <2> QED
    BY <1>1, <2>1, <2>2 DEF SessionServesItsOpener
<1> QED
  BY <1>1, <1>3, <1>4, <1>5, <1>6 DEF SessionInv

(* A request that moves on, as the same caller.                            *)
LEMMA RequestMoves ==
    ASSUME SessionInv, Narrowed, UNCHANGED <<issued, opener, scenario>>,
           NEW r \in Slots, NEW value, Set(r, value),
           DOMAIN value = Fields, DOMAIN value.ctx = {"tenant", "database", "scopes", "limits"},
           Admitted(r), value.input = req[r].input, value.session = req[r].session,
           Grants(value.ctx, req[r].ctx), value.phase \notin {"new", "closing"},
           value.phase \in {"blocking", "resolved"} => ~value.opens,
           value.opens => value.input.via = "mcp"
    PROVE  SessionInv'
<1>1. /\ FormInv' /\ req'[r] = value
      /\ \A q \in Slots \ {r} : req'[q] = req[q]
  BY OneSlot DEF SessionInv
<1>2. registry' = registry
  BY RegistryKept
<1>3. OpenerInv'
  BY NarrowedKeepsSessions
<1>4. CallerInv'
  <2>1. ASSUME Admitted(r)', req'[r].input.via = "mcp"
        PROVE  Grants(req'[r].ctx, context_for_key(registry, key_fingerprint(req'[r].input.header)))
    <3>1. Grants(req[r].ctx, context_for_key(registry, key_fingerprint(req[r].input.header)))
      BY <1>1, <2>1 DEF SessionInv, CallerInv
    <3> QED
      BY <1>1, <3>1 DEF Grants
  <2>2. /\ req'[r].session \in issued' \cup {"", "unknown"}
        /\ req'[r].phase \in {"new", "blocking", "resolved"} => ~req'[r].opens
        /\ req'[r].opens => req'[r].input.via = "mcp"
    BY <1>1 DEF SessionInv, CallerInv
  <2>3. \A q \in Slots \ {r} : Admitted(q)' <=> Admitted(q)
    BY <1>1 DEF Admitted
  <2> QED
    BY <1>1, <1>2, <2>1, <2>2, <2>3 DEF SessionInv, CallerInv
<1>5. CloserInv'
  BY <1>1 DEF SessionInv, CloserInv, Narrowed
<1>6. SessionServesItsOpener'
  BY <1>1 DEF SessionInv, SessionServesItsOpener, Grants, Admitted
<1> QED
  BY <1>1, <1>3, <1>4, <1>5, <1>6 DEF SessionInv

(* The forms of a request.                                                 *)
LEMMA NewForm ==
    /\ DOMAIN NoRequest = Fields /\ NoRequest.session = "" /\ NoRequest.opens = FALSE
    /\ NoRequest.ctx = NoContext
    /\ DOMAIN NoContext = {"tenant", "database", "scopes", "limits"}
BY DEF NoRequest, NoContext, Fields

(* What admit lets through was authenticated.                              *)
LEMMA AdmitAuthenticates ==
    ASSUME NEW input, NEW id, admit(input, id) = 0
    PROVE  /\ context_for_header(registry, input.header) /= NoContext
           /\ id /= "" => Usable(id, key_fingerprint(input.header))
<1>1. Refused(input) = 0
  BY DEF admit
<1>2. ASSUME id /= "", ~Usable(id, key_fingerprint(input.header))
      PROVE  FALSE
  <2>1. 404 /= 0
    OBVIOUS
  <2>2. admit(input, id) = 404
    BY <1>1, <1>2 DEF admit
  <2> QED
    BY <2>1, <2>2
<1>3. context_for_header(registry, input.header) /= NoContext
  BY <1>1 DEF Refused
<1> QED
  BY <1>2, <1>3

(* A refusal binds nothing.                                                *)
LEMMA AnsweredStep ==
    ASSUME SessionInv, Narrowed, UNCHANGED <<issued, opener, scenario>>,
           NEW r \in Slots, NEW input, NEW status, Set(r, Answered(input, status))
    PROVE  SessionInv'
<1>1. "" \notin issued
  BY ServingAssumption DEF SessionInv, OpenerInv
<1> DEFINE value == Answered(input, status)
<1>2. /\ DOMAIN value = Fields /\ value.session = "" /\ value.phase = "replied" /\ value.opens = FALSE
      /\ DOMAIN value.ctx = {"tenant", "database", "scopes", "limits"}
  BY NewForm DEF Answered, Fields
<1>3. Set(r, value)
  OBVIOUS
<1> HIDE DEF value
<1> QED
  BY <1>1, <1>2, <1>3, FreshRequest

(* admit: a request that names a session gets through as its owner only.   *)
LEMMA McpStep ==
    ASSUME SessionInv, NEW r \in Slots, NEW input, NEW id, Mcp(r, input, id)
    PROVE  SessionInv'
<1>1. /\ UNCHANGED <<scenario, opener, issued>>
      /\ id \in issued \cup {"", "unknown"}
      /\ input.via = "mcp"
      /\ UNCHANGED live \/ \E owner : touch(id, owner)
  BY DEF Mcp, Touch, touch, sessionVars
<1>2. Narrowed
  BY <1>1, OwnersKept DEF SessionInv
<1>3. CASE \E status : Set(r, Answered(input, status))
  BY <1>1, <1>2, <1>3, AnsweredStep
<1>4. ASSUME NEW phase, phase /= "replied", admit(input, id) = 0, Set(r, Received(input, id, phase))
      PROVE  SessionInv'
  <2> DEFINE value == Received(input, id, phase)
  <2>1. context_for_header(registry, input.header) /= NoContext
    BY <1>4, AdmitAuthenticates
  <2>2. /\ DOMAIN value = Fields /\ value.session = id /\ value.phase = phase /\ value.opens = FALSE
        /\ value.input = input /\ value.ctx = context_for_header(registry, input.header)
    BY NewForm DEF Received, Fields
  <2>3. /\ DOMAIN value.ctx = {"tenant", "database", "scopes", "limits"}
        /\ Grants(value.ctx, context_for_key(registry, key_fingerprint(value.input.header)))
    BY <2>1, <2>2, HeaderGrants
  <2>4. id \in issued => Usable(id, key_fingerprint(input.header))
    <3>1. "" \notin issued
      BY ServingAssumption DEF SessionInv, OpenerInv
    <3> QED
      BY <1>4, <3>1, AdmitAuthenticates
  <2>5. id \in issued => id \in DOMAIN live /\ live[id].owner = key_fingerprint(input.header)
    BY <2>4 DEF Usable
  <2> HIDE DEF value
  <2> QED
    BY <1>1, <1>2, <1>4, <2>2, <2>3, <2>5, FreshRequest DEF value
<1> QED
  BY <1>3, <1>4 DEF Mcp

(* Requests of the other entrances name no session, and their callers are  *)
(* not bound to one.                                                       *)
LEMMA EntranceStep ==
    ASSUME SessionInv, NEW r \in Slots, NEW input,
           \/ options(r, input) \/ RestCatalog(r, input) \/ RestData(r, input)
           \/ ReadLine(r, input)
    PROVE  SessionInv'
<1>1. UNCHANGED <<live, issued, opener, scenario>>
  BY DEF options, RestCatalog, RestData, ReadLine, sessionVars
<1>2. Narrowed
  BY <1>1, OwnersKept DEF SessionInv
<1>3. ASSUME NEW ctx, NEW phase, DOMAIN ctx = {"tenant", "database", "scopes", "limits"},
             input.via /= "mcp",
             Set(r, [Received(input, "", phase) EXCEPT !.ctx = ctx])
      PROVE  SessionInv'
  <2> DEFINE value == [Received(input, "", phase) EXCEPT !.ctx = ctx]
  <2>1. /\ DOMAIN value = Fields /\ value.session = "" /\ value.opens = FALSE
        /\ value.input = input /\ value.ctx = ctx
    BY NewForm DEF Received, Fields
  <2>2. "" \notin issued
    BY ServingAssumption DEF SessionInv, OpenerInv
  <2>3. Set(r, value)
    BY <1>3
  <2> HIDE DEF value
  <2> QED
    BY <1>1, <1>2, <1>3, <2>1, <2>2, <2>3, FreshRequest
<1>4. CASE \E status : Set(r, Answered(input, status))
  BY <1>1, <1>2, <1>4, AnsweredStep
<1>5. /\ DOMAIN rest_context(input) = {"tenant", "database", "scopes", "limits"}
      /\ DOMAIN local_context(registry) = {"tenant", "database", "scopes", "limits"}
  BY HeaderGrants DEF rest_context, local_context, context
<1>6. CASE options(r, input)
  BY <1>4, <1>6 DEF options
<1>7. CASE RestCatalog(r, input)
  BY <1>3, <1>4, <1>5, <1>7 DEF RestCatalog
<1>8. CASE RestData(r, input)
  BY <1>3, <1>4, <1>5, <1>8 DEF RestData
<1>9. CASE ReadLine(r, input)
  BY <1>3, <1>5, <1>9 DEF ReadLine
<1> QED
  BY <1>6, <1>7, <1>8, <1>9

(* A request that is worked on stays with its caller; of its context only  *)
(* the database may change.                                                *)
LEMMA WorkStep ==
    ASSUME SessionInv, NEW r \in Slots,
           \/ handle(r) \/ Apply(r) \/ EndStream(r) \/ ClientGone(r) \/ Close(r)
           \/ Respond(r) /\ UNCHANGED <<sessionVars, opener>>
    PROVE  SessionInv'
<1>1. UNCHANGED <<issued, opener, scenario>>
  BY DEF handle, Apply, EndStream, ClientGone, Close, Respond, close, sessionVars
<1>2. Narrowed
  <2>1. UNCHANGED live \/ close(req[r].session)
    BY DEF handle, Apply, EndStream, ClientGone, Close, Respond, close, sessionVars
  <2> QED
    BY <2>1, OwnersKept DEF SessionInv
<1>3. /\ DOMAIN req[r] = Fields
      /\ DOMAIN req[r].ctx = {"tenant", "database", "scopes", "limits"}
      /\ Grants(req[r].ctx, req[r].ctx)
      /\ req[r].phase \in {"blocking", "resolved"} => ~req[r].opens
      /\ req[r].opens => req[r].input.via = "mcp"
  BY DEF SessionInv, FormInv, CallerInv, Grants
<1>4. ASSUME NEW phase, NEW status, NEW error, Admitted(r), phase \in {"finished", "replied"},
             Set(r, [req[r] EXCEPT !.phase = phase, !.status = status, !.error = error])
      PROVE  SessionInv'
  <2> DEFINE value == [req[r] EXCEPT !.phase = phase, !.status = status, !.error = error]
  <2>1. /\ DOMAIN value = Fields /\ value.session = req[r].session /\ value.opens = req[r].opens
        /\ value.input = req[r].input /\ value.ctx = req[r].ctx /\ value.phase = phase
    BY <1>3 DEF Fields
  <2>2. Set(r, value)
    BY <1>4
  <2> HIDE DEF value
  <2> QED
    BY <1>1, <1>2, <1>3, <1>4, <2>1, <2>2, RequestMoves
<1>5. CASE Apply(r)
  <2>1. Admitted(r)
    BY <1>5 DEF Apply, Runs, Admitted
  <2>2. \E error : Finish(r, 200, error)
    BY <1>5, Zenon DEF Apply
  <2>3. \E error : Set(r, [req[r] EXCEPT !.phase = "finished", !.status = 200, !.error = error])
    BY <2>2 DEF Finish
  <2> QED
    BY <1>4, <2>1, <2>3
<1>6. CASE EndStream(r) \/ Close(r) \/ (Respond(r) /\ UNCHANGED <<sessionVars, opener>>)
  <2>1. Admitted(r)
    BY <1>6 DEF EndStream, SeesStop, Close, Respond, Admitted
  <2>2. \E status, error :
            Set(r, [req[r] EXCEPT !.phase = "replied", !.status = status, !.error = error])
    <3>1. \E status, error : Reply(r, status, error)
      BY <1>6 DEF EndStream, Close, Respond
    <3> QED
      BY <3>1 DEF Reply
  <2> QED
    BY <1>4, <2>1, <2>2
<1>7. CASE ClientGone(r)
  <2> DEFINE value == [req[r] EXCEPT !.gone = TRUE,
                                     !.phase = IF @ = "stream" THEN "replied" ELSE @]
  <2>1. /\ DOMAIN value = Fields /\ value.session = req[r].session /\ value.opens = req[r].opens
        /\ value.input = req[r].input /\ value.ctx = req[r].ctx
        /\ value.phase = IF req[r].phase = "stream" THEN "replied" ELSE req[r].phase
    BY <1>3 DEF Fields
  <2>2. Set(r, value) /\ Admitted(r) /\ req[r].phase \notin {"new", "closing"}
    BY <1>7 DEF ClientGone, Admitted
  <2> HIDE DEF value
  <2> QED
    BY <1>1, <1>2, <1>3, <2>1, <2>2, RequestMoves
<1>8. CASE handle(r)
  <2> DEFINE message == req[r].input.message
             step    == resolve(catalog, req[r].ctx, message.tool, message.args)
  <2>1. Admitted(r) /\ req[r].phase = "blocking"
    BY <1>8 DEF handle, Admitted
  <2>2. CASE IsCall(message) /\ step.error /= "" /\ Finish(r, 200, step.error)
    BY <1>4, <2>1, <2>2 DEF Finish
  <2>3. ASSUME NEW status, NEW error, NEW opens, opens => req[r].input.via = "mcp",
               Set(r, [req[r] EXCEPT !.phase = "finished", !.status = status, !.error = error,
                                     !.opens = opens])
        PROVE  SessionInv'
    <3> DEFINE value == [req[r] EXCEPT !.phase = "finished", !.status = status, !.error = error,
                                       !.opens = opens]
    <3>1. /\ DOMAIN value = Fields /\ value.session = req[r].session /\ value.opens = opens
          /\ value.input = req[r].input /\ value.ctx = req[r].ctx /\ value.phase = "finished"
      BY <1>3 DEF Fields
    <3>2. Set(r, value)
      BY <2>3
    <3> HIDE DEF value
    <3> QED
      BY <1>1, <1>2, <1>3, <2>1, <2>3, <3>1, <3>2, RequestMoves
  <2>4. ASSUME NEW ctx, NEW schema, DOMAIN ctx = {"tenant", "database", "scopes", "limits"},
               Grants(ctx, req[r].ctx),
               Set(r, [req[r] EXCEPT !.phase = "resolved", !.ctx = ctx, !.schema = schema])
        PROVE  SessionInv'
    <3> DEFINE value == [req[r] EXCEPT !.phase = "resolved", !.ctx = ctx, !.schema = schema]
    <3>1. /\ DOMAIN value = Fields /\ value.session = req[r].session /\ value.opens = req[r].opens
          /\ value.input = req[r].input /\ value.ctx = ctx /\ value.phase = "resolved"
      BY <1>3 DEF Fields
    <3>2. Set(r, value)
      BY <2>4
    <3> HIDE DEF value
    <3> QED
      BY <1>1, <1>2, <1>3, <2>1, <2>4, <3>1, <3>2, RequestMoves
  <2>5. CASE ~IsCall(message)
    BY <1>8, <2>3, <2>5 DEF handle
  <2>6. CASE /\ IsCall(message) /\ step.error = ""
             /\ Set(r, [req[r] EXCEPT !.phase = "resolved", !.ctx = step.ctx,
                                      !.schema = step.schema])
    <3>1. /\ DOMAIN step.ctx = {"tenant", "database", "scopes", "limits"}
          /\ Grants(step.ctx, req[r].ctx)
      BY <1>3, <2>6, ResolveKeepsCaller
    <3> QED
      BY <2>4, <2>6, <3>1
  <2> QED
    BY <1>8, <2>2, <2>5, <2>6 DEF handle
<1> QED
  BY <1>5, <1>6, <1>7, <1>8

(* A session is bound to the token that opened it, under an identifier     *)
(* that no request can have named before.                                  *)
LEMMA OpeningStep ==
    ASSUME SessionInv, NEW r \in Slots, Respond(r), req[r].opens
    PROVE  SessionInv'
<1>1. PICK id \in Ids :
          /\ open(id, key_fingerprint(req[r].input.header))
          /\ opener' = [i \in DOMAIN opener \cup {id} |->
                           IF i = id THEN req[r].ctx ELSE opener[i]]
          /\ Reply(r, req[r].status, req[r].error)
  BY DEF Respond
<1> DEFINE owner == key_fingerprint(req[r].input.header)
           value == [req[r] EXCEPT !.phase = "replied", !.status = req[r].status,
                                   !.error = req[r].error]
<1>2. /\ Admitted(r) /\ UNCHANGED scenario /\ registry' = registry
      /\ DOMAIN req[r] = Fields
      /\ DOMAIN req[r].ctx = {"tenant", "database", "scopes", "limits"}
      /\ Grants(req[r].ctx, context_for_key(registry, owner))
  BY RegistryKept DEF Respond, Admitted, SessionInv, FormInv, CallerInv
<1>3. /\ issued' = issued \cup {id} /\ id \notin issued /\ id \notin {"", "unknown"}
      /\ DOMAIN live' \subseteq DOMAIN live \cup {id}
      /\ live'[id] = [owner |-> owner, last_used |-> now]
      /\ \A i \in DOMAIN live' \ {id} : live'[i] = live[i]
  <2>1. PICK gone \in Displaced :
            live' = [i \in (Retained \ gone) \cup {id} |->
                        IF i = id THEN [owner |-> owner, last_used |-> now] ELSE live[i]]
    BY <1>1 DEF open
  <2>2. Retained \subseteq DOMAIN live
    BY DEF Retained
  <2> QED
    BY <1>1, <2>1, <2>2, ServingAssumption DEF open
<1>4. /\ DOMAIN value = Fields /\ value.session = req[r].session /\ value.opens = req[r].opens
      /\ value.input = req[r].input /\ value.ctx = req[r].ctx /\ value.phase = "replied"
  BY <1>2 DEF Fields
<1>5. Set(r, value)
  BY <1>1 DEF Reply
<1> HIDE DEF value
<1>6. /\ FormInv' /\ req'[r] = value
      /\ \A q \in Slots \ {r} : req'[q] = req[q]
  BY <1>2, <1>4, <1>5, OneSlot DEF SessionInv
<1>7. \A q \in Slots : /\ req'[q].session = req[q].session /\ req'[q].session /= id
                       /\ req'[q].input = req[q].input /\ req'[q].ctx = req[q].ctx
                       /\ req'[q].opens = req[q].opens
                       /\ req'[q].phase = req[q].phase
                             \/ (req'[q].phase = "replied" /\ req[q].phase = "finished")
  <2>1. \A q \in Slots : req[q].session /= id
    BY <1>3 DEF SessionInv, CallerInv
  <2>2. req[r].phase = "finished"
    BY DEF Respond
  <2> QED
    BY <1>4, <1>6, <2>1, <2>2
<1>8. OpenerInv'
  <2>1. issued' = DOMAIN opener' /\ issued' \subseteq Ids /\ DOMAIN live' \subseteq issued'
    BY <1>1, <1>3 DEF SessionInv, OpenerInv
  <2>2. ASSUME NEW i \in DOMAIN live', i /= id
        PROVE  /\ DOMAIN live'[i] = {"owner", "last_used"}
               /\ Grants(opener'[i], context_for_key(registry, live'[i].owner))
    BY <1>1, <1>3, <2>2 DEF SessionInv, OpenerInv
  <2>3. /\ DOMAIN live'[id] = {"owner", "last_used"} /\ live'[id].owner = owner
        /\ opener'[id] = req[r].ctx
    <3>1. opener'[id] = req[r].ctx
      BY <1>1
    <3>2. live'[id] = [owner |-> owner, last_used |-> now]
      BY <1>3
    <3> HIDE DEF owner
    <3> QED
      BY <3>1, <3>2
  <2> QED
    BY <1>2, <2>1, <2>2, <2>3 DEF OpenerInv
<1>9. CallerInv'
  <2>1. \A q \in Slots : Admitted(q)' => Admitted(q)
    BY <1>7 DEF Admitted
  <2>2. ASSUME NEW q \in Slots
        PROVE  /\ Admitted(q)' /\ req'[q].input.via = "mcp" =>
                      Grants(req'[q].ctx, context_for_key(registry', key_fingerprint(req'[q].input.header)))
               /\ req'[q].session \in issued' \cup {"", "unknown"}
               /\ req'[q].phase \in {"new", "blocking", "resolved"} => ~req'[q].opens
               /\ req'[q].opens => req'[q].input.via = "mcp"
    <3>1. /\ Admitted(q) /\ req[q].input.via = "mcp" =>
                 Grants(req[q].ctx, context_for_key(registry, key_fingerprint(req[q].input.header)))
          /\ req[q].session \in issued \cup {"", "unknown"}
          /\ req[q].phase \in {"new", "blocking", "resolved"} => ~req[q].opens
          /\ req[q].opens => req[q].input.via = "mcp"
      BY DEF SessionInv, CallerInv
    <3>2. /\ req'[q].session = req[q].session
          /\ req'[q].input = req[q].input /\ req'[q].ctx = req[q].ctx
          /\ req'[q].opens = req[q].opens
          /\ req'[q].phase \in {"new", "blocking", "resolved"} => req'[q].phase = req[q].phase
      BY <1>7
    <3> QED
      BY <1>2, <1>3, <2>1, <3>1, <3>2
  <2> QED
    BY <2>2 DEF CallerInv
<1>10. CloserInv'
  <2>1. ASSUME NEW q \in Slots, req'[q].phase = "closing", req'[q].session \in DOMAIN live'
        PROVE  key_fingerprint(req'[q].input.header) = live'[req'[q].session].owner
    <3>1. /\ req[q].phase = "closing" /\ req'[q].session = req[q].session
          /\ req'[q].input = req[q].input /\ req[q].session /= id
      BY <1>7, <2>1
    <3>2. req[q].session \in DOMAIN live /\ live'[req[q].session] = live[req[q].session]
      BY <1>3, <2>1, <3>1
    <3> QED
      BY <3>1, <3>2 DEF SessionInv, CloserInv
  <2> QED
    BY <2>1 DEF CloserInv
<1>11. SessionServesItsOpener'
  BY <1>1, <1>7 DEF SessionInv, SessionServesItsOpener
<1> QED
  BY <1>6, <1>8, <1>9, <1>10, <1>11 DEF SessionInv

(* The steps of the process leave requests and sessions alone.             *)
LEMMA ProcessLeavesSessions ==
    ASSUME Start \/ Bind \/ Signal \/ StdinEnds \/ Proceeds \/ TimePasses \/ Quiet \/ UNCHANGED vars
    PROVE  UNCHANGED <<live, issued, opener, scenario, req>>
<1>1. ASSUME NEW table, Flush(table)
      PROVE  UNCHANGED <<live, issued, opener, scenario, req>>
  BY <1>1 DEF Flush, sessionVars
<1>2. ASSUME \/ Race \/ begin_shutdown \/ StopAccepting \/ HttpEnds \/ StopsWaiting \/ Drained
             \/ DrainTimesOut \/ Exit
      PROVE  UNCHANGED <<live, issued, opener, scenario, req>>
  BY <1>2 DEF Race, begin_shutdown, StopAccepting, HttpEnds, StopsWaiting, Drained,
              DrainTimesOut, Exit, ProcessStep, sessionVars
<1>3. CASE Proceeds
  BY <1>1, <1>2, <1>3 DEF Proceeds
<1>4. CASE Start \/ Bind \/ Signal \/ StdinEnds \/ TimePasses \/ Quiet \/ UNCHANGED vars
  BY <1>4 DEF Start, Bind, Signal, StdinEnds, TimePasses, Tick, Quiet, ProcessStep, vars, sessionVars
<1> QED
  BY <1>3, <1>4

(* Every step of the server keeps the invariant of the sessions.          *)
LEMMA SessionInvInductive ==
    ASSUME SessionInv, [Next]_vars
    PROVE  SessionInv'
<1>1. CASE Requests
  <2>1. PICK r \in Slots :
          \/ \E input \in config.inputs[r] :
                \/ \E id \in issued \cup {"", "unknown"} : Mcp(r, input, id)
                \/ options(r, input) \/ RestCatalog(r, input) \/ RestData(r, input)
                \/ ReadLine(r, input)
          \/ handle(r) \/ Apply(r) \/ Respond(r) \/ Close(r) \/ EndStream(r) \/ ClientGone(r)
    BY <1>1 DEF Requests
  <2>2. CASE Respond(r)
    <3>1. req[r].opens \/ UNCHANGED <<sessionVars, opener>>
      BY <2>2 DEF Respond
    <3> QED
      BY <2>2, <3>1, OpeningStep, WorkStep
  <2> QED
    BY <2>1, <2>2, McpStep, EntranceStep, WorkStep
<1>2. CASE ~Requests
  <2>1. UNCHANGED <<live, issued, opener, scenario, req>>
    BY <1>2, ProcessLeavesSessions DEF Next
  <2>2. Narrowed
    BY <2>1, OwnersKept DEF SessionInv
  <2> QED
    BY <2>1, <2>2, NarrowedKeepsSessions
<1> QED
  BY <1>1, <1>2

(* It holds throughout.                                                    *)
LEMMA SessionInvHolds == Spec => []SessionInv
<1>1. ASSUME Init PROVE SessionInv
  <2>1. /\ DOMAIN live = {} /\ issued = {} /\ DOMAIN opener = {}
        /\ req = [r \in Slots |-> NoRequest]
    BY <1>1 DEF Init, SessionsInit
  <2>2. NoRequest.phase = "new" /\ NoRequest.session = "" /\ NoRequest.opens = FALSE
    BY DEF NoRequest
  <2>3. FormInv
    BY <2>1, NewForm DEF FormInv
  <2>4. OpenerInv /\ CallerInv /\ CloserInv /\ SessionServesItsOpener
    BY <2>1, <2>2 DEF OpenerInv, CallerInv, CloserInv, SessionServesItsOpener, Admitted
  <2> QED
    BY <2>3, <2>4 DEF SessionInv
<1>2. SessionInv /\ [Next]_vars => SessionInv'
  BY SessionInvInductive
<1> QED
  BY <1>1, <1>2, PTL DEF Spec

(* A request that was admitted with a session runs with the tenant and the *)
(* scopes of the request that opened it, whoever else holds sessions, and  *)
(* whatever ends them meanwhile (admit, Sessions::touch, context_for_key). *)
THEOREM SessionsServeTheirOpeners == Spec => []SessionServesItsOpener
<1>1. SessionInv => SessionServesItsOpener
  BY DEF SessionInv
<1> QED
  BY SessionInvHolds, <1>1, PTL

(* Sessions::open displaces a session that is idle, or a least recently    *)
(* used one of a table full of sessions in use.                            *)
LEMMA OpeningDisplaces ==
    ASSUME TableInv, NEW new, NEW owner, open(new, owner), NEW id \in DOMAIN live \ DOMAIN live'
    PROVE  \/ Idle(id)
           \/ /\ Cardinality({i \in DOMAIN live : ~Idle(i)}) >= MAX_SESSIONS
              /\ \A other \in DOMAIN live : live[id].last_used <= live[other].last_used
<1>1. PICK gone \in Displaced : DOMAIN live' = (Retained \ gone) \cup {new}
  BY DEF open
<1>2. Retained \subseteq DOMAIN live /\ (id \notin Retained => Idle(id))
  BY DEF Retained
<1>3. CASE id \in Retained
  <2>1. id \in gone
    BY <1>1, <1>3
  <2>2. Cardinality(Retained) >= MAX_SESSIONS /\ id \in LeastRecent(Retained)
    BY <2>1 DEF Displaced
  <2>3. /\ Cardinality(Retained) <= Cardinality(DOMAIN live)
        /\ Cardinality(Retained) = Cardinality(DOMAIN live) => Retained = DOMAIN live
        /\ Cardinality(Retained) \in Nat /\ Cardinality(DOMAIN live) \in Nat
    BY <1>2, FS_Subset, FS_CardinalityType DEF TableInv
  <2>4. Retained = DOMAIN live /\ Cardinality(DOMAIN live) >= MAX_SESSIONS
    BY <2>2, <2>3, SessionsAssumption DEF TableInv, SessionsBounded
  <2>5. Retained = {i \in DOMAIN live : ~Idle(i)}
    BY <2>4 DEF Retained
  <2> QED
    BY <2>2, <2>4, <2>5 DEF LeastRecent
<1> QED
  BY <1>2, <1>3

(* A session ends only because it was idle for SESSION_IDLE, because its   *)
(* own key closed it, or because the table was full of sessions in use and *)
(* none was used less recently (Sessions::open, touch and delete): nobody  *)
(* can end the session of another by closing it.                           *)
THEOREM SessionsEndWithReason == Spec => SessionsEndForAReason
<1> DEFINE Reason(id) ==
              \/ Idle(id)
              \/ \E r \in Slots : /\ req[r].phase = "closing" /\ req[r].session = id
                                  /\ key_fingerprint(req[r].input.header) = live[id].owner
              \/ /\ Cardinality({i \in DOMAIN live : ~Idle(i)}) >= MAX_SESSIONS
                 /\ \A other \in DOMAIN live : live[id].last_used <= live[other].last_used
<1>1. ASSUME TableInv, SessionInv, [Next]_vars, NEW id \in DOMAIN live \ DOMAIN live'
      PROVE  Reason(id)
  <2>1. CASE ~Requests
    BY <1>1, <2>1, ProcessLeavesSessions DEF Next
  <2>2. ASSUME NEW r \in Slots, NEW input, NEW named, Mcp(r, input, named)
        PROVE  Reason(id)
    <3>1. UNCHANGED live \/ \E owner : touch(named, owner)
      BY <2>2 DEF Mcp, Touch, sessionVars
    <3>2. PICK owner : touch(named, owner)
      BY <1>1, <3>1
    <3>3. named = id /\ Idle(id)
      BY <1>1, <3>2 DEF touch, Only
    <3> QED
      BY <3>3
  <2>3. ASSUME NEW r \in Slots, Close(r)
        PROVE  Reason(id)
    <3>1. id = req[r].session /\ req[r].phase = "closing"
      BY <1>1, <2>3 DEF Close, close, Only
    <3> QED
      BY <1>1, <3>1 DEF SessionInv, CloserInv
  <2>4. ASSUME NEW r \in Slots, Respond(r)
        PROVE  Reason(id)
    <3>1. \E new \in Ids : open(new, key_fingerprint(req[r].input.header))
      BY <1>1, <2>4 DEF Respond, sessionVars
    <3> QED
      BY <1>1, <3>1, OpeningDisplaces
  <2>5. ASSUME NEW r \in Slots, NEW input,
               \/ options(r, input) \/ RestCatalog(r, input) \/ RestData(r, input)
               \/ ReadLine(r, input) \/ handle(r) \/ Apply(r) \/ EndStream(r) \/ ClientGone(r)
        PROVE  UNCHANGED live
    BY <2>5 DEF options, RestCatalog, RestData, ReadLine, handle, Apply, EndStream, ClientGone, sessionVars
  <2>6. CASE Requests
    <3>1. PICK r \in Slots :
            \/ \E input \in config.inputs[r] :
                  \/ \E named \in issued \cup {"", "unknown"} : Mcp(r, input, named)
                  \/ options(r, input) \/ RestCatalog(r, input) \/ RestData(r, input)
                  \/ ReadLine(r, input)
            \/ handle(r) \/ Apply(r) \/ Respond(r) \/ Close(r) \/ EndStream(r) \/ ClientGone(r)
      BY <2>6 DEF Requests
    <3> QED
      BY <1>1, <3>1, <2>2, <2>3, <2>4, <2>5
  <2> QED
    BY <2>1, <2>6
<1>2. TableInv /\ SessionInv /\ [Next]_vars => [\A id \in DOMAIN live \ DOMAIN live' : Reason(id)]_vars
  BY <1>1
<1>3. Spec => []TableInv
  BY TableInvHolds
<1> QED
  BY <1>2, <1>3, SessionInvHolds, PTL DEF Spec, SessionsEndForAReason

-----------------------------------------------------------------------------
(* The drain.                                                              *)

\* Nothing forced the exit.
Orderly == signals < 2 /\ ~timedOut /\ http /= "off"

Ending == main \in {"checkpoint", "exited"}

\* Connections exist only while the transport is up or closing, and the streams
\* among them have been told by then.
HttpInv ==
    /\ http \in {"off", "binding", "failed", "done"} => \A r \in Slots : ~Open(r)
    /\ http = "closing" => stopping
    /\ main = "starting" => http = "off"
    /\ signals \in 0 .. 2
    /\ Ending /\ Orderly => http \in {"failed", "done"}

\* Who writes after the checkpoint has begun.
LateInv ==
    /\ late \subseteq Slots
    /\ late /= {} => Ending
    /\ \A r \in late : req[r].phase /= "new"
    /\ Ending /\ Orderly => \A r \in late : req[r].input.via = "stdio" \/ req[r].gone

\* What the checkpoint has still to flush.
DirtyInv ==
    /\ dirty \subseteq Tables
    /\ main = "checkpoint" /\ late = {} => dirty \subseteq pending \cup unflushed
    /\ main = "exited" /\ Orderly /\ late = {} => dirty \subseteq unflushed

DrainInv == HttpInv /\ LateInv /\ DirtyInv

\* What the steps of requests leave alone.
Process == <<main, http, stop, stopping, signals, pending, timedOut, unflushed>>

\* What may become of a request in a step: it is accepted while the transport is
\* up, and keeps its input for good.
Progress(r) ==
    /\ Open(r)' => Open(r) \/ http = "up"
    /\ req[r].phase /= "new" =>
          /\ req'[r].phase /= "new" /\ req'[r].input = req[r].input
          /\ req[r].gone => req'[r].gone

(* A request that is new becomes a connection only while the transport is  *)
(* up.                                                                     *)
LEMMA AcceptedProgress ==
    ASSUME FormInv, NEW r \in Slots, NEW input, NEW id,
           \/ Mcp(r, input, id) \/ options(r, input) \/ RestCatalog(r, input)
           \/ RestData(r, input) \/ ReadLine(r, input)
    PROVE  \A q \in Slots : Progress(q)
<1>1. PICK value : Set(r, value) /\ (http = "up" \/ (value.input.via = "stdio"))
  <2>1. CASE ReadLine(r, input)
    <3> DEFINE value == [Received(input, "", "blocking") EXCEPT !.ctx = local_context(registry)]
    <3>1. value.input = input
      BY NewForm DEF Received, Fields
    <3>2. Set(r, value) /\ input.via = "stdio"
      BY <2>1 DEF ReadLine
    <3> HIDE DEF value
    <3> QED
      BY <3>1, <3>2
  <2>2. CASE \/ Mcp(r, input, id) \/ options(r, input) \/ RestCatalog(r, input)
             \/ RestData(r, input)
    <3>1. http = "up"
      BY <2>2 DEF Mcp, options, RestCatalog, RestData, Accepts
    <3>2. \E value : Set(r, value)
      BY <2>2 DEF Mcp, options, RestCatalog, RestData
    <3> QED
      BY <3>1, <3>2
  <2> QED
    BY <2>1, <2>2
<1>2. req[r].phase = "new"
  BY DEF Mcp, options, RestCatalog, RestData, ReadLine, Accepts
<1>3. req'[r] = value /\ \A q \in Slots \ {r} : req'[q] = req[q]
  BY <1>1 DEF Set, FormInv
<1> QED
  BY <1>1, <1>2, <1>3 DEF Progress, Open

(* A request that was accepted keeps its input, and a client that is gone  *)
(* does not come back.                                                     *)
LEMMA WorkProgress ==
    ASSUME FormInv, NEW r \in Slots,
           \/ handle(r) \/ Apply(r) \/ Respond(r) \/ Close(r) \/ EndStream(r) \/ ClientGone(r)
    PROVE  \A q \in Slots : Progress(q)
<1>1. DOMAIN req[r] = Fields
  BY DEF FormInv
<1>2. /\ req[r].phase \in {"blocking", "resolved", "finished", "closing", "stream"}
      /\ req'[r].input = req[r].input
      /\ req'[r].gone = req[r].gone \/ req'[r].gone = TRUE
      /\ req'[r].phase \in {"resolved", "finished", "replied", req[r].phase}
      /\ \A q \in Slots \ {r} : req'[q] = req[q]
  <2>1. ASSUME NEW phase, NEW status, NEW error,
               Set(r, [req[r] EXCEPT !.phase = phase, !.status = status, !.error = error])
        PROVE  /\ req'[r].input = req[r].input /\ req'[r].gone = req[r].gone
               /\ req'[r].phase = phase
               /\ \A q \in Slots \ {r} : req'[q] = req[q]
    BY <1>1, <2>1 DEF Set, FormInv, Fields
  <2>2. CASE Apply(r)
    <3>1. req[r].phase = "resolved"
      BY <2>2 DEF Apply, Runs
    <3>2. \E error : Finish(r, 200, error)
      BY <2>2, Zenon DEF Apply
    <3>3. PICK error :
              Set(r, [req[r] EXCEPT !.phase = "finished", !.status = 200, !.error = error])
      BY <3>2 DEF Finish
    <3>4. /\ req'[r].input = req[r].input /\ req'[r].gone = req[r].gone
          /\ req'[r].phase = "finished"
          /\ \A q \in Slots \ {r} : req'[q] = req[q]
      BY <2>1, <3>3
    <3> QED
      BY <3>1, <3>4
  <2>3. CASE EndStream(r) \/ Close(r) \/ Respond(r)
    <3>1. req[r].phase \in {"stream", "closing", "finished"}
      BY <2>3 DEF EndStream, SeesStop, Close, Respond
    <3>2. \E status, error : Reply(r, status, error)
      BY <2>3 DEF EndStream, Close, Respond
    <3>3. PICK status, error :
              Set(r, [req[r] EXCEPT !.phase = "replied", !.status = status, !.error = error])
      BY <3>2 DEF Reply
    <3>4. /\ req'[r].input = req[r].input /\ req'[r].gone = req[r].gone
          /\ req'[r].phase = "replied"
          /\ \A q \in Slots \ {r} : req'[q] = req[q]
      BY <2>1, <3>3
    <3> QED
      BY <3>1, <3>4
  <2>4. CASE ClientGone(r)
    <3>1. /\ req[r].phase \in {"blocking", "resolved", "finished", "stream"}
          /\ Set(r, [req[r] EXCEPT !.gone = TRUE,
                                   !.phase = IF @ = "stream" THEN "replied" ELSE @])
      BY <2>4 DEF ClientGone
    <3> QED
      BY <1>1, <3>1 DEF Set, FormInv, Fields
  <2>5. CASE handle(r)
    <3>1. req[r].phase = "blocking"
      BY <2>5 DEF handle
    <3>2. \E status, error, opens, ctx, schema :
              \/ Set(r, [req[r] EXCEPT !.phase = "finished", !.status = status, !.error = error])
              \/ Set(r, [req[r] EXCEPT !.phase = "finished", !.status = status, !.error = error,
                                       !.opens = opens])
              \/ Set(r, [req[r] EXCEPT !.phase = "resolved", !.ctx = ctx, !.schema = schema])
      BY <2>5 DEF handle, Finish
    <3>3. ASSUME NEW status, NEW error, NEW opens,
                 Set(r, [req[r] EXCEPT !.phase = "finished", !.status = status, !.error = error,
                                       !.opens = opens])
          PROVE  /\ req'[r].input = req[r].input /\ req'[r].gone = req[r].gone
                 /\ req'[r].phase = "finished"
                 /\ \A q \in Slots \ {r} : req'[q] = req[q]
      BY <1>1, <3>3 DEF Set, FormInv, Fields
    <3>4. ASSUME NEW ctx, NEW schema,
                 Set(r, [req[r] EXCEPT !.phase = "resolved", !.ctx = ctx, !.schema = schema])
          PROVE  /\ req'[r].input = req[r].input /\ req'[r].gone = req[r].gone
                 /\ req'[r].phase = "resolved"
                 /\ \A q \in Slots \ {r} : req'[q] = req[q]
      BY <1>1, <3>4 DEF Set, FormInv, Fields
    <3> QED
      BY <2>1, <3>1, <3>2, <3>3, <3>4
  <2> QED
    BY <2>2, <2>3, <2>4, <2>5
<1>3. Progress(r)
  BY <1>2 DEF Progress, Open
<1>4. \A q \in Slots \ {r} : Progress(q)
  BY <1>2 DEF Progress, Open
<1> QED
  BY <1>3, <1>4

(* The steps of requests: what they do to the process, and to the rows     *)
(* that a checkpoint flushes.                                              *)
LEMMA RequestsProgress ==
    ASSUME FormInv, Requests
    PROVE  /\ \A q \in Slots : Progress(q)
           /\ UNCHANGED Process
           /\ \/ UNCHANGED <<catalog, dirty, late>>
              \/ \E r \in Slots : Apply(r)
<1>1. PICK r \in Slots :
        \/ \E input \in config.inputs[r] :
              \/ \E id \in issued \cup {"", "unknown"} : Mcp(r, input, id)
              \/ options(r, input) \/ RestCatalog(r, input) \/ RestData(r, input)
              \/ ReadLine(r, input)
        \/ handle(r) \/ Apply(r) \/ Respond(r) \/ Close(r) \/ EndStream(r) \/ ClientGone(r)
  BY DEF Requests
<1>2. ASSUME NEW input, NEW id,
             \/ Mcp(r, input, id) \/ options(r, input) \/ RestCatalog(r, input)
             \/ RestData(r, input) \/ ReadLine(r, input)
      PROVE  /\ \A q \in Slots : Progress(q)
             /\ UNCHANGED Process /\ UNCHANGED <<catalog, dirty, late>>
  <2>1. UNCHANGED <<engineVars, processVars>>
    BY <1>2 DEF Mcp, options, RestCatalog, RestData, ReadLine
  <2> QED
    BY <1>2, <2>1, AcceptedProgress DEF engineVars, processVars, Process
<1>3. CASE handle(r) \/ Apply(r) \/ Respond(r) \/ Close(r) \/ EndStream(r) \/ ClientGone(r)
  <2>1. \A q \in Slots : Progress(q)
    BY <1>3, WorkProgress
  <2>2. UNCHANGED Process
    BY <1>3 DEF handle, Apply, Respond, Close, EndStream, ClientGone, processVars, Process
  <2>3. Apply(r) \/ UNCHANGED <<catalog, dirty, late>>
    BY <1>3 DEF handle, Respond, Close, EndStream, ClientGone, engineVars
  <2> QED
    BY <2>1, <2>2, <2>3
<1>4. CASE \E input, id :
             \/ Mcp(r, input, id) \/ options(r, input) \/ RestCatalog(r, input)
             \/ RestData(r, input) \/ ReadLine(r, input)
  BY <1>2, <1>4
<1> QED
  BY <1>1, <1>3, <1>4

(* A write that comes after the checkpoint has begun is one of the stdio   *)
(* loop, or of a client that has gone: the transport has no connection     *)
(* left then.  One that comes before leaves its table dirty.               *)
LEMMA RequestsKeepDrain ==
    ASSUME FormInv, DrainInv, Requests
    PROVE  DrainInv'
<1>1. /\ \A q \in Slots : Progress(q)
      /\ UNCHANGED <<main, http, stop, stopping, signals, pending, timedOut, unflushed>>
  BY RequestsProgress DEF Process
<1>2. HttpInv'
  BY <1>1 DEF DrainInv, HttpInv, Progress, Ending, Orderly
<1>3. CASE UNCHANGED <<catalog, dirty, late>>
  <2>1. LateInv'
    BY <1>1, <1>3 DEF DrainInv, LateInv, Progress, Ending, Orderly
  <2>2. Tables' = Tables
    BY <1>3 DEF Tables, TablesOf
  <2>3. DirtyInv'
    BY <1>1, <1>3, <2>2 DEF DrainInv, DirtyInv, Orderly
  <2> QED
    BY <1>2, <2>1, <2>3 DEF DrainInv
<1>4. ASSUME NEW r \in Slots, Apply(r)
      PROVE  DrainInv'
  <2>1. /\ req[r].phase = "resolved" /\ main /= "exited"
        /\ dirty' \subseteq Tables'
        /\ late' \in {late, late \cup {r}}
        /\ late' /= late => main = "checkpoint"
        /\ main = "checkpoint" /\ late' = late => dirty' \subseteq dirty \/ r \in late
    <3> DEFINE message == req[r].input.message
               ctx     == req[r].ctx
               outcome == IF req[r].input.via = "rest" /\ message.tool \notin ViaTool
                          THEN perform(catalog, ctx, message.tool, message.args, req[r].schema)
                          ELSE call(catalog, ctx, message.tool, message.args, req[r].schema)
               wrote   == /\ outcome.error = ""
                          /\ message.tool \in {"data_insert", "data_upsert", "data_delete"}
               added   == <<ctx.tenant, ctx.database, message.args.table>>
    <3>1. /\ Runs(r) /\ req[r].phase = "resolved"
          /\ dirty' = (IF wrote THEN dirty \cup {added} ELSE dirty) \cap Tables'
          /\ late' = IF wrote /\ main = "checkpoint" THEN late \cup {r} ELSE late
      BY <1>4, Zenon DEF Apply
    <3> HIDE DEF wrote, added
    <3> QED
      BY <3>1 DEF Runs
  <2>2. LateInv'
    <3>1. /\ late' \subseteq Slots
          /\ late' /= {} => Ending'
      BY <1>1, <2>1 DEF DrainInv, LateInv, Ending
    <3>2. \A q \in late' : req'[q].phase /= "new"
      BY <1>1, <2>1 DEF DrainInv, LateInv, Progress
    <3>3. ASSUME Ending', Orderly', NEW q \in late'
          PROVE  req'[q].input.via = "stdio" \/ req'[q].gone
      <4>1. Ending /\ Orderly /\ q \in Slots
        BY <1>1, <2>1, <3>3 DEF Ending, Orderly, DrainInv, LateInv
      <4>2. CASE q \in late
        BY <1>1, <4>1, <4>2 DEF DrainInv, LateInv, Progress
      <4>3. CASE q \notin late
        <5>1. q = r
          BY <2>1, <3>3, <4>3
        <5>2. ~Open(r)
          BY <4>1 DEF DrainInv, HttpInv
        <5>3. req[r].input.via = "stdio" \/ req[r].gone
          BY <2>1, <5>2 DEF Open
        <5> QED
          BY <1>1, <2>1, <5>1, <5>3 DEF Progress
      <4> QED
        BY <4>2, <4>3
    <3> QED
      BY <3>1, <3>2, <3>3 DEF LateInv
  <2>3. DirtyInv'
    BY <1>1, <2>1 DEF DrainInv, DirtyInv, Orderly
  <2> QED
    BY <1>2, <2>2, <2>3 DEF DrainInv
<1> QED
  BY <1>3, <1>4, RequestsProgress

(* The steps of the process.                                               *)
LEMMA ProcessKeepsDrain ==
    ASSUME DrainInv,
           Start \/ Bind \/ Signal \/ StdinEnds \/ Proceeds \/ TimePasses \/ Quiet \/ UNCHANGED vars
    PROVE  DrainInv'
<1>1. UNCHANGED req /\ (\A r \in Slots : Open(r)' <=> Open(r))
  BY ProcessLeavesSessions DEF Open
<1>2. ASSUME UNCHANGED <<catalog, dirty, late>>
      PROVE  Tables' = Tables /\ UNCHANGED <<dirty, late>>
  BY <1>2 DEF Tables, TablesOf
<1>3. CASE TimePasses \/ Quiet \/ StdinEnds \/ UNCHANGED vars
  <2>1. UNCHANGED Process /\ UNCHANGED <<catalog, dirty, late>>
    BY <1>3 DEF TimePasses, Quiet, StdinEnds, vars, processVars, engineVars, Process, ProcessStep
  <2> QED
    BY <1>1, <1>2, <2>1
       DEF DrainInv, HttpInv, LateInv, DirtyInv, Ending, Orderly, Process
<1>4. CASE Start
  <2>1. UNCHANGED <<catalog, dirty, late>>
    BY <1>4 DEF Start, engineVars
  <2>2. HttpInv'
    BY <1>1, <1>4 DEF DrainInv, HttpInv, Start, Ending, Orderly
  <2>3. LateInv' /\ DirtyInv'
    BY <1>1, <1>2, <1>4, <2>1 DEF DrainInv, HttpInv, LateInv, DirtyInv, Start, Ending, Orderly
  <2> QED
    BY <2>2, <2>3 DEF DrainInv
<1>5. CASE Bind \/ Signal \/ Race \/ begin_shutdown \/ StopAccepting \/ HttpEnds
  <2>1. UNCHANGED <<catalog, dirty, late>>
    BY <1>5 DEF Bind, Signal, Race, begin_shutdown, StopAccepting, HttpEnds, ProcessStep, engineVars
  <2>2. HttpInv'
    BY <1>1, <1>5 DEF DrainInv, HttpInv, Ending, Orderly,
                      Bind, Signal, Race, begin_shutdown, StopAccepting, HttpEnds
  <2>3. LateInv'
    BY <1>1, <1>2, <1>5, <2>1 DEF DrainInv, HttpInv, LateInv, Ending, Orderly,
                      Bind, Signal, Race, begin_shutdown, StopAccepting, HttpEnds
  <2>4. DirtyInv'
    BY <1>1, <1>2, <1>5, <2>1 DEF DrainInv, HttpInv, DirtyInv, Ending, Orderly,
                      Bind, Signal, Race, begin_shutdown, StopAccepting, HttpEnds
  <2> QED
    BY <2>2, <2>3, <2>4 DEF DrainInv
<1>6. CASE StopsWaiting \/ Drained \/ DrainTimesOut \/ Exit
  <2>1. UNCHANGED <<catalog, dirty, late>>
    BY <1>6 DEF StopsWaiting, Drained, DrainTimesOut, Exit, ProcessStep, engineVars
  <2>2. HttpInv'
    BY <1>1, <1>6 DEF DrainInv, HttpInv, Ending, Orderly,
                      StopsWaiting, Drained, DrainTimesOut, Exit, BeginCheckpoint
  <2>3. LateInv'
    BY <1>1, <1>2, <1>6, <2>1 DEF DrainInv, HttpInv, LateInv, Ending, Orderly,
                      StopsWaiting, Drained, DrainTimesOut, Exit, BeginCheckpoint
  <2>4. DirtyInv'
    BY <1>1, <1>2, <1>6, <2>1 DEF DrainInv, HttpInv, DirtyInv, Ending, Orderly,
                      StopsWaiting, Drained, DrainTimesOut, Exit, BeginCheckpoint
  <2> QED
    BY <2>2, <2>3, <2>4 DEF DrainInv
<1>7. ASSUME NEW table \in pending, Flush(table)
      PROVE  DrainInv'
  <2>1. /\ UNCHANGED <<late, main, http, stop, stopping, signals, timedOut>>
        /\ Tables' = Tables /\ main = "checkpoint"
        /\ dirty' \subseteq dirty
        /\ dirty \subseteq pending \cup unflushed => dirty' \subseteq pending' \cup unflushed'
    BY <1>7 DEF Flush, Tables, TablesOf
  <2> QED
    BY <1>1, <2>1 DEF DrainInv, HttpInv, LateInv, DirtyInv, Ending, Orderly
<1> QED
  BY <1>3, <1>4, <1>5, <1>6, <1>7 DEF Proceeds

(* So does that of the drain, on top of it.                                *)
LEMMA DrainInvHolds == Spec => [](FormInv /\ DrainInv)
<1>1. ASSUME Init PROVE DrainInv
  <2>1. /\ req = [r \in Slots |-> NoRequest] /\ NoRequest.phase = "new"
        /\ main = "starting" /\ http = "off" /\ signals = 0 /\ dirty = {} /\ late = {}
    BY <1>1 DEF Init, NoRequest
  <2>2. \A r \in Slots : ~Open(r)
    BY <2>1 DEF Open
  <2> QED
    BY <2>1, <2>2 DEF DrainInv, HttpInv, LateInv, DirtyInv, Ending, Orderly
<1>2. SessionInv /\ DrainInv /\ [Next]_vars => DrainInv'
  BY RequestsKeepDrain, ProcessKeepsDrain DEF Next, SessionInv
<1>3. SessionInv => FormInv
  BY DEF SessionInv
<1> QED
  BY <1>1, <1>2, <1>3, SessionInvHolds, PTL DEF Spec

(* An exit that neither a second signal nor the timeout forced has         *)
(* answered every HTTP request whose client was still there, has flushed   *)
(* every table whose flush did not fail, and only the stdio loop and       *)
(* threads whose client had gone wrote after the checkpoint began (serve,  *)
(* drain, checkpoint).                                                     *)
THEOREM DrainsCompletely == Spec => []DrainIsComplete
<1>1. DrainInv => DrainIsComplete
  <2>1. ASSUME DrainInv, Ending, Orderly
        PROVE  /\ \A r \in Slots : ~Open(r)
               /\ \A r \in late : req[r].input.via = "stdio" \/ req[r].gone
               /\ main = "exited" /\ late = {} => dirty \subseteq unflushed
    BY <2>1 DEF DrainInv, HttpInv, LateInv, DirtyInv
  <2> QED
    BY <2>1 DEF DrainIsComplete, Ending, Orderly
<1> QED
  BY <1>1, DrainInvHolds, PTL

(* The drain times out only over a request that is being worked on: the    *)
(* event streams have been told to end before connections are refused      *)
(* (begin_shutdown before the graceful shutdown of axum).                  *)
THEOREM DrainWaitsForWork == Spec => DrainTimeoutNeedsWork
<1>1. ASSUME FormInv, DrainInv, [Next]_vars, ~timedOut, timedOut'
      PROVE  \E r \in Slots : Open(r) /\ req[r].phase /= "stream"
  <2>1. DrainTimesOut
    <3>1. ~Requests
      BY <1>1, RequestsProgress DEF Process
    <3>2. ~(Start \/ Bind \/ Signal \/ StdinEnds \/ TimePasses \/ Quiet \/ UNCHANGED vars)
      BY <1>1 DEF Start, Bind, Signal, StdinEnds, TimePasses, Quiet, ProcessStep, vars, processVars
    <3>3. ~(Race \/ begin_shutdown \/ StopAccepting \/ HttpEnds \/ StopsWaiting \/ Drained \/ Exit)
      BY <1>1 DEF Race, begin_shutdown, StopAccepting, HttpEnds, StopsWaiting, Drained, Exit
    <3>4. ~\E table \in pending : Flush(table)
      BY <1>1 DEF Flush
    <3> QED
      BY <1>1, <3>1, <3>2, <3>3, <3>4 DEF Next, Proceeds
  <2>2. stopping /\ \A r \in Slots : ~SeesStop(r)
    BY <1>1, <2>1 DEF DrainTimesOut, DrainInv, HttpInv
  <2> QED
    BY <2>1, <2>2 DEF DrainTimesOut, SeesStop
<1>2. FormInv /\ DrainInv /\ [Next]_vars =>
          [~timedOut /\ timedOut' => \E r \in Slots : Open(r) /\ req[r].phase /= "stream"]_vars
  BY <1>1
<1> QED
  BY <1>2, DrainInvHolds, PTL DEF Spec, DrainTimeoutNeedsWork

-----------------------------------------------------------------------------
(* Who may change what is stored, and what stays.                          *)

\* The tables of a tenant have a schema and rows.
Shaped(data) ==
    \A d \in DOMAIN data : \A x \in DOMAIN data[d] : DOMAIN data[d][x] = {"schema", "rows"}

\* The key, the partition count and the columns are there still.
Evolves(old, new) ==
    /\ new.primary_key = old.primary_key /\ new.partitions = old.partitions
    /\ Names(old) \subseteq Names(new)

\* What a request with these scopes may make of the data of its tenant.
Lawful(scopes, old, new) ==
    /\ Shaped(new)
    /\ Within(scopes, old, new)
    /\ \A d \in DOMAIN old \cap DOMAIN new : \A x \in DOMAIN old[d] \cap DOMAIN new[d] :
          Evolves(old[d][x].schema, new[d][x].schema)

\* An operation changes nothing, or the data of the caller's tenant lawfully.
Effect(cat, ctx, new) ==
    \/ new = cat
    \/ \E data : /\ new = [cat EXCEPT ![ctx.tenant] = data]
                 /\ ctx.tenant \in DOMAIN cat => Lawful(ctx.scopes, cat[ctx.tenant], data)

\* What a change of rows needs.
RowsWithin(scopes, before, after) ==
    /\ ~(DOMAIN before \subseteq DOMAIN after) => "data:delete" \in scopes
    /\ ~(DOMAIN after \subseteq DOMAIN before)
          => scopes \cap {"data:insert", "data:update"} /= {}
    /\ (\E k \in DOMAIN before \cap DOMAIN after : before[k] /= after[k])
          => "data:update" \in scopes

(* Rows that stay as they are need nothing.                                *)
LEMMA SameRows ==
    ASSUME NEW scopes, NEW rows
    PROVE  RowsWithin(scopes, rows, rows)
BY DEF RowsWithin

(* Databases come and go with their scope, and leave the others alone.     *)
LEMMA DatabasesChange ==
    ASSUME NEW scopes, "database:write" \in scopes, NEW old, Shaped(old), NEW new,
           \A d \in DOMAIN new : IF d \in DOMAIN old THEN new[d] = old[d] ELSE DOMAIN new[d] = {}
    PROVE  Lawful(scopes, old, new)
<1>1. Shaped(new)
  BY DEF Shaped
<1>2. \A d \in DOMAIN old \cap DOMAIN new : new[d] = old[d]
  OBVIOUS
<1>3. Within(scopes, old, new)
  BY <1>2 DEF Within
<1>4. \A d \in DOMAIN old \cap DOMAIN new : \A x \in DOMAIN old[d] \cap DOMAIN new[d] :
          Evolves(old[d][x].schema, new[d][x].schema)
  BY <1>2 DEF Evolves
<1> QED
  BY <1>1, <1>3, <1>4 DEF Lawful

(* Tables come, go and change their schema with the scope for it, and keep *)
(* their rows.                                                             *)
LEMMA TablesChange ==
    ASSUME NEW scopes, "schema:write" \in scopes, NEW old, Shaped(old),
           NEW db \in DOMAIN old, NEW tables,
           \A x \in DOMAIN tables : DOMAIN tables[x] = {"schema", "rows"},
           \A x \in DOMAIN old[db] \cap DOMAIN tables :
               /\ tables[x].rows = old[db][x].rows
               /\ Evolves(old[db][x].schema, tables[x].schema)
    PROVE  Lawful(scopes, old, [old EXCEPT ![db] = tables])
<1> DEFINE new == [old EXCEPT ![db] = tables]
<1>1. /\ DOMAIN new = DOMAIN old /\ new[db] = tables
      /\ \A d \in DOMAIN old : d /= db => new[d] = old[d]
  OBVIOUS
<1> HIDE DEF new
<1>2. Shaped(new)
  BY <1>1 DEF Shaped
<1>3. ASSUME NEW d \in DOMAIN old, NEW x \in DOMAIN old[d] \cap DOMAIN new[d]
      PROVE  /\ new[d][x].rows = old[d][x].rows
             /\ Evolves(old[d][x].schema, new[d][x].schema)
  BY <1>1 DEF Evolves
<1>4. Within(scopes, old, new)
  BY <1>1, <1>3 DEF Within
<1>5. Lawful(scopes, old, new)
  BY <1>1, <1>2, <1>3, <1>4 DEF Lawful
<1> QED
  BY <1>5 DEF new

(* Rows change within the scopes, and the table keeps its schema.          *)
LEMMA RowsChange ==
    ASSUME NEW scopes, NEW old, Shaped(old), NEW db \in DOMAIN old, NEW t \in DOMAIN old[db],
           NEW rows, RowsWithin(scopes, old[db][t].rows, rows)
    PROVE  Lawful(scopes, old, [old EXCEPT ![db][t].rows = rows])
<1> DEFINE new == [old EXCEPT ![db][t].rows = rows]
<1>1. /\ DOMAIN new = DOMAIN old
      /\ \A d \in DOMAIN old : DOMAIN new[d] = DOMAIN old[d]
      /\ new[db][t] = [old[db][t] EXCEPT !.rows = rows]
      /\ \A d \in DOMAIN old : \A x \in DOMAIN old[d] :
            <<d, x>> /= <<db, t>> => new[d][x] = old[d][x]
  OBVIOUS
<1>2. DOMAIN old[db][t] = {"schema", "rows"}
  BY DEF Shaped
<1>3. /\ new[db][t].rows = rows /\ new[db][t].schema = old[db][t].schema
      /\ DOMAIN new[db][t] = {"schema", "rows"}
  BY <1>1, <1>2
<1> HIDE DEF new
<1>4. Shaped(new)
  BY <1>1, <1>3 DEF Shaped
<1>5. ASSUME NEW d \in DOMAIN old, NEW x \in DOMAIN old[d]
      PROVE  /\ new[d][x].schema = old[d][x].schema
             /\ RowsWithin(scopes, old[d][x].rows, new[d][x].rows)
  <2>1. CASE d = db /\ x = t
    BY <1>3, <2>1
  <2>2. CASE ~(d = db /\ x = t)
    BY <1>1, <2>2, SameRows
  <2> QED
    BY <2>1, <2>2
<1>6. Within(scopes, old, new)
  BY <1>1, <1>5 DEF Within, RowsWithin
<1>7. Lawful(scopes, old, new)
  BY <1>1, <1>4, <1>5, <1>6 DEF Lawful, Evolves
<1> QED
  BY <1>7 DEF new

(* database_create and database_delete.                                    *)
LEMMA DatabaseOps ==
    ASSUME NEW cat, IsCatalog(cat), NEW ctx, NEW tool \in DatabaseTools, NEW args,
           Required[tool] \in ctx.scopes
    PROVE  Effect(cat, ctx, database_op(cat, ctx, tool, args).catalog)
<1> DEFINE new  == database_op(cat, ctx, tool, args).catalog
           old  == cat[ctx.tenant]
           more == Joined(old, [d \in {args.database} |-> <<>>])
           less == [d \in DOMAIN old \ {args.database} |-> old[d]]
<1>1. \/ new = cat
      \/ /\ tool \in {"database_create", "database_delete"}
         /\ new \in {[cat EXCEPT ![ctx.tenant] = more], [cat EXCEPT ![ctx.tenant] = less]}
  BY DEF database_op, Outcome, DatabaseTools, Unscoped, Databases
<1>2. "database:write" \in ctx.scopes \/ new = cat
  BY <1>1 DEF Required
<1>3. ASSUME ctx.tenant \in DOMAIN cat, "database:write" \in ctx.scopes
      PROVE  Lawful(ctx.scopes, old, more) /\ Lawful(ctx.scopes, old, less)
  <2>1. Shaped(old)
    BY <1>3 DEF IsCatalog, Shaped
  <2>2. DOMAIN <<>> = {}
    OBVIOUS
  <2>3. \A d \in DOMAIN more : IF d \in DOMAIN old THEN more[d] = old[d] ELSE DOMAIN more[d] = {}
    BY <2>2 DEF Joined
  <2>4. \A d \in DOMAIN less : IF d \in DOMAIN old THEN less[d] = old[d] ELSE DOMAIN less[d] = {}
    OBVIOUS
  <2> HIDE DEF old, more, less
  <2> QED
    BY <1>3, <2>1, <2>3, <2>4, DatabasesChange
<1> HIDE DEF more, less, new
<1>4. Effect(cat, ctx, new)
  BY <1>1, <1>2, <1>3 DEF Effect
<1> QED
  BY <1>4 DEF new

(* table_create, schema_update and table_drop: a schema that replaces      *)
(* another has passed check_evolution.                                     *)
LEMMA TableOps ==
    ASSUME NEW cat, IsCatalog(cat), NEW ctx, NEW tool \in TableTools, NEW args, NEW schema,
           Required[tool] \in ctx.scopes
    PROVE  Effect(cat, ctx, table_op(cat, ctx, tool, args, schema).catalog)
<1> DEFINE new    == table_op(cat, ctx, tool, args, schema).catalog
           old    == cat[ctx.tenant]
           db     == ctx.database
           tables == old[db]
           more   == Joined(tables, [t \in {args.table} |-> [schema |-> schema, rows |-> <<>>]])
           other  == [tables EXCEPT ![args.table].schema = schema]
           less   == [t \in DOMAIN tables \ {args.table} |-> tables[t]]
           put(x) == [cat EXCEPT ![ctx.tenant][db] = x]
<1>1. new = cat => Effect(cat, ctx, new)
  BY DEF Effect
<1>2. ASSUME new /= cat
      PROVE  /\ db \in DOMAIN old /\ tool \in {"table_create", "schema_update", "table_drop"}
             /\ \/ new = put(more)
                \/ /\ new = put(other) /\ args.table \in DOMAIN tables
                   /\ check_evolution(tables[args.table].schema, schema)
                \/ new = put(less)
  <2>1. tool \in {"table_create", "table_list", "table_describe", "schema_get", "schema_update",
                  "table_drop"}
    BY DEF TableTools
  <2>2. HasDatabase(cat, ctx)
    BY <1>2 DEF table_op, Outcome
  <2>3. CASE tool = "table_create"
    BY <1>2, <2>2, <2>3 DEF table_op, Outcome, HasDatabase, Databases
  <2>4. CASE tool = "schema_update"
    BY <1>2, <2>2, <2>4 DEF table_op, Outcome, HasDatabase, Databases
  <2>5. CASE tool = "table_drop"
    BY <1>2, <2>2, <2>5 DEF table_op, Outcome, HasDatabase, Databases
  <2>6. CASE tool \in {"table_list", "table_describe", "schema_get"}
    BY <1>2, <2>2, <2>6 DEF table_op, Outcome
  <2> QED
    BY <2>1, <2>3, <2>4, <2>5, <2>6
<1>3. "schema:write" \in ctx.scopes \/ new = cat
  BY <1>2 DEF Required
<1>4. ASSUME NEW x, new = put(x), new /= cat,
             /\ \A t \in DOMAIN x : ctx.tenant \in DOMAIN cat => DOMAIN x[t] = {"schema", "rows"}
             /\ \A t \in DOMAIN tables \cap DOMAIN x : ctx.tenant \in DOMAIN cat =>
                   /\ x[t].rows = tables[t].rows
                   /\ Evolves(tables[t].schema, x[t].schema)
      PROVE  Effect(cat, ctx, new)
  <2> DEFINE data == [old EXCEPT ![db] = x]
  <2>1. new = [cat EXCEPT ![ctx.tenant] = data]
    BY <1>4
  <2>2. ASSUME ctx.tenant \in DOMAIN cat PROVE Lawful(ctx.scopes, old, data)
    <3>1. Shaped(old) /\ db \in DOMAIN old /\ "schema:write" \in ctx.scopes
      BY <1>2, <1>3, <1>4, <2>2 DEF IsCatalog, Shaped
    <3>2. /\ \A t \in DOMAIN x : DOMAIN x[t] = {"schema", "rows"}
          /\ \A t \in DOMAIN old[db] \cap DOMAIN x :
                x[t].rows = old[db][t].rows /\ Evolves(old[db][t].schema, x[t].schema)
      BY <1>4, <2>2
    <3> HIDE DEF old, db
    <3> QED
      BY <3>1, <3>2, TablesChange
  <2> QED
    BY <2>1, <2>2 DEF Effect
<1>5. ASSUME ctx.tenant \in DOMAIN cat, new /= cat, NEW t \in DOMAIN tables
      PROVE  DOMAIN tables[t] = {"schema", "rows"}
  BY <1>2, <1>5 DEF IsCatalog
<1> SUFFICES Effect(cat, ctx, new)
  OBVIOUS
<1> HIDE DEF new
<1>6. CASE new /= cat /\ new = put(more)
  <2>1. \A t \in DOMAIN more : ctx.tenant \in DOMAIN cat => DOMAIN more[t] = {"schema", "rows"}
    BY <1>5, <1>6 DEF Joined
  <2>2. \A t \in DOMAIN tables \cap DOMAIN more : more[t] = tables[t]
    BY DEF Joined
  <2> HIDE DEF more
  <2> QED
    BY <1>4, <1>6, <2>1, <2>2 DEF Evolves
<1>7. CASE new /= cat /\ new = put(less)
  <2>1. \A t \in DOMAIN less : t \in DOMAIN tables /\ less[t] = tables[t]
    OBVIOUS
  <2> HIDE DEF less, tables
  <2>2. \A t \in DOMAIN less : ctx.tenant \in DOMAIN cat => DOMAIN less[t] = {"schema", "rows"}
    BY <1>5, <1>7, <2>1
  <2>3. \A t \in DOMAIN tables \cap DOMAIN less :
            /\ less[t].rows = tables[t].rows
            /\ Evolves(tables[t].schema, less[t].schema)
    BY <2>1 DEF Evolves
  <2> QED
    BY <1>4, <1>7, <2>2, <2>3
<1>8. CASE /\ new /= cat /\ new = put(other) /\ args.table \in DOMAIN tables
           /\ check_evolution(tables[args.table].schema, schema)
  <2>1. Evolves(tables[args.table].schema, schema)
    BY <1>8 DEF check_evolution, Evolves
  <2>2. /\ DOMAIN other = DOMAIN tables
        /\ other[args.table] = [tables[args.table] EXCEPT !.schema = schema]
        /\ \A t \in DOMAIN tables \ {args.table} : other[t] = tables[t]
    BY <1>8
  <2>3. ASSUME ctx.tenant \in DOMAIN cat, NEW t \in DOMAIN tables
        PROVE  /\ DOMAIN other[t] = {"schema", "rows"}
               /\ other[t].rows = tables[t].rows
               /\ Evolves(tables[t].schema, other[t].schema)
    <3>1. DOMAIN tables[t] = {"schema", "rows"}
      BY <1>5, <1>8, <2>3
    <3> HIDE DEF other, tables
    <3> QED
      BY <2>1, <2>2, <2>3, <3>1 DEF Evolves
  <2>4. /\ \A t \in DOMAIN other : ctx.tenant \in DOMAIN cat => DOMAIN other[t] = {"schema", "rows"}
        /\ \A t \in DOMAIN tables \cap DOMAIN other : ctx.tenant \in DOMAIN cat =>
              /\ other[t].rows = tables[t].rows
              /\ Evolves(tables[t].schema, other[t].schema)
    BY <2>2, <2>3
  <2> HIDE DEF other, tables
  <2> QED
    BY <1>4, <1>8, <2>4
<1> HIDE DEF more, other, less, put, tables, old, db
<1> QED
  BY <1>1, <1>2, <1>6, <1>7, <1>8

(* The rows a write leaves: an insert refuses a key that is there, an      *)
(* upsert needs the scope to change rows, and a deletion only removes.     *)
LEMMA WriteIsWithin ==
    ASSUME NEW scopes, NEW tool \in {"data_insert", "data_upsert", "data_delete"},
           Required[tool] \in scopes, NEW args, NEW table, WriteError(tool, args, table) = ""
    PROVE  RowsWithin(scopes, table.rows, Written(tool, args, table))
<1> DEFINE before   == table.rows
           count    == Cardinality(DOMAIN before)
           numbered == [k \in count + 1 .. count + Len(args.rows) |-> args.rows[k - count].value]
           given    == [k \in KeysOf(args.rows) |-> Last(args.rows, k)]
           after    == Written(tool, args, table)
<1>1. CASE tool = "data_delete"
  <2>1. after = [k \in DOMAIN before \ args.keys |-> before[k]]
    BY <1>1 DEF Written
  <2>2. "data:delete" \in scopes
    BY <1>1 DEF Required
  <2> HIDE DEF before, after
  <2>3. RowsWithin(scopes, before, after)
    BY <2>1, <2>2 DEF RowsWithin
  <2> QED
    BY <2>3 DEF before, after
<1>2. CASE tool = "data_upsert"
  <2>1. table.schema.primary_key /= ""
    BY <1>2 DEF WriteError
  <2>2. after = Joined(given, before)
    BY <1>2, <2>1 DEF Written
  <2>3. "data:update" \in scopes
    BY <1>2 DEF Required
  <2> HIDE DEF before, after, given
  <2>4. RowsWithin(scopes, before, after)
    BY <2>2, <2>3 DEF RowsWithin, Joined
  <2> QED
    BY <2>4 DEF before, after
<1>3. CASE tool = "data_insert"
  <2>1. "data:insert" \in scopes
    BY <1>3 DEF Required
  <2>2. CASE table.schema.primary_key = ""
    <3>1. after = Joined(before, numbered)
      BY <1>3, <2>2 DEF Written
    <3> HIDE DEF before, after, numbered
    <3>2. RowsWithin(scopes, before, after)
      BY <2>1, <3>1 DEF RowsWithin, Joined
    <3> QED
      BY <3>2 DEF before, after
  <2>3. CASE table.schema.primary_key /= ""
    <3>1. after = Joined(given, before)
      BY <1>3, <2>3 DEF Written
    <3>2. KeysOf(args.rows) \cap DOMAIN before = {}
      BY <1>3, <2>3 DEF WriteError
    <3>3. DOMAIN given = KeysOf(args.rows)
      OBVIOUS
    <3> HIDE DEF before, after, given
    <3>4. RowsWithin(scopes, before, after)
      BY <2>1, <3>1, <3>2, <3>3 DEF RowsWithin, Joined
    <3> QED
      BY <3>4 DEF before, after
  <2> QED
    BY <2>2, <2>3
<1> QED
  BY <1>1, <1>2, <1>3

(* data_insert, data_upsert and data_delete.                               *)
LEMMA DataOps ==
    ASSUME NEW cat, IsCatalog(cat), NEW ctx, NEW args,
           NEW tool \in DOMAIN Required \ (DatabaseTools \cup TableTools),
           Required[tool] \in ctx.scopes
    PROVE  Effect(cat, ctx, data_op(cat, ctx, tool, args).catalog)
<1> DEFINE new   == data_op(cat, ctx, tool, args).catalog
           old   == cat[ctx.tenant]
           table == TableOf(cat, ctx, args.table)
           rows  == Written(tool, args, table)
<1>1. new = cat => Effect(cat, ctx, new)
  BY DEF Effect
<1>2. tool \in {"data_insert", "data_upsert", "data_delete", "data_get", "data_query", "explain"}
  BY DEF Required, DatabaseTools, Unscoped, TableTools
<1>3. ASSUME new /= cat
      PROVE  /\ tool \in {"data_insert", "data_upsert", "data_delete"}
             /\ HasTable(cat, ctx, args.table)
             /\ WriteError(tool, args, table) = ""
             /\ new = [cat EXCEPT ![ctx.tenant][ctx.database][args.table].rows = rows]
  BY <1>2, <1>3, Zenon DEF data_op, Outcome
<1>4. ASSUME new /= cat
      PROVE  Effect(cat, ctx, new)
  <2> DEFINE data == [old EXCEPT ![ctx.database][args.table].rows = rows]
  <2>1. new = [cat EXCEPT ![ctx.tenant] = data]
    <3> HIDE DEF rows
    <3> QED
      BY <1>3, <1>4
  <2>2. ASSUME ctx.tenant \in DOMAIN cat PROVE Lawful(ctx.scopes, old, data)
    <3>1. /\ Shaped(old) /\ ctx.database \in DOMAIN old
          /\ args.table \in DOMAIN old[ctx.database]
          /\ table = old[ctx.database][args.table]
      BY <1>3, <1>4, <2>2 DEF IsCatalog, Shaped, HasTable, HasDatabase, Databases, TableOf
    <3>2. RowsWithin(ctx.scopes, table.rows, rows)
      BY <1>3, <1>4, WriteIsWithin
    <3> HIDE DEF old, rows, table
    <3> QED
      BY <3>1, <3>2, RowsChange
  <2> HIDE DEF data
  <2> QED
    BY <2>1, <2>2 DEF Effect
<1> QED
  BY <1>1, <1>4

(* An operation of the engine, asked for by a tool or by a REST route,     *)
(* makes of the data of its caller only what the caller's scopes allow.    *)
LEMMA OperationsAreLawful ==
    ASSUME NEW cat, IsCatalog(cat), NEW ctx, NEW tool \in DOMAIN Required, NEW args, NEW schema
    PROVE  /\ Effect(cat, ctx, perform(cat, ctx, tool, args, schema).catalog)
           /\ perform(cat, ctx, tool, args, schema).catalog /= cat => Required[tool] \in ctx.scopes
           /\ call(cat, ctx, tool, args, schema).catalog
                 = perform(cat, ctx, tool, args, schema).catalog
<1> DEFINE outcome == perform(cat, ctx, tool, args, schema)
           new     == outcome.catalog
<1>1. Effect(cat, ctx, new) /\ (new /= cat => Required[tool] \in ctx.scopes)
  <2>1. CASE ~require(ctx, tool, args)
    <3>1. new = cat
      BY <2>1 DEF perform, Outcome
    <3> HIDE DEF new
    <3> QED
      BY <3>1 DEF Effect
  <2>2. CASE require(ctx, tool, args)
    <3>1. Required[tool] \in ctx.scopes
      BY <2>2 DEF require
    <3>2. Effect(cat, ctx, new)
      <4>1. CASE tool \in DatabaseTools
        BY <2>2, <3>1, <4>1, DatabaseOps DEF perform
      <4>2. CASE tool \in TableTools \ DatabaseTools
        BY <2>2, <3>1, <4>2, TableOps DEF perform
      <4>3. CASE tool \notin DatabaseTools \cup TableTools
        BY <2>2, <3>1, <4>3, DataOps DEF perform
      <4> QED
        BY <4>1, <4>2, <4>3
    <3> QED
      BY <3>1, <3>2
  <2> QED
    BY <2>1, <2>2
<1>2. \E error, c, rows : outcome = Outcome(error, c, rows)
  <2>1. CASE ~require(ctx, tool, args)
    BY <2>1, Zenon DEF perform
  <2>2. CASE tool \in DatabaseTools /\ require(ctx, tool, args)
    <3>1. tool \in {"database_list", "database_create", "database_delete"}
      BY <2>2 DEF DatabaseTools, Unscoped
    <3>2. \E error, c, rows : database_op(cat, ctx, tool, args) = Outcome(error, c, rows)
      BY <3>1, Zenon DEF database_op
    <3> QED
      BY <2>2, <3>2 DEF perform
  <2>3. CASE tool \in TableTools \ DatabaseTools /\ require(ctx, tool, args)
    <3>1. \E error, c, rows : table_op(cat, ctx, tool, args, schema) = Outcome(error, c, rows)
      BY Zenon DEF table_op
    <3> QED
      BY <2>3, <3>1 DEF perform
  <2>4. CASE tool \notin DatabaseTools \cup TableTools /\ require(ctx, tool, args)
    <3>1. \E error, c, rows : data_op(cat, ctx, tool, args) = Outcome(error, c, rows)
      BY Zenon DEF data_op
    <3> QED
      BY <2>4, <3>1 DEF perform
  <2> QED
    BY <2>1, <2>2, <2>3, <2>4
<1>3. PICK error, c, rows : outcome = [error |-> error, catalog |-> c, rows |-> rows]
  BY <1>2 DEF Outcome
<1>4. call(cat, ctx, tool, args, schema).catalog = new
  <2> HIDE DEF outcome
  <2>1. \A e : [outcome EXCEPT !.error = e].catalog = outcome.catalog
    BY <1>3
  <2> QED
    BY <2>1 DEF call, outcome
<1> QED
  BY <1>1, <1>4

-----------------------------------------------------------------------------
(* Who a request acts for.                                                 *)

\* Identities, of an input.
Holders(input) ==
    IF input.via = "stdio" THEN {registry.local}
    ELSE {key \in {registry.keys[i] : i \in DOMAIN registry.keys} :
             key.key = strip_prefix(input.header)}

\* A caller has the scopes of one of these keys, or none.
Entitled(ctx, keys) == ctx.scopes = {} \/ \E key \in keys : Grants(key, ctx)

\* A request that is worked on acts for a key of its own, and what it asks
\* the engine for is an operation.
RequestInv(value) ==
    /\ value.phase \in {"blocking", "resolved"} => Entitled(value.ctx, Holders(value.input))
    /\ value.phase = "resolved" => value.input.message.tool \in DOMAIN Required

AccessInv ==
    /\ scenario \in DOMAIN Scenarios
    /\ IsCatalog(catalog)
    /\ \A r \in Slots : RequestInv(req[r])

(* A nonempty set of naturals with an upper bound has a greatest element.  *)
LEMMA GreatestExists ==
    ASSUME NEW S, NEW n \in Nat, S \subseteq 1 .. n, S /= {}
    PROVE  \E x \in S : \A y \in S : y <= x
<1> DEFINE T == {n - i : i \in S}
<1>0. \A i \in S : i \in Nat /\ i <= n /\ n - i \in Nat
  <2>1. \A i \in 1 .. n : i \in Nat /\ i <= n /\ n - i \in Nat
    OBVIOUS
  <2> QED
    BY <2>1
<1>1. T \subseteq Nat /\ T /= {}
  BY <1>0
<1>2. IsWellFoundedOn(OpToRel(<, Nat), Nat)
  BY NatLessThanWellFounded
<1>3. PICK t \in T : \A u \in T : ~(<<u, t>> \in OpToRel(<, Nat))
  BY <1>1, <1>2, WFMin, Zenon
<1>4. ASSUME NEW u \in T PROVE t <= u
  <2>1. <<u, t>> \in Nat \X Nat
    BY <1>1
  <2>2. ~(u < t)
    BY <1>3, <2>1 DEF OpToRel
  <2> QED
    BY <1>1, <2>2
<1>5. PICK x \in S : t = n - x
  BY <1>3
<1>6. ASSUME NEW y \in S PROVE y <= x
  <2>1. n - y \in T
    OBVIOUS
  <2>2. n - x <= n - y
    BY <1>4, <1>5, <2>1
  <2> QED
    BY <1>0, <2>2
<1> QED
  BY <1>6

(* The registry lists its keys: those of the file and of the command line. *)
LEMMA KeysAreListed ==
    ASSUME scenario \in DOMAIN Scenarios
    PROVE  \E n \in Nat : DOMAIN registry.keys = 1 .. n
<1> DEFINE keys == config.file.keys
           a    == [i \in DOMAIN keys |-> build(keys[i])]
<1>1. keys \in Seq({keys[i] : i \in DOMAIN keys})
  BY ScenariosAssumption DEF config
<1>2. a \in Seq({a[i] : i \in DOMAIN keys})
  <2>1. Len(keys) \in Nat /\ DOMAIN keys = 1 .. Len(keys)
    BY <1>1
  <2> HIDE DEF keys
  <2> QED
    BY <2>1
<1>3. \A s : s = <<>> \/ (\E key : s = <<key>>) => \E n \in Nat : DOMAIN (a \o s) = 1 .. n
  <2> HIDE DEF a
  <2> QED
    BY <1>2
<1>4. \E s : registry.keys = a \o s /\ (s = <<>> \/ \E key : s = <<key>>)
  BY Zenon DEF registry, build_auth
<1> QED
  BY <1>3, <1>4

(* context_for_key: the caller of a token is one of the keys with it, also *)
(* where two share a secret; a token of no key has no scopes.              *)
LEMMA TokenIsEntitled ==
    ASSUME scenario \in DOMAIN Scenarios, NEW input, input.via /= "stdio"
    PROVE  Entitled(context_for_header(registry, input.header), Holders(input))
<1> DEFINE token   == strip_prefix(input.header)
           keys    == registry.keys
           matches == {i \in DOMAIN keys : keys[i].key = token}
           caller  == context_for_header(registry, input.header)
<1>1. NoContext.scopes = {}
  BY DEF NoContext
<1>2. CASE caller = NoContext
  BY <1>1, <1>2 DEF Entitled
<1>3. CASE caller /= NoContext
  <2>1. /\ matches /= {}
        /\ caller = context(keys[CHOOSE i \in matches : \A j \in matches : j <= i])
    BY <1>3, Zenon DEF context_for_header, context_for_key
  <2>2. PICK n \in Nat : DOMAIN keys = 1 .. n
    BY KeysAreListed
  <2>3. \E i \in matches : \A j \in matches : j <= i
    BY <2>1, <2>2, GreatestExists
  <2>4. PICK i \in matches : caller = context(keys[i])
    BY <2>1, <2>3
  <2>5. keys[i] \in Holders(input)
    BY <2>4 DEF Holders
  <2>6. Grants(keys[i], caller)
    BY <2>4 DEF context, Grants
  <2> QED
    BY <2>5, <2>6 DEF Entitled
<1> QED
  BY <1>2, <1>3

(* Only the scopes and the tenant of a caller matter to that.              *)
LEMMA EntitledAlso ==
    ASSUME NEW keys, NEW ctx, NEW other, Entitled(ctx, keys), Grants(other, ctx)
    PROVE  Entitled(other, keys)
BY DEF Entitled, Grants

(* A request that changes in one slot only.                                *)
LEMMA OneRequest ==
    ASSUME FormInv, AccessInv, UNCHANGED scenario, IsCatalog(catalog'), NEW r \in Slots, NEW value,
           Set(r, value), RequestInv(value)
    PROVE  AccessInv'
<1>1. /\ req'[r] = value
      /\ \A q \in Slots \ {r} : req'[q] = req[q]
  BY DEF Set, FormInv
<1>2. registry' = registry
  BY RegistryKept
<1>3. \A input : Holders(input)' = Holders(input)
  BY <1>2 DEF Holders
<1>4. ASSUME NEW q \in Slots
      PROVE  RequestInv(req[q])'
  <2>1. RequestInv(req'[q])
    BY <1>1 DEF AccessInv
  <2> QED
    BY <1>3, <2>1 DEF RequestInv
<1> QED
  BY <1>4 DEF AccessInv

(* What a request that is received acts for: the key of its header, or the *)
(* identity of the stdio transport.                                        *)
LEMMA ReceivedIsEntitled ==
    ASSUME FormInv, AccessInv, UNCHANGED <<scenario, catalog>>, NEW r \in Slots,
           NEW input, NEW id, NEW phase, NEW ctx,
           phase = "resolved" => input.message.tool \in DOMAIN Required,
           phase \in {"blocking", "resolved"} => Entitled(ctx, Holders(input)),
           \/ Set(r, [Received(input, id, phase) EXCEPT !.ctx = ctx])
           \/ /\ ctx = context_for_header(registry, input.header)
              /\ Set(r, Received(input, id, phase))
    PROVE  AccessInv'
<1> DEFINE value == [Received(input, id, phase) EXCEPT !.ctx = ctx]
<1>1. /\ value.phase = phase /\ value.input = input /\ value.ctx = ctx
      /\ ctx = context_for_header(registry, input.header) => value = Received(input, id, phase)
  BY NewForm DEF Received, Fields
<1>2. Set(r, value)
  BY <1>1
<1> HIDE DEF value
<1>3. RequestInv(value)
  BY <1>1 DEF RequestInv
<1> QED
  BY <1>2, <1>3, OneRequest DEF AccessInv

(* A request that has an answer acts no more.                              *)
LEMMA AnswerIsHarmless ==
    ASSUME FormInv, AccessInv, UNCHANGED <<scenario, catalog>>, NEW r \in Slots,
           NEW input, NEW status, Set(r, Answered(input, status))
    PROVE  AccessInv'
<1>1. Answered(input, status).phase = "replied"
  BY NewForm DEF Answered, Fields
<1>2. RequestInv(Answered(input, status))
  BY <1>1 DEF RequestInv
<1> QED
  BY <1>2, OneRequest DEF AccessInv

(* The entrances.                                                          *)
LEMMA EntrancesKeepAccess ==
    ASSUME FormInv, AccessInv, NEW r \in Slots, NEW input \in config.inputs[r], NEW id,
           \/ Mcp(r, input, id) \/ options(r, input) \/ RestCatalog(r, input)
           \/ RestData(r, input) \/ ReadLine(r, input)
    PROVE  AccessInv'
<1>1. UNCHANGED <<scenario, catalog>>
  BY DEF Mcp, options, RestCatalog, RestData, ReadLine, engineVars
<1>2. scenario \in DOMAIN Scenarios
  BY DEF AccessInv
<1>3. CASE \E status : Set(r, Answered(input, status))
  BY <1>1, <1>3, AnswerIsHarmless
<1>4. CASE Mcp(r, input, id)
  <2>1. input.via /= "stdio"
    BY <1>4 DEF Mcp
  <2>2. Entitled(context_for_header(registry, input.header), Holders(input))
    BY <1>2, <2>1, TokenIsEntitled
  <2>3. \/ \E status : Set(r, Answered(input, status))
        \/ \E phase : phase /= "resolved" /\ Set(r, Received(input, id, phase))
    BY <1>4 DEF Mcp
  <2>4. ASSUME NEW phase, phase /= "resolved", Set(r, Received(input, id, phase))
        PROVE  AccessInv'
    <3> DEFINE ctx == context_for_header(registry, input.header)
    <3>1. Entitled(ctx, Holders(input)) /\ ctx = context_for_header(registry, input.header)
      BY <2>2
    <3>2. phase = "resolved" => input.message.tool \in DOMAIN Required
      BY <2>4
    <3>3. Set(r, Received(input, id, phase))
      BY <2>4
    <3> HIDE DEF ctx
    <3> QED
      BY <1>1, <3>1, <3>2, <3>3, ReceivedIsEntitled, Zenon
  <2> QED
    BY <1>3, <2>3, <2>4
<1>5. CASE options(r, input)
  BY <1>3, <1>5 DEF options
<1>6. CASE RestCatalog(r, input) \/ RestData(r, input)
  <2>1. input.via = "rest"
    BY <1>6 DEF RestCatalog, RestData
  <2>2. input.message.tool \in DOMAIN Required
    BY <1>2, <2>1, ScenariosAssumption DEF config
  <2>3. Entitled(rest_context(input), Holders(input))
    <3>1. Entitled(context_for_header(registry, input.header), Holders(input))
      BY <1>2, <2>1, TokenIsEntitled
    <3>2. DOMAIN context_for_header(registry, input.header)
             = {"tenant", "database", "scopes", "limits"}
      BY HeaderGrants
    <3>3. Grants(rest_context(input), context_for_header(registry, input.header))
      BY <3>2 DEF rest_context, Grants
    <3> QED
      BY <3>1, <3>3, EntitledAlso
  <2>4. \/ \E status : Set(r, Answered(input, status))
        \/ \E phase : Set(r, [Received(input, "", phase) EXCEPT !.ctx = rest_context(input)])
    BY <1>6 DEF RestCatalog, RestData
  <2> QED
    BY <1>1, <1>3, <2>2, <2>3, <2>4, ReceivedIsEntitled
<1>7. CASE ReadLine(r, input)
  <2>1. Entitled(local_context(registry), Holders(input))
    BY <1>7 DEF ReadLine, Holders, Entitled, Grants, local_context, context
  <2>2. Set(r, [Received(input, "", "blocking") EXCEPT !.ctx = local_context(registry)])
    BY <1>7 DEF ReadLine
  <2> DEFINE phase == "blocking"
  <2>3. phase = "resolved" => input.message.tool \in DOMAIN Required
    OBVIOUS
  <2>4. Set(r, [Received(input, "", phase) EXCEPT !.ctx = local_context(registry)])
    BY <2>2
  <2> HIDE DEF phase
  <2> QED
    BY <1>1, <2>1, <2>3, <2>4, ReceivedIsEntitled, Zenon
<1> QED
  BY <1>4, <1>5, <1>6, <1>7

(* The operation that a request asks the engine for.                       *)
LEMMA ApplyIsLawful ==
    ASSUME FormInv, AccessInv, NEW r \in Slots, Apply(r)
    PROVE  /\ req[r].phase = "resolved" /\ Entitled(req[r].ctx, Holders(req[r].input))
           /\ Effect(catalog, req[r].ctx, catalog')
           /\ catalog' /= catalog => req[r].ctx.scopes /= {}
           /\ \E error : Finish(r, 200, error)
<1> DEFINE message == req[r].input.message
           ctx     == req[r].ctx
           one     == perform(catalog, ctx, message.tool, message.args, req[r].schema)
           two     == call(catalog, ctx, message.tool, message.args, req[r].schema)
<1>1. /\ Runs(r) /\ req[r].phase = "resolved"
      /\ catalog' = one.catalog \/ catalog' = two.catalog
      /\ \E error : Finish(r, 200, error)
  BY Zenon DEF Apply
<1>2. /\ message.tool \in DOMAIN Required /\ IsCatalog(catalog)
      /\ Entitled(ctx, Holders(req[r].input))
  BY <1>1 DEF AccessInv, RequestInv
<1>3. /\ Effect(catalog, ctx, one.catalog)
      /\ one.catalog /= catalog => Required[message.tool] \in ctx.scopes
      /\ two.catalog = one.catalog
  BY <1>2, OperationsAreLawful
<1> HIDE DEF one, two
<1> QED
  BY <1>1, <1>2, <1>3

(* What is lawful leaves a catalog of tables.                              *)
LEMMA LawfulIsCatalog ==
    ASSUME NEW cat, IsCatalog(cat), NEW ctx, NEW new, Effect(cat, ctx, new)
    PROVE  IsCatalog(new)
<1>1. ASSUME NEW data, new = [cat EXCEPT ![ctx.tenant] = data],
             ctx.tenant \in DOMAIN cat => Lawful(ctx.scopes, cat[ctx.tenant], data)
      PROVE  IsCatalog(new)
  <2>1. ASSUME NEW t \in DOMAIN new PROVE Shaped(new[t])
    <3>1. CASE t = ctx.tenant
      BY <1>1, <2>1, <3>1 DEF Lawful
    <3>2. CASE t /= ctx.tenant
      BY <1>1, <2>1, <3>2 DEF IsCatalog, Shaped
    <3> QED
      BY <3>1, <3>2
  <2> QED
    BY <2>1 DEF IsCatalog, Shaped
<1> QED
  BY <1>1 DEF Effect

(* A request that is worked on keeps its keys, and is called with a tool   *)
(* there is.                                                               *)
LEMMA WorkKeepsAccess ==
    ASSUME FormInv, AccessInv, NEW r \in Slots,
           \/ handle(r) \/ Apply(r) \/ Respond(r) \/ Close(r) \/ EndStream(r) \/ ClientGone(r)
    PROVE  AccessInv'
<1>1. /\ DOMAIN req[r] = Fields
      /\ DOMAIN req[r].ctx = {"tenant", "database", "scopes", "limits"}
      /\ RequestInv(req[r])
  BY DEF FormInv, AccessInv
<1>2. UNCHANGED scenario /\ IsCatalog(catalog')
  <2>1. CASE Apply(r)
    BY <2>1, ApplyIsLawful, LawfulIsCatalog DEF Apply, AccessInv
  <2>2. CASE handle(r) \/ Respond(r) \/ Close(r) \/ EndStream(r) \/ ClientGone(r)
    BY <2>2 DEF handle, Respond, Close, EndStream, ClientGone, engineVars, AccessInv
  <2> QED
    BY <2>1, <2>2
<1> DEFINE moved(phase, status, error) ==
               [req[r] EXCEPT !.phase = phase, !.status = status, !.error = error]
<1>3. ASSUME NEW phase, NEW status, NEW error, phase \in {"finished", "replied"},
             Set(r, moved(phase, status, error))
      PROVE  AccessInv'
  <2> DEFINE value == moved(phase, status, error)
  <2>1. value.phase = phase /\ Set(r, value)
    BY <1>1, <1>3 DEF Fields
  <2> HIDE DEF value
  <2>2. RequestInv(value)
    BY <1>3, <2>1 DEF RequestInv
  <2> QED
    BY <1>2, <2>1, <2>2, OneRequest
<1>4. CASE Apply(r)
  <2>1. \E error : Finish(r, 200, error)
    BY <1>4, ApplyIsLawful
  <2>2. PICK error : Set(r, moved("finished", 200, error))
    BY <2>1 DEF Finish
  <2> HIDE DEF moved
  <2> QED
    BY <1>3, <2>2
<1>5. CASE EndStream(r) \/ Close(r) \/ Respond(r)
  <2>1. \E status, error : Reply(r, status, error)
    BY <1>5 DEF EndStream, Close, Respond
  <2>2. PICK status, error : Set(r, moved("replied", status, error))
    BY <2>1 DEF Reply
  <2> HIDE DEF moved
  <2> QED
    BY <1>3, <2>2
<1>6. CASE ClientGone(r)
  <2> DEFINE value == [req[r] EXCEPT !.gone = TRUE,
                                     !.phase = IF @ = "stream" THEN "replied" ELSE @]
  <2>1. /\ value.input = req[r].input /\ value.ctx = req[r].ctx
        /\ value.phase = IF req[r].phase = "stream" THEN "replied" ELSE req[r].phase
    BY <1>1 DEF Fields
  <2>2. Set(r, value)
    BY <1>6 DEF ClientGone
  <2> HIDE DEF value
  <2>3. RequestInv(value)
    BY <1>1, <2>1 DEF RequestInv
  <2> QED
    BY <1>2, <2>2, <2>3, OneRequest
<1>7. CASE handle(r)
  <2> DEFINE message == req[r].input.message
             step    == resolve(catalog, req[r].ctx, message.tool, message.args)
  <2>1. CASE ~IsCall(message)
    <3>1. PICK status, error, opens :
              Set(r, [req[r] EXCEPT !.phase = "finished", !.status = status, !.error = error,
                                    !.opens = opens])
      BY <1>7, <2>1 DEF handle
    <3> DEFINE value == [req[r] EXCEPT !.phase = "finished", !.status = status, !.error = error,
                                       !.opens = opens]
    <3>2. value.phase = "finished" /\ Set(r, value)
      BY <1>1, <3>1 DEF Fields
    <3> HIDE DEF value
    <3>3. RequestInv(value)
      BY <3>2 DEF RequestInv
    <3> QED
      BY <1>2, <3>2, <3>3, OneRequest
  <2>2. CASE IsCall(message) /\ step.error /= "" /\ Finish(r, 200, step.error)
    <3>1. Set(r, moved("finished", 200, step.error))
      BY <2>2 DEF Finish
    <3> HIDE DEF moved, step
    <3> QED
      BY <1>3, <3>1
  <2>3. CASE /\ IsCall(message) /\ step.error = ""
             /\ Set(r, [req[r] EXCEPT !.phase = "resolved", !.ctx = step.ctx,
                                      !.schema = step.schema])
    <3> DEFINE value == [req[r] EXCEPT !.phase = "resolved", !.ctx = step.ctx,
                                       !.schema = step.schema]
    <3>1. /\ value.phase = "resolved" /\ value.input = req[r].input /\ value.ctx = step.ctx
      BY <1>1 DEF Fields
    <3>2. Entitled(req[r].ctx, Holders(req[r].input))
      BY <1>1, <1>7 DEF handle, RequestInv
    <3>3. Grants(step.ctx, req[r].ctx)
      BY <1>1, <2>3, ResolveKeepsCaller
    <3>4. message.tool \in DOMAIN Required
      <4>1. message.tool \in Tools
        <5>1. \A schema : [error |-> "no tool", ctx |-> NoContext, schema |-> schema].error /= ""
          OBVIOUS
        <5> QED
          BY <2>3 DEF resolve
      <4> QED
        BY <4>1 DEF Tools, Unscoped, Lenient, Required
    <3>5. Entitled(step.ctx, Holders(req[r].input))
      BY <3>2, <3>3, EntitledAlso
    <3>6. Set(r, value)
      BY <2>3
    <3> HIDE DEF value, step
    <3>7. RequestInv(value)
      BY <3>1, <3>4, <3>5 DEF RequestInv
    <3> QED
      BY <1>2, <3>6, <3>7, OneRequest
  <2> QED
    BY <1>7, <2>1, <2>2, <2>3 DEF handle
<1> QED
  BY <1>4, <1>5, <1>6, <1>7

(* The steps of the process leave the catalog alone.                       *)
LEMMA ProcessLeavesCatalog ==
    ASSUME Start \/ Bind \/ Signal \/ StdinEnds \/ Proceeds \/ TimePasses \/ Quiet \/ UNCHANGED vars
    PROVE  UNCHANGED catalog
<1>1. ASSUME NEW table, Flush(table)
      PROVE  UNCHANGED catalog
  BY <1>1 DEF Flush
<1>2. ASSUME \/ Race \/ begin_shutdown \/ StopAccepting \/ HttpEnds \/ StopsWaiting \/ Drained
             \/ DrainTimesOut \/ Exit
      PROVE  UNCHANGED catalog
  BY <1>2 DEF Race, begin_shutdown, StopAccepting, HttpEnds, StopsWaiting, Drained,
              DrainTimesOut, Exit, ProcessStep, engineVars
<1>3. CASE Proceeds
  BY <1>1, <1>2, <1>3 DEF Proceeds
<1>4. CASE Start \/ Bind \/ Signal \/ StdinEnds \/ TimePasses \/ Quiet \/ UNCHANGED vars
  BY <1>4 DEF Start, Bind, Signal, StdinEnds, TimePasses, Quiet, ProcessStep, vars, engineVars
<1> QED
  BY <1>3, <1>4

(* Every step of the server keeps the invariant of the callers.            *)
LEMMA AccessInvInductive ==
    ASSUME FormInv, AccessInv, [Next]_vars
    PROVE  AccessInv'
<1>1. CASE Requests
  BY <1>1, EntrancesKeepAccess, WorkKeepsAccess DEF Requests
<1>2. CASE ~Requests
  <2>1. UNCHANGED <<scenario, req, catalog>>
    BY <1>2, ProcessLeavesSessions, ProcessLeavesCatalog DEF Next
  <2>2. registry' = registry
    BY <2>1, RegistryKept
  <2> QED
    BY <2>1, <2>2 DEF AccessInv, RequestInv, Holders
<1> QED
  BY <1>1, <1>2

(* It holds throughout.                                                    *)
LEMMA AccessInvHolds == Spec => [](FormInv /\ AccessInv)
<1>1. ASSUME Init PROVE AccessInv
  <2>1. /\ req = [r \in Slots |-> NoRequest] /\ NoRequest.phase = "new"
        /\ scenario \in DOMAIN Scenarios /\ catalog = Scenarios[scenario].stored
    BY <1>1 DEF Init, NoRequest, config
  <2>2. IsCatalog(catalog)
    BY <2>1, ScenariosAssumption
  <2> QED
    BY <2>1, <2>2 DEF AccessInv, RequestInv
<1>2. SessionInv /\ AccessInv /\ [Next]_vars => AccessInv'
  BY AccessInvInductive DEF SessionInv
<1>3. SessionInv => FormInv
  BY DEF SessionInv
<1> QED
  BY <1>1, <1>2, <1>3, SessionInvHolds, PTL DEF Spec

(* What is stored changes only by an operation that a request asks for, in *)
(* the tenant of the key it acts for and as the scopes of that key allow.  *)
LEMMA ChangesAreLawful ==
    ASSUME FormInv, AccessInv, [Next]_vars, NEW t \in DOMAIN catalog, catalog'[t] /= catalog[t]
    PROVE  \E r \in Slots :
               /\ req[r].phase = "resolved" /\ req'[r] /= req[r]
               /\ \E key \in Identities(r) :
                     key.tenant = t /\ Lawful(key.scopes, catalog[t], catalog'[t])
<1>1. Requests
  BY ProcessLeavesCatalog DEF Next
<1>2. PICK r \in Slots : Apply(r)
  BY <1>1, RequestsProgress
<1> DEFINE ctx == req[r].ctx
<1>3. /\ req[r].phase = "resolved" /\ Entitled(ctx, Holders(req[r].input))
      /\ Effect(catalog, ctx, catalog') /\ ctx.scopes /= {}
      /\ \E error : Finish(r, 200, error)
  BY <1>2, ApplyIsLawful
<1>4. req'[r] /= req[r]
  <2>1. req'[r].phase = "finished"
    BY <1>3 DEF Finish, Set, FormInv, Fields
  <2> QED
    BY <1>3, <2>1
<1>5. t = ctx.tenant /\ Lawful(ctx.scopes, catalog[t], catalog'[t])
  BY <1>3 DEF Effect
<1>6. PICK key \in Holders(req[r].input) : Grants(key, ctx)
  BY <1>3 DEF Entitled
<1>7. key \in Identities(r)
  BY <1>6 DEF Identities, Holders
<1> QED
  BY <1>3, <1>4, <1>5, <1>6, <1>7 DEF Grants

(* What is stored for a tenant changes only for a key of that tenant with  *)
(* the scope for that kind of change, whichever transport the request came *)
(* by, however its header was spelled, and whatever other requests did     *)
(* between the two looks that a call takes at the catalog                  *)
(* (RequestContext::require, context_for_key).                             *)
THEOREM EffectsNeedAKey == Spec => EffectsAreAuthorized
<1>1. ASSUME FormInv, AccessInv, [Next]_vars, NEW t \in DOMAIN catalog, catalog'[t] /= catalog[t]
      PROVE  \E r \in Slots : /\ req[r].phase = "resolved" /\ req'[r] /= req[r]
                              /\ \E key \in Identities(r) :
                                    /\ key.tenant = t
                                    /\ Within(key.scopes, catalog[t], catalog'[t])
  BY <1>1, ChangesAreLawful DEF Lawful
<1>2. FormInv /\ AccessInv /\ [Next]_vars =>
          [\A t \in DOMAIN catalog : catalog'[t] /= catalog[t] =>
              \E r \in Slots : /\ req[r].phase = "resolved" /\ req'[r] /= req[r]
                              /\ \E key \in Identities(r) :
                                    /\ key.tenant = t
                                    /\ Within(key.scopes, catalog[t], catalog'[t])]_vars
  BY <1>1
<1> QED
  BY <1>2, AccessInvHolds, PTL DEF Spec, EffectsAreAuthorized

(* While a table exists its primary key, its partition count and its       *)
(* columns stay, also when the schema that replaces its own was inherited  *)
(* from a table of that name that is gone (schema_update, check_evolution).*)
THEOREM KeysStay == Spec => KeyIsForLife
<1>1. ASSUME FormInv, AccessInv, [Next]_vars, NEW t \in DOMAIN catalog
      PROVE  \A d \in DOMAIN catalog[t] \cap DOMAIN catalog'[t] :
                 \A x \in DOMAIN catalog[t][d] \cap DOMAIN catalog'[t][d] :
                     Evolves(catalog[t][d][x].schema, catalog'[t][d][x].schema)
  <2>1. CASE catalog'[t] = catalog[t]
    BY <2>1 DEF Evolves
  <2>2. CASE catalog'[t] /= catalog[t]
    <3>1. PICK scopes : Lawful(scopes, catalog[t], catalog'[t])
      BY <1>1, <2>2, ChangesAreLawful
    <3> QED
      BY <3>1 DEF Lawful
  <2> QED
    BY <2>1, <2>2
<1>2. FormInv /\ AccessInv /\ [Next]_vars =>
          [\A t \in DOMAIN catalog : \A d \in DOMAIN catalog[t] \cap DOMAIN catalog'[t] :
             \A x \in DOMAIN catalog[t][d] \cap DOMAIN catalog'[t][d] :
                LET old == catalog[t][d][x].schema
                    new == catalog'[t][d][x].schema
                IN  /\ new.primary_key = old.primary_key /\ new.partitions = old.partitions
                    /\ Names(old) \subseteq Names(new)]_vars
  BY <1>1 DEF Evolves
<1> QED
  BY <1>2, AccessInvHolds, PTL DEF Spec, KeyIsForLife

=============================================================================
