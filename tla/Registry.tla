------------------------------- MODULE Registry -------------------------------
(***************************************************************************)
(* The host's session registry (host/src/registry/index.ts): it multiplexes *)
(* agent adapters over one connection, gates their approvals by a policy,  *)
(* parks the escalated ones until the device answers or a timer denies     *)
(* them, and records every frame it emits for replay.                      *)
(*                                                                         *)
(* Everything runs on one event loop and no handler awaits: an action is   *)
(* one call into the registry or one timer callback.  The adapters are the *)
(* environment; `waiting` is what they have asked and not had decided      *)
(* (pendingApprovals of adapters/codex/index.ts).                          *)
(*                                                                         *)
(* A request is a pair <<session, k>>: the k-th approval a session's agent *)
(* asks.  It stands for the timer scheduled for it too.  The approvalId on *)
(* the wire is Name(request).                                              *)
(***************************************************************************)
EXTENDS DurableBuffer, FiniteSets, Functions

CONSTANTS MaxSessions, \* bound: sessions created
          Approvals,   \* bound: the approvals one agent asks
          Statuses,    \* session statuses an agent reports
          MaxFrames,   \* bound: frames emitted
          SharedIds    \* agents of two sessions may choose the same approvalId

ASSUME RegistryAssumption ==
  /\ MaxSessions \in Nat /\ MaxFrames \in Nat
  /\ {"idle", "awaiting_approval"} \subseteq Statuses
  /\ SharedIds \in BOOLEAN

VARIABLES
  sessions,  \* session id -> [status, live], live: capability.liveApproval
  nextId,
  focused,   \* session id, or 0
  pending,   \* approvalId -> the parked request, its session and its timer
  timers,    \* requests whose timeout is armed
  buffer,    \* the DurableBuffer
  waiting,   \* requests the agents await a decision of
  unanswered,\* requests in the device's overlay queue (approval.h)
  askedAt    \* auxiliary: escalated request -> number of its APPROVAL_REQUEST

vars == <<sessions, nextId, focused, pending, timers, buffer, waiting, unanswered, askedAt>>

Ids == 1..MaxSessions
Requests == Ids \X Approvals

Name(req) == IF SharedIds THEN <<0, req[2]>> ELSE req

-----------------------------------------------------------------------------
(* The policy (policy/index.ts, policy/classify.ts) *)

AutoApprove == {"read"}
AlwaysAsk == {"shell", "network", "delete"}

(* What classifyAction may answer. *)
Classifications ==
  {[class |-> "read", risk |-> "low"]}
    \cup [class : {"edit"}, risk : {"low", "high"}]
    \cup [class : {"shell", "network", "delete", "unknown"}, risk : {"high"}]

(* decide, under the default policy *)
MayAutoApprove(action) ==
  /\ action.class \notin AlwaysAsk \cup {"unknown"}
  /\ action.class \in AutoApprove /\ action.risk = "low"

-----------------------------------------------------------------------------
(* Frames; their text is left out. *)
Frame(type, id) == [type |-> type, session |-> id, approval |-> <<>>]
RequestFrame(req) == [type |-> "APPROVAL_REQUEST", session |-> req[1], approval |-> <<req[2]>>]
SessionList == Frame("SESSION_LIST", 0)

FrameSet ==
  [type : {"SESSION_LIST", "SESSION_STATE", "OUTPUT_CHUNK", "ERROR"},
   session : 0..MaxSessions, approval : {<<>>}]
    \cup {RequestFrame(req) : req \in Requests}

Item == [seq : Nat, frame : FrameSet]

Drop(f, k) == Restrict(f, DOMAIN f \ {k})
Put(f, k, v) == [x \in DOMAIN f \cup {k} |-> IF x = k THEN v ELSE f[x]]

(* Bound: n more frames may be emitted, and still one for every armed     *)
(* timer.                                                                  *)
Room(n) == buffer.seq + n + Cardinality(timers) <= MaxFrames

EmptyMap == [x \in {} |-> 0]

Init ==
  /\ sessions = EmptyMap /\ nextId = 1 /\ focused = 0
  /\ pending = EmptyMap /\ timers = {}
  /\ buffer = EmptyLog
  /\ waiting = {} /\ unanswered = {} /\ askedAt = EmptyMap

-----------------------------------------------------------------------------
(* create: the first session takes the focus *)
Create(live) ==
  /\ nextId <= MaxSessions /\ Room(2)
  /\ nextId' = nextId + 1
  /\ sessions' = Put(sessions, nextId, [status |-> "idle", live |-> live])
  /\ focused' = IF focused = 0 THEN nextId ELSE focused
  /\ buffer' = Record(Record(buffer, Frame("SESSION_STATE", nextId)), SessionList)
  /\ UNCHANGED <<pending, timers, waiting, unanswered, askedAt>>

(* The focus falls to the first session in creation order. *)
FirstOf(ids) == IF ids = {} THEN {0} ELSE {id \in ids : \A other \in ids : id <= other}

(* close: stops the adapter, which forgets its approvals; what the session *)
(* had parked stays parked.                                                *)
Close(id) ==
  /\ id \in DOMAIN sessions /\ Room(1)
  /\ sessions' = Drop(sessions, id)
  /\ waiting' = {req \in waiting : req[1] # id}
  /\ focused' \in IF focused = id THEN FirstOf(DOMAIN sessions \ {id}) ELSE {focused}
  /\ buffer' = Record(buffer, SessionList)
  /\ UNCHANGED <<nextId, pending, timers, unanswered, askedAt>>

(* route: FOCUS_SESSION *)
FocusSession(id) ==
  /\ id \in DOMAIN sessions
  /\ focused' = id
  /\ UNCHANGED <<sessions, nextId, pending, timers, buffer, waiting, unanswered, askedAt>>

(* route: APPROVAL_RESPONSE of a request the device has been shown, once,  *)
(* at any time, also after its timeout or the end of its session.  The     *)
(* decision goes to the adapter of the session in the header.              *)
Answer(req) ==
  /\ req \in unanswered
  /\ unanswered' = unanswered \ {req}
  /\ IF req[1] \in DOMAIN sessions
     THEN /\ timers' = IF Name(req) \in DOMAIN pending
                       THEN timers \ {pending[Name(req)]} ELSE timers
          /\ pending' = Drop(pending, Name(req))
          /\ waiting' = waiting \ {req}
     ELSE UNCHANGED <<timers, pending, waiting>>
  /\ UNCHANGED <<sessions, nextId, focused, buffer, askedAt>>

-----------------------------------------------------------------------------
(* Events of the adapter of an open session (handleEvent) *)

(* output: split into as many chunks as its length needs, here one or two *)
Output(id, chunks) ==
  /\ id \in DOMAIN sessions /\ Room(chunks)
  /\ LET once == Record(buffer, Frame("OUTPUT_CHUNK", id))
     IN  buffer' = IF chunks = 1 THEN once ELSE Record(once, Frame("OUTPUT_CHUNK", id))
  /\ UNCHANGED <<sessions, nextId, focused, pending, timers, waiting, unanswered, askedAt>>

(* status, done *)
Status(id, status) ==
  /\ id \in DOMAIN sessions /\ Room(1)
  /\ sessions' = [sessions EXCEPT ![id].status = status]
  /\ buffer' = Record(buffer, Frame("SESSION_STATE", id))
  /\ UNCHANGED <<nextId, focused, pending, timers, waiting, unanswered, askedAt>>

(* error, and an approval the policy blocks: it is denied in the step that *)
(* asks it.  One that is approved automatically changes nothing.           *)
ErrorOrBlocked(id) ==
  /\ id \in DOMAIN sessions /\ Room(1)
  /\ buffer' = Record(buffer, Frame("ERROR", id))
  /\ UNCHANGED <<sessions, nextId, focused, pending, timers, waiting, unanswered, askedAt>>

\* A bug: one timer per session, rescheduled by each request.
ArmOnePerSession(req) == {other \in timers : other[1] # req[1]} \cup {req}

ArmTimer(req) == timers \cup {req}

(* approval, escalated: shown to the device and parked under its id.  An   *)
(* agent does not use an id twice.                                         *)
Escalate(req, action) ==
  /\ req[1] \in DOMAIN sessions /\ Room(3)
  /\ req \notin DOMAIN askedAt
  /\ sessions[req[1]].live /\ ~MayAutoApprove(action)
  /\ waiting' = waiting \cup {req}
  /\ sessions' = [sessions EXCEPT ![req[1]].status = "awaiting_approval"]
  /\ buffer' = Record(Record(buffer, RequestFrame(req)), Frame("SESSION_STATE", req[1]))
  /\ askedAt' = Put(askedAt, req, buffer.seq + 1)
  /\ timers' = ArmTimer(req)
  /\ pending' = Put(pending, Name(req), req)
  /\ unanswered' = unanswered \cup {req}
  /\ UNCHANGED <<nextId, focused>>

\* A bug: the timeout is reported and un-parked, but not sent to the agent.
TimeoutReports(req) ==
  /\ req \in timers
  /\ timers' = timers \ {req}
  /\ IF Name(req) \in DOMAIN pending
     THEN /\ pending' = Drop(pending, Name(req))
          /\ buffer' = Record(buffer, Frame("ERROR", req[1]))
     ELSE UNCHANGED <<pending, buffer>>
  /\ UNCHANGED <<sessions, nextId, focused, waiting, unanswered, askedAt>>

(* The timeout: un-parks by id and denies, unless answered. *)
Timeout(req) ==
  /\ req \in timers
  /\ timers' = timers \ {req}
  /\ IF Name(req) \in DOMAIN pending
     THEN /\ pending' = Drop(pending, Name(req))
          /\ waiting' = waiting \ {req}
          /\ buffer' = Record(buffer, Frame("ERROR", req[1]))
     ELSE UNCHANGED <<pending, waiting, buffer>>
  /\ UNCHANGED <<sessions, nextId, focused, unanswered, askedAt>>

Next ==
  \/ \E live \in BOOLEAN : Create(live)
  \/ \E id \in Ids :
       \/ Close(id) \/ FocusSession(id) \/ ErrorOrBlocked(id)
       \/ \E chunks \in 1..2 : Output(id, chunks)
       \/ \E status \in Statuses : Status(id, status)
  \/ \E req \in Requests :
       \/ Answer(req) \/ Timeout(req)
       \/ \E action \in Classifications : Escalate(req, action)

(* An armed timer fires: the event loop runs every due callback. *)
Fairness == \A req \in Requests : WF_vars(Timeout(req))

Spec == Init /\ [][Next]_vars /\ Fairness

-----------------------------------------------------------------------------
(* Type invariant of the registry and of its log. *)
TypeOK ==
  /\ DOMAIN sessions \subseteq Ids
  /\ sessions \in [DOMAIN sessions -> [status : Statuses, live : BOOLEAN]]
  /\ nextId \in 1..(MaxSessions + 1)
  /\ focused \in 0..MaxSessions
  /\ DOMAIN pending \subseteq {Name(req) : req \in Requests}
  /\ pending \in [DOMAIN pending -> Requests]
  /\ timers \subseteq Requests
  /\ buffer.seq \in Nat
  /\ buffer.items \in Seq(Item) /\ Len(buffer.items) <= Capacity
  /\ waiting \subseteq Requests /\ unanswered \subseteq Requests
  /\ DOMAIN askedAt \subseteq Requests /\ askedAt \in [DOMAIN askedAt -> Nat]

(* Whatever the device's cursor, a replay hides no loss and reports no     *)
(* loss that did not happen (durable.ts:3-4), through every overflow.      *)
ReplayHonest == Honest(buffer)

(* A request an agent still waits for is in every replay that starts       *)
(* before it, unless the replay is flagged truncated: a request pending    *)
(* over a disconnect is not lost (index.ts:163-166).                       *)
ParkedIsReplayed ==
  \A req \in waiting : \A cursor \in 0..(askedAt[req] - 1) :
    LET replay == ReplaySince(buffer, cursor)
    IN  replay.truncated \/ \E item \in replay.frames : item.frame = RequestFrame(req)

(* The fail-safe: as long as an agent waits, the timer that will deny its  *)
(* request is armed and will find it parked (index.ts:212-217).            *)
NoneForgotten ==
  \A req \in waiting :
    /\ req \in timers
    /\ Name(req) \in DOMAIN pending /\ pending[Name(req)] = req

(* Every escalated request is decided in the end, by the device or by the  *)
(* timeout (index.ts:19-21), whatever the other sessions ask, answer or    *)
(* close meanwhile.                                                        *)
EventuallyDecided == \A req \in Requests : req \in waiting ~> req \notin waiting
=============================================================================
