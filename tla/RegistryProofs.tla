---------------------------- MODULE RegistryProofs ----------------------------
(***************************************************************************)
(* Proofs about Registry, for every capacity of the log and any number of  *)
(* sessions, approvals and frames.  First the log alone: what Record keeps *)
(* and what that says of a replay; then the registry that records in it.   *)
(***************************************************************************)
EXTENDS Registry, SequenceTheorems, TLAPS

(* The items are the last frames recorded, with consecutive numbers, and   *)
(* none has been dropped before the log was full.                          *)
LogInv(log) ==
  /\ log.seq \in Nat
  /\ log.items \in Seq(Item)
  /\ Len(log.items) <= Capacity
  /\ Len(log.items) <= log.seq
  /\ Len(log.items) = log.seq \/ Len(log.items) = Capacity
  /\ \A i \in 1..Len(log.items) : log.items[i].seq = log.seq - Len(log.items) + i

(* Every request the log still holds the number of is found at that number. *)
Logged(log, at) ==
  \A req \in DOMAIN at :
    /\ at[req] \in 1..log.seq
    /\ \A item \in Retained(log) : item.seq = at[req] => item.frame = RequestFrame(req)

-----------------------------------------------------------------------------
(* Recording a frame keeps the log a window on the last frames: it holds   *)
(* the new frame and otherwise only frames it already held.                *)
LEMMA RecordKeepsLog ==
  ASSUME NEW log, LogInv(log), NEW frame \in FrameSet
  PROVE  /\ LogInv(Record(log, frame))
         /\ Record(log, frame).seq = log.seq + 1
         /\ Retained(Record(log, frame)) \subseteq
              Retained(log) \cup {Numbered(frame, log.seq + 1)}
<1> DEFINE item   == Numbered(frame, log.seq + 1)
           pushed == Append(log.items, item)
           new    == Record(log, frame)
<1>1. item \in Item /\ item.seq = log.seq + 1
  BY DEF LogInv, Numbered, Item
<1>2. /\ log.items \in Seq(Item) /\ Len(log.items) \in Nat
      /\ log.seq \in Nat /\ Capacity \in Nat
  BY BufferAssumption, LenProperties DEF LogInv
<1>3. /\ pushed \in Seq(Item) /\ Len(pushed) = Len(log.items) + 1
      /\ \A i \in 1..Len(log.items) : pushed[i] = log.items[i]
      /\ pushed[Len(log.items) + 1] = item
  BY <1>1, <1>2, AppendProperties
<1>4. \A i \in 1..Len(pushed) : pushed[i].seq = log.seq - Len(log.items) + i
  BY <1>1, <1>2, <1>3 DEF LogInv
<1>5. new.seq = log.seq + 1 /\ new.items = IF Len(pushed) > Capacity THEN Tail(pushed) ELSE pushed
  BY DEF Record
<1>6. \A i \in 1..Len(pushed) : pushed[i] \in Retained(log) \cup {item}
  BY <1>2, <1>3 DEF Retained
<1> HIDE DEF item, pushed, new
<1>7. CASE Len(pushed) > Capacity
  <2>1. new.items = Tail(pushed)
    BY <1>5, <1>7
  <2>2. /\ Tail(pushed) \in Seq(Item) /\ Len(Tail(pushed)) = Len(pushed) - 1
        /\ \A i \in 1..Len(Tail(pushed)) : Tail(pushed)[i] = pushed[i + 1]
    BY <1>2, <1>3, HeadTailProperties, EmptySeq
  <2>3. LogInv(new)
    <3>1. Len(log.items) = Capacity
      BY <1>2, <1>3, <1>7 DEF LogInv
    <3>2. \A i \in 1..Len(new.items) : new.items[i].seq = new.seq - Len(new.items) + i
      <4> SUFFICES ASSUME NEW i \in 1..Len(new.items)
                   PROVE  new.items[i].seq = new.seq - Len(new.items) + i
        OBVIOUS
      <4>1. Len(new.items) = Len(log.items) /\ i + 1 \in 1..Len(pushed)
        BY <1>2, <1>3, <2>1, <2>2
      <4>2. new.items[i].seq = pushed[i + 1].seq
        BY <2>1, <2>2
      <4> QED  BY <1>2, <1>4, <1>5, <4>1, <4>2
    <3> QED  BY <1>2, <1>3, <1>5, <2>1, <2>2, <3>1, <3>2 DEF LogInv
  <2>4. Retained(new) \subseteq Retained(log) \cup {item}
    BY <1>2, <1>3, <1>6, <2>1, <2>2 DEF Retained
  <2> QED  BY <1>5, <2>3, <2>4 DEF new, item
<1>8. CASE Len(pushed) <= Capacity
  <2>1. new.items = pushed
    BY <1>2, <1>3, <1>5, <1>8
  <2>2. LogInv(new)
    BY <1>2, <1>3, <1>4, <1>5, <1>8, <2>1 DEF LogInv
  <2>3. Retained(new) \subseteq Retained(log) \cup {item}
    BY <1>6, <2>1 DEF Retained
  <2> QED  BY <1>5, <2>2, <2>3 DEF new, item
<1> QED  BY <1>2, <1>3, <1>7, <1>8

(* A window on the last frames tells a device truthfully whether it has    *)
(* missed some.                                                            *)
LEMMA LogIsHonest ==
  ASSUME NEW log, LogInv(log)
  PROVE  Honest(log)
<1> DEFINE n     == Len(log.items)
           first == log.seq - n + 1
<1>1. n \in Nat /\ log.seq \in Nat /\ n <= log.seq
  BY LenProperties DEF LogInv
<1>2. \A i \in 1..n : log.items[i].seq = log.seq - n + i
  BY DEF LogInv
<1> HIDE DEF n
<1>3. \A k \in first..log.seq : \E i \in 1..n : log.items[i].seq = k
  <2> TAKE k \in first..log.seq
  <2>1. k - (log.seq - n) \in 1..n
    BY <1>1
  <2>2. log.items[k - (log.seq - n)].seq = k
    BY <1>1, <1>2, <2>1
  <2> QED  BY <2>1, <2>2
<1>4. {item.seq : item \in Retained(log)} = first..log.seq
  BY <1>1, <1>2, <1>3 DEF Retained, n
<1>5. log.items = <<>> <=> n = 0
  BY EmptySeq DEF n, LogInv
<1>6. n # 0 => log.items[1].seq = first
  BY <1>1, <1>2
<1> SUFFICES ASSUME NEW cursor \in 0..log.seq
             PROVE  LET replay == ReplaySince(log, cursor)
                    IN  replay.truncated <=>
                          {item.seq : item \in replay.frames} # (cursor + 1)..log.seq
  BY DEF Honest
<1> DEFINE replay == ReplaySince(log, cursor)
           numbers == {item.seq : item \in replay.frames}
<1> SUFFICES replay.truncated <=> numbers # (cursor + 1)..log.seq
  OBVIOUS
<1> HIDE DEF replay
<1>7. numbers = {k \in first..log.seq : k > cursor}
  BY <1>4 DEF ReplaySince, replay
<1>8. replay.truncated <=> first > cursor + 1
  <2>1. replay.truncated = Outrun(log, cursor)
    BY DEF ReplaySince, replay
  <2>2. CASE n = 0
    <3>1. Outrun(log, cursor) <=> log.seq > cursor
      BY <1>5, <2>2 DEF Outrun
    <3> QED  BY <1>1, <2>1, <2>2, <3>1
  <2>3. CASE n # 0
    BY <1>5, <1>6, <2>1, <2>3 DEF Outrun
  <2> QED  BY <2>2, <2>3
<1>9. CASE first > cursor + 1
  <2>1. cursor + 1 \in (cursor + 1)..log.seq /\ cursor + 1 \notin numbers
    BY <1>1, <1>7, <1>9
  <2> QED  BY <1>8, <1>9, <2>1
<1>10. CASE first <= cursor + 1
  <2>1. numbers = (cursor + 1)..log.seq
    BY <1>1, <1>7, <1>10
  <2> QED  BY <1>1, <1>8, <1>10, <2>1
<1> QED  BY <1>1, <1>9, <1>10

-----------------------------------------------------------------------------
(* The part of the invariant that holds whatever ids the agents choose. *)
DataInv ==
  /\ TypeOK
  /\ LogInv(buffer)
  /\ Logged(buffer, askedAt)
  /\ waiting \subseteq DOMAIN askedAt

(* When ids are unique, what is parked and what is armed are the same      *)
(* requests, and every request waited for is among them.                   *)
ParkInv ==
  /\ \A id \in DOMAIN pending : pending[id] = id
  /\ timers = DOMAIN pending
  /\ waiting \subseteq timers

(* What each action may do to the data the invariant is about: the log     *)
(* grows by frames that are not requests.                                  *)
LEMMA RecordKeepsLogged ==
  ASSUME NEW log, LogInv(log), NEW at, Logged(log, at), NEW frame \in FrameSet
  PROVE  Logged(Record(log, frame), at)
<1>1. log.seq \in Nat
  BY DEF LogInv
<1>2. ASSUME NEW req \in DOMAIN at, NEW item \in Retained(Record(log, frame)),
             item.seq = at[req]
      PROVE  item.frame = RequestFrame(req)
  <2>1. at[req] \in 1..log.seq
    BY DEF Logged
  <2>2. item # Numbered(frame, log.seq + 1)
    BY <1>1, <1>2, <2>1 DEF Numbered
  <2>3. item \in Retained(log)
    BY <1>2, <2>2, RecordKeepsLog
  <2> QED  BY <1>2, <2>3 DEF Logged
<1>3. Record(log, frame).seq = log.seq + 1
  BY DEF Record
<1> QED  BY <1>1, <1>2, <1>3 DEF Logged

LEMMA FramesTyped ==
  /\ \A id \in 0..MaxSessions :
       \A type \in {"SESSION_LIST", "SESSION_STATE", "OUTPUT_CHUNK", "ERROR"} :
         Frame(type, id) \in FrameSet
  /\ SessionList \in FrameSet
  /\ \A req \in Requests : RequestFrame(req) \in FrameSet
BY RegistryAssumption DEF Frame, SessionList, FrameSet

LEMMA LogTyped ==
  ASSUME NEW log, LogInv(log)
  PROVE  log.seq \in Nat /\ log.items \in Seq(Item) /\ Len(log.items) <= Capacity
BY DEF LogInv

(* The initial state. *)
LEMMA InitInv == Init => DataInv /\ ParkInv
<1> SUFFICES ASSUME Init PROVE DataInv /\ ParkInv
  OBVIOUS
<1> USE DEF Init
<1>1. LogInv(buffer)
  BY BufferAssumption, EmptySeq DEF LogInv, EmptyLog
<1>2. TypeOK
  BY <1>1, LogTyped, RegistryAssumption DEF TypeOK, EmptyMap
<1>3. Logged(buffer, askedAt)
  BY DEF Logged, EmptyMap
<1> QED  BY <1>1, <1>2, <1>3 DEF DataInv, ParkInv, EmptyMap

(* A request recorded is found at the number it gets. *)
LEMMA RequestLogged ==
  ASSUME NEW log, LogInv(log), NEW at, Logged(log, at), NEW req \in Requests
  PROVE  Logged(Record(log, RequestFrame(req)), Put(at, req, log.seq + 1))
<1> DEFINE new == Record(log, RequestFrame(req))
           put == Put(at, req, log.seq + 1)
<1>1. RequestFrame(req) \in FrameSet
  BY FramesTyped
<1>2. log.seq \in Nat /\ new.seq = log.seq + 1
  BY DEF LogInv, Record
<1>3. DOMAIN put = DOMAIN at \cup {req}
      /\ \A x \in DOMAIN put : put[x] = IF x = req THEN log.seq + 1 ELSE at[x]
  BY DEF Put
<1>4. Logged(new, at)
  BY <1>1, RecordKeepsLogged
<1>5. \A item \in Retained(log) : item.seq # log.seq + 1
  <2> TAKE item \in Retained(log)
  <2>1. PICK i \in 1..Len(log.items) : item = log.items[i]
    BY DEF Retained
  <2>2. Len(log.items) \in Nat /\ item.seq = log.seq - Len(log.items) + i
    BY <2>1, LenProperties DEF LogInv
  <2> QED  BY <1>2, <2>2
<1>6. \A item \in Retained(new) : item.seq = log.seq + 1 => item.frame = RequestFrame(req)
  <2> SUFFICES ASSUME NEW item \in Retained(new), item.seq = log.seq + 1
               PROVE  item.frame = RequestFrame(req)
    OBVIOUS
  <2>1. item = Numbered(RequestFrame(req), log.seq + 1)
    BY <1>1, <1>5, RecordKeepsLog
  <2> QED  BY <2>1 DEF Numbered
<1> HIDE DEF new, put
<1>7. \A x \in DOMAIN put :
        /\ put[x] \in 1..new.seq
        /\ \A item \in Retained(new) : item.seq = put[x] => item.frame = RequestFrame(x)
  <2> TAKE x \in DOMAIN put
  <2>1. CASE x = req
    BY <1>2, <1>3, <1>6, <2>1
  <2>2. CASE x # req
    BY <1>3, <1>4, <2>2 DEF Logged
  <2> QED  BY <2>1, <2>2
<1> QED  BY <1>7 DEF Logged, new, put

-----------------------------------------------------------------------------
(* Every step keeps the data invariant. *)
LEMMA DataStep == DataInv /\ [Next]_vars => DataInv'
<1> SUFFICES ASSUME DataInv, [Next]_vars PROVE DataInv'
  OBVIOUS
<1> USE DEF Ids
<1>1. /\ TypeOK /\ LogInv(buffer) /\ Logged(buffer, askedAt) /\ waiting \subseteq DOMAIN askedAt
      /\ MaxSessions \in Nat
      /\ "idle" \in Statuses /\ "awaiting_approval" \in Statuses
  BY RegistryAssumption DEF DataInv
(* One frame that is no request. *)
<1>2. ASSUME NEW frame \in FrameSet
      PROVE  LogInv(Record(buffer, frame)) /\ Logged(Record(buffer, frame), askedAt)
  BY <1>1, RecordKeepsLog, RecordKeepsLogged
<1>3. ASSUME NEW frame \in FrameSet, NEW frame2 \in FrameSet
      PROVE  /\ LogInv(Record(Record(buffer, frame), frame2))
             /\ Logged(Record(Record(buffer, frame), frame2), askedAt)
  BY <1>2, RecordKeepsLog, RecordKeepsLogged
<1>4. \A id \in 0..MaxSessions : Frame("SESSION_STATE", id) \in FrameSet
        /\ Frame("OUTPUT_CHUNK", id) \in FrameSet /\ Frame("ERROR", id) \in FrameSet
  BY FramesTyped
<1>5. ASSUME NEW live \in BOOLEAN, Create(live) PROVE DataInv'
  <2>1. nextId \in Ids /\ nextId + 1 \in 1..(MaxSessions + 1)
    BY <1>1, <1>5 DEF TypeOK, Create
  <2>2. LogInv(buffer') /\ Logged(buffer', askedAt)
    BY <1>1, <1>3, <1>4, <1>5, <2>1, FramesTyped DEF Create
  <2>3. /\ DOMAIN sessions' \subseteq Ids
        /\ sessions' \in [DOMAIN sessions' -> [status : Statuses, live : BOOLEAN]]
    BY <1>1, <1>5, <2>1 DEF TypeOK, Create, Put
  <2>4. focused' \in 0..MaxSessions
    BY <1>1, <1>5, <2>1 DEF TypeOK, Create
  <2>5. UNCHANGED <<pending, timers, waiting, unanswered, askedAt>> /\ nextId' = nextId + 1
    BY <1>5 DEF Create
  <2> QED  BY <1>1, <2>1, <2>2, <2>3, <2>4, <2>5, LogTyped DEF DataInv, TypeOK
<1>6. ASSUME NEW id \in Ids, Close(id) PROVE DataInv'
  <2>1. LogInv(buffer') /\ Logged(buffer', askedAt)
    BY <1>2, <1>6, FramesTyped DEF Close
  <2>2. /\ DOMAIN sessions' \subseteq Ids
        /\ sessions' \in [DOMAIN sessions' -> [status : Statuses, live : BOOLEAN]]
    BY <1>1, <1>6 DEF TypeOK, Close, Drop, Restrict
  <2>3. focused' \in 0..MaxSessions
    BY <1>1, <1>6 DEF TypeOK, Close, FirstOf
  <2>4. UNCHANGED <<nextId, pending, timers, unanswered, askedAt>> /\ waiting' \subseteq waiting
    BY <1>6 DEF Close
  <2> QED  BY <1>1, <2>1, <2>2, <2>3, <2>4, LogTyped DEF DataInv, TypeOK
<1>7. ASSUME NEW id \in Ids, FocusSession(id) PROVE DataInv'
  BY <1>1, <1>7 DEF FocusSession, DataInv, TypeOK
<1>8. ASSUME NEW id \in Ids, ErrorOrBlocked(id) PROVE DataInv'
  <2>1. LogInv(buffer') /\ Logged(buffer', askedAt)
    BY <1>1, <1>2, <1>4, <1>8 DEF ErrorOrBlocked
  <2> QED  BY <1>1, <1>8, <2>1, LogTyped DEF ErrorOrBlocked, DataInv, TypeOK
<1>9. ASSUME NEW id \in Ids, NEW chunks \in 1..2, Output(id, chunks) PROVE DataInv'
  <2>1. LogInv(buffer') /\ Logged(buffer', askedAt)
    BY <1>1, <1>2, <1>3, <1>4, <1>9 DEF Output
  <2> QED  BY <1>1, <1>9, <2>1, LogTyped DEF Output, DataInv, TypeOK
<1>10. ASSUME NEW id \in Ids, NEW status \in Statuses, Status(id, status) PROVE DataInv'
  <2>1. LogInv(buffer') /\ Logged(buffer', askedAt)
    BY <1>1, <1>2, <1>4, <1>10 DEF Status
  <2>2. /\ DOMAIN sessions' = DOMAIN sessions
        /\ sessions' \in [DOMAIN sessions -> [status : Statuses, live : BOOLEAN]]
    BY <1>1, <1>10 DEF Status, TypeOK
  <2> QED  BY <1>1, <1>10, <2>1, <2>2, LogTyped DEF Status, DataInv, TypeOK
<1>11. ASSUME NEW req \in Requests, Answer(req) PROVE DataInv'
  <2>1. /\ DOMAIN pending' \subseteq {Name(r) : r \in Requests}
        /\ pending' \in [DOMAIN pending' -> Requests]
    BY <1>1, <1>11 DEF TypeOK, Answer, Drop, Restrict
  <2>2. timers' \subseteq timers /\ waiting' \subseteq waiting /\ unanswered' \subseteq unanswered
    BY <1>11 DEF Answer
  <2> QED  BY <1>1, <1>11, <2>1, <2>2 DEF Answer, DataInv, TypeOK
<1>12. ASSUME NEW req \in Requests, Timeout(req) PROVE DataInv'
  <2>1. req[1] \in Ids
    BY DEF Requests
  <2>2. LogInv(buffer') /\ Logged(buffer', askedAt)
    BY <1>1, <1>2, <1>4, <1>12, <2>1 DEF Timeout
  <2>3. /\ DOMAIN pending' \subseteq {Name(r) : r \in Requests}
        /\ pending' \in [DOMAIN pending' -> Requests]
    BY <1>1, <1>12 DEF TypeOK, Timeout, Drop, Restrict
  <2>4. timers' \subseteq timers /\ waiting' \subseteq waiting
    BY <1>12 DEF Timeout
  <2> QED  BY <1>1, <1>12, <2>2, <2>3, <2>4, LogTyped DEF Timeout, DataInv, TypeOK
<1>13. ASSUME NEW req \in Requests, NEW action \in Classifications, Escalate(req, action)
       PROVE  DataInv'
  <2>1. req[1] \in Ids /\ RequestFrame(req) \in FrameSet
    BY FramesTyped DEF Requests
  <2>2. LogInv(buffer')
    BY <1>1, <1>3, <1>4, <1>13, <2>1 DEF Escalate
  <2>3. Logged(buffer', askedAt')
    <3>1. Logged(Record(buffer, RequestFrame(req)), askedAt')
      BY <1>1, <1>13, RequestLogged DEF Escalate
    <3>2. LogInv(Record(buffer, RequestFrame(req)))
      BY <1>2, <2>1
    <3>3. Frame("SESSION_STATE", req[1]) \in FrameSet
      BY <1>1, <1>4, <2>1
    <3> QED  BY <1>13, <3>1, <3>2, <3>3, RecordKeepsLogged DEF Escalate
  <2>4. /\ DOMAIN sessions' = DOMAIN sessions
        /\ sessions' \in [DOMAIN sessions -> [status : Statuses, live : BOOLEAN]]
    BY <1>1, <1>13 DEF Escalate, TypeOK
  <2>5. /\ DOMAIN pending' \subseteq {Name(r) : r \in Requests}
        /\ pending' \in [DOMAIN pending' -> Requests]
    BY <1>1, <1>13 DEF TypeOK, Escalate, Put
  <2>6. /\ DOMAIN askedAt' = DOMAIN askedAt \cup {req}
        /\ DOMAIN askedAt' \subseteq Requests /\ askedAt' \in [DOMAIN askedAt' -> Nat]
    <3>1. buffer.seq + 1 \in Nat
      BY <1>1 DEF LogInv
    <3> QED  BY <1>1, <1>13, <3>1 DEF TypeOK, Escalate, Put
  <2>7. /\ timers' = timers \cup {req} /\ waiting' = waiting \cup {req}
        /\ unanswered' = unanswered \cup {req} /\ UNCHANGED <<nextId, focused>>
    BY <1>13 DEF Escalate, ArmTimer
  <2> QED  BY <1>1, <2>2, <2>3, <2>4, <2>5, <2>6, <2>7, LogTyped DEF DataInv, TypeOK
<1>14. CASE UNCHANGED vars
  BY <1>1, <1>14 DEF vars, DataInv, TypeOK
<1> QED
  BY <1>5, <1>6, <1>7, <1>8, <1>9, <1>10, <1>11, <1>12, <1>13, <1>14 DEF Next

(* With unique ids every step keeps the parked requests, their timers and  *)
(* the agents that wait in agreement.                                      *)
LEMMA ParkStep ==
  ASSUME SharedIds = FALSE, DataInv, ParkInv, [Next]_vars
  PROVE  ParkInv'
<1>1. \A req \in Requests : Name(req) = req
  BY DEF Name
<1>2. /\ \A id \in DOMAIN pending : pending[id] = id
      /\ timers = DOMAIN pending /\ waiting \subseteq timers
  BY DEF ParkInv
<1>3. /\ DOMAIN pending \subseteq Requests /\ pending \in [DOMAIN pending -> Requests]
  BY <1>1 DEF DataInv, TypeOK
<1>4. ASSUME NEW req \in Requests, Answer(req) PROVE ParkInv'
  <2>1. CASE req[1] \in DOMAIN sessions
    <3>1. /\ DOMAIN pending' = DOMAIN pending \ {req}
          /\ \A id \in DOMAIN pending' : pending'[id] = id
      BY <1>1, <1>2, <1>3, <1>4, <2>1 DEF Answer, Drop, Restrict
    <3>2. timers' = timers \ {req} /\ waiting' = waiting \ {req}
      BY <1>1, <1>2, <1>4, <2>1 DEF Answer
    <3> QED  BY <1>2, <3>1, <3>2 DEF ParkInv
  <2>2. CASE req[1] \notin DOMAIN sessions
    BY <1>2, <1>4, <2>2 DEF Answer, ParkInv
  <2> QED  BY <2>1, <2>2
<1>5. ASSUME NEW req \in Requests, Timeout(req) PROVE ParkInv'
  <2>1. req \in DOMAIN pending /\ Name(req) = req
    BY <1>1, <1>2, <1>5 DEF Timeout
  <2>2. /\ DOMAIN pending' = DOMAIN pending \ {req}
        /\ \A id \in DOMAIN pending' : pending'[id] = id
    BY <1>2, <1>3, <1>5, <2>1 DEF Timeout, Drop, Restrict
  <2>3. timers' = timers \ {req} /\ waiting' = waiting \ {req}
    BY <1>5, <2>1 DEF Timeout
  <2> QED  BY <1>2, <2>2, <2>3 DEF ParkInv
<1>6. ASSUME NEW req \in Requests, NEW action \in Classifications, Escalate(req, action)
      PROVE  ParkInv'
  <2>1. pending' = Put(pending, req, req)
    BY <1>1, <1>6 DEF Escalate
  <2>2. /\ DOMAIN pending' = DOMAIN pending \cup {req}
        /\ \A id \in DOMAIN pending' : pending'[id] = id
    BY <1>2, <1>3, <2>1 DEF Put
  <2>3. timers' = timers \cup {req} /\ waiting' = waiting \cup {req}
    BY <1>6 DEF Escalate, ArmTimer
  <2> QED  BY <1>2, <2>2, <2>3 DEF ParkInv
<1>7. ASSUME NEW id \in Ids, Close(id) PROVE ParkInv'
  BY <1>2, <1>7 DEF Close, ParkInv
(* No other step touches a request. *)
<1>8. CASE UNCHANGED <<pending, timers, waiting>>
  BY <1>2, <1>8 DEF ParkInv
<1> QED
  BY <1>4, <1>5, <1>6, <1>7, <1>8
  DEF Next, vars, Create, FocusSession, ErrorOrBlocked, Output, Status

-----------------------------------------------------------------------------
(* The data invariant says everything about replays. *)
LEMMA DataInvReplays ==
  ASSUME DataInv
  PROVE  ReplayHonest /\ ParkedIsReplayed
<1>1. /\ TypeOK /\ LogInv(buffer) /\ Logged(buffer, askedAt)
      /\ waiting \subseteq DOMAIN askedAt /\ buffer.seq \in Nat
  BY DEF DataInv, LogInv
<1>2. Honest(buffer)
  BY <1>1, LogIsHonest
<1>3. ASSUME NEW req \in waiting, NEW cursor \in 0..(askedAt[req] - 1),
             ~ReplaySince(buffer, cursor).truncated
      PROVE  \E item \in ReplaySince(buffer, cursor).frames : item.frame = RequestFrame(req)
  <2>1. askedAt[req] \in 1..buffer.seq
    BY <1>1 DEF Logged
  <2>2. cursor \in 0..buffer.seq /\ askedAt[req] \in (cursor + 1)..buffer.seq
    BY <1>1, <2>1
  <2>3. {item.seq : item \in ReplaySince(buffer, cursor).frames} = (cursor + 1)..buffer.seq
    BY <1>2, <1>3, <2>2 DEF Honest
  <2>4. PICK item \in ReplaySince(buffer, cursor).frames : item.seq = askedAt[req]
    BY <2>2, <2>3
  <2>5. item \in Retained(buffer)
    BY <2>4 DEF ReplaySince
  <2> QED  BY <1>1, <2>4, <2>5 DEF Logged
<1> QED  BY <1>2, <1>3 DEF ReplayHonest, ParkedIsReplayed

(* DataInv holds in every reachable state. *)
THEOREM DataInductive == Spec => []DataInv
<1>1. Init => DataInv
  BY InitInv
<1>2. DataInv /\ [Next]_vars => DataInv'
  BY DataStep
<1> QED  BY <1>1, <1>2, PTL DEF Spec

(* The registry's state has its type, and its log never outgrows its       *)
(* capacity.                                                               *)
THEOREM RegistryTypeCorrect == Spec => []TypeOK
<1>1. DataInv => TypeOK
  BY DEF DataInv
<1> QED  BY <1>1, DataInductive, PTL

(* A replay is flagged truncated exactly when it lacks frames the device   *)
(* has not seen (durable.ts:3-4).                                          *)
THEOREM ReplaysAreHonest == Spec => []ReplayHonest
<1>1. DataInv => ReplayHonest
  BY DataInvReplays
<1> QED  BY <1>1, DataInductive, PTL

(* A request still waited for is in every replay from before it that is    *)
(* not flagged truncated (index.ts:163-166).                               *)
THEOREM PendingIsReplayed == Spec => []ParkedIsReplayed
<1>1. DataInv => ParkedIsReplayed
  BY DataInvReplays
<1> QED  BY <1>1, DataInductive, PTL

(* With unique approval ids, an agent that waits has an armed timer that   *)
(* will find its request parked and deny it (index.ts:212-217).            *)
THEOREM FailSafeArmed ==
  ASSUME SharedIds = FALSE
  PROVE  Spec => []NoneForgotten
<1>1. Init => DataInv /\ ParkInv
  BY InitInv
<1>2. DataInv /\ ParkInv /\ [Next]_vars => DataInv' /\ ParkInv'
  BY DataStep, ParkStep
<1>3. DataInv /\ ParkInv => NoneForgotten
  BY DEF DataInv, ParkInv, NoneForgotten, TypeOK, Name
<1> QED  BY <1>1, <1>2, <1>3, PTL DEF Spec
=============================================================================
