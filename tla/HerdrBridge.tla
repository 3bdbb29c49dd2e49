------------------------------ MODULE HerdrBridge -----------------------------
(***************************************************************************)
(* The host's multi-session herdr bridge (host/src/herdr/bridge.ts): it    *)
(* attaches to every discovered daemon, flattens their panes into one      *)
(* board under fresh device ids, follows each daemon's events on one       *)
(* subscription, and owns the single control channel of the focused pane.  *)
(*                                                                         *)
(* The bridge runs on one event loop: an action is everything between two  *)
(* awaits.  Daemons are the environment: any open subscription may deliver *)
(* any event, and any request may succeed or fail at any time.             *)
(*                                                                         *)
(* JavaScript Maps are functions whose domain is the set of present keys.  *)
(* A SessionClient object is a member of the pool Clients while something  *)
(* can still reach it.  0 stands for an undefined device id.               *)
(***************************************************************************)
EXTENDS Naturals, Sequences, FiniteSets, Functions

CONSTANTS Names,     \* herdr session names
          Panes,     \* pane ids; two daemons may use the same one
          Statuses,  \* agent_status values
          Sizes,     \* terminal sizes
          Default,   \* DEFAULT_SIZE
          NoSize,    \* no client size seen, or no channel
          Clients,   \* a pool of SessionClient objects
          OpKinds,   \* bound: the operations the device uses
          Modes,     \* bridges to check: TRUE single-target, FALSE discovering
          MaxId,     \* bound: device ids handed out
          MaxResubs, \* bound: chained resubscribes of one client
          MaxOps     \* bound: operations queued before the bridge is ready

ASSUME BridgeAssumption ==
  /\ Names # {}
  /\ Default \in Sizes /\ NoSize \notin Sizes
  /\ Modes \subseteq BOOLEAN
  /\ MaxId \in Nat /\ MaxResubs \in Nat /\ MaxOps \in Nat

VARIABLES
  single,        \* singleRunner is set; never changes
  phase,         \* "idle", "starting" or "ready"
  disposed,
  sessions,      \* session name -> its current client
  client,        \* client -> [name, phase, sub, boot, committed, resubs]
  byId,          \* device id -> [name, pane, status, ended]
  byKey,         \* <<name, pane>> -> device id
  nextId,
  focused,
  channel,       \* device id whose pane the control channel is on
  channelSize,
  clientSize,
  discovering,   \* enumerations awaiting discover()
  timers,        \* refresh timers armed
  pendingOps,
  approvalsInFlight,
  asking,        \* device id -> approval snapshots outstanding
  sending,       \* device id -> approval send_keys outstanding
  failedNotified,
  shown          \* auxiliary: the device's rows since the last ATTACH, id -> status

paneVars     == <<byId, byKey, nextId>>
channelVars  == <<channel, channelSize>>
approvalVars == <<approvalsInFlight, asking, sending>>
loopVars     == <<discovering, timers>>
vars == <<single, phase, disposed, sessions, client, paneVars, focused, channelVars,
          clientSize, loopVars, pendingOps, approvalVars, failedNotified, shown>>

DeviceIds == 1..MaxId

(* The sentinel target of a single-target bridge. *)
SingleName == CHOOSE n \in Names : TRUE

Entry == [name : Names, pane : Panes, status : Statuses, ended : BOOLEAN]

(* boot: the enumeration awaiting this client's bootstrap, if one does;    *)
(* committed: its snapshot is in and its subscribe outstanding; resubs:    *)
(* the resubscribes of resubChain not settled yet.                         *)
Client == [name : Names, phase : {"starting", "ready", "failed"}, sub : BOOLEAN,
           boot : {"none", "attach", "refresh"}, committed : BOOLEAN,
           resubs : 0..MaxResubs]

Op == [kind : {"resync", "focus", "size", "approve"}, id : 0..MaxId, size : Sizes \cup {NoSize}]
Resync == [kind |-> "resync", id |-> 0, size |-> NoSize]

-----------------------------------------------------------------------------
(* Map.set *)
Put(f, k, v) == [x \in DOMAIN f \cup {k} |-> IF x = k THEN v ELSE f[x]]

Live(b) == {id \in DOMAIN b : ~b[id].ended}

OfSession(b, n) == {id \in DOMAIN b : b[id].name = n}

Booting(e) == {c \in DOMAIN client : client[c].boot = e}

(* bootstrapAll flushes pendingOps synchronously once the bridge is ready: *)
(* no other step runs until they are done.                                 *)
Flushing == phase = "ready" /\ pendingOps # <<>>

(* Drop the clients nothing can reach any more. *)
Reachable(cs, ss) ==
  Restrict(cs, {c \in DOMAIN cs : \/ \E n \in DOMAIN ss : ss[n] = c
                                  \/ cs[c].sub
                                  \/ cs[c].boot # "none"
                                  \/ cs[c].resubs > 0})

(* attachedCount() > 0 *)
SomeAttached(cs, ss) == \E n \in DOMAIN ss : cs[ss[n]].phase = "ready"

Ready(n) == n \in DOMAIN sessions /\ client[sessions[n]].phase = "ready"

(* emitBoard: a SESSION_STATE for every live pane of b.  The SESSION_LIST  *)
(* that follows is not used by the device's board.                         *)
EmitBoard(view, b) ==
  [id \in DOMAIN view \cup Live(b) |-> IF id \in Live(b) THEN b[id].status ELSE view[id]]

EmptyMap == [x \in {} |-> 0]

(* The focus seedFocus may choose: the current one while it is live, else  *)
(* a focused-pane hint or the first live pane, here any live pane.         *)
SeedFocus(f, b) ==
  IF f \in Live(b) THEN {f} ELSE IF Live(b) = {} THEN {0} ELSE Live(b)

(* armRefresh *)
ArmRefresh == IF single \/ disposed THEN timers ELSE timers + 1

WantedSize == IF clientSize = NoSize THEN Default ELSE clientSize

(* openChannel: nothing without a session client; otherwise the old child  *)
(* is killed and the spawn succeeds or throws.                             *)
OpenChannel(id) ==
  IF byId[id].name \notin DOMAIN sessions THEN UNCHANGED channelVars
  ELSE \/ channel' = id /\ channelSize' = WantedSize
       \/ channel' = 0 /\ channelSize' = NoSize

\* A bug: the channel of a pane that goes is left open.
ChannelLeftOpen(cond) == UNCHANGED channelVars

KillChannelIf(cond) ==
  /\ channel' = IF cond THEN 0 ELSE channel
  /\ channelSize' = IF cond THEN NoSize ELSE channelSize

-----------------------------------------------------------------------------
Init ==
  /\ single \in Modes
  /\ phase = "idle" /\ disposed = FALSE
  /\ sessions = EmptyMap /\ client = EmptyMap
  /\ byId = EmptyMap /\ byKey = EmptyMap /\ nextId = 1
  /\ focused = 0 /\ channel = 0 /\ channelSize = NoSize /\ clientSize = NoSize
  /\ discovering = {} /\ timers = 0
  /\ pendingOps = <<>>
  /\ approvalsInFlight = {}
  /\ asking = [id \in DeviceIds |-> 0] /\ sending = [id \in DeviceIds |-> 0]
  /\ failedNotified = {}
  /\ shown = EmptyMap

(* ensureClient for every target that has no ready client, and the start   *)
(* of bootstrapSession on it for enumeration e.                            *)
BootClients(targets, e) ==
  \E new \in Injection(targets, Clients \ DOMAIN client) :
    LET ss == [n \in DOMAIN sessions \cup targets |->
                 IF n \in targets THEN new[n] ELSE sessions[n]]
        fresh(n) == [name |-> n, phase |-> "starting", sub |-> FALSE,
                     boot |-> e, committed |-> FALSE, resubs |-> 0]
        cs == [c \in DOMAIN client \cup Range(new) |->
                 IF c \in Range(new) THEN fresh(CHOOSE n \in targets : new[n] = c)
                 ELSE client[c]]
    IN  /\ sessions' = ss
        /\ client' = Reachable(cs, ss)

-----------------------------------------------------------------------------
(* Operations of the device, performed when the bridge is ready.           *)

(* resync(): reopen a channel that is open, else emit the board. *)
DoResync ==
  /\ IF focused \in Live(byId) /\ channel # 0
     THEN OpenChannel(focused) /\ UNCHANGED shown
     ELSE shown' = EmitBoard(shown, byId) /\ UNCHANGED channelVars
  /\ UNCHANGED <<focused, clientSize, approvalVars>>

(* FOCUS_SESSION: unknown and ended ids are dropped. *)
DoFocus(id) ==
  /\ id \in Live(byId)
  /\ focused' = id
  /\ OpenChannel(id)
  /\ UNCHANGED <<clientSize, approvalVars, shown>>

\* A bug: the new size never reaches the open channel.
SizeNotSent(size) ==
  /\ size # clientSize
  /\ clientSize' = size
  /\ UNCHANGED <<focused, channelVars, approvalVars, shown>>

(* CLIENT_SIZE: a new size is kept and an open channel resized. *)
DoSize(size) ==
  /\ size # clientSize
  /\ clientSize' = size
  /\ channelSize' = IF channel # 0 THEN size ELSE channelSize
  /\ UNCHANGED <<focused, channel, approvalVars, shown>>

\* A bug: the double-tap guard is dropped.
CanApproveTwice(id) == id \in Live(byId) /\ Ready(byId[id].name)

(* The row is live, its daemon attached and no approval of it outstanding. *)
CanApprove(id) ==
  /\ id \in Live(byId)
  /\ Ready(byId[id].name)
  /\ id \notin approvalsInFlight

(* MACRO_INTENT approve or reject: handleApproval up to its first await. *)
DoApprove(id) ==
  /\ CanApprove(id)
  /\ approvalsInFlight' = approvalsInFlight \cup {id}
  /\ asking' = [asking EXCEPT ![id] = @ + 1]
  /\ UNCHANGED <<sending, focused, clientSize, channelVars, shown>>

Effective(op) ==
  CASE op.kind = "resync"  -> TRUE
    [] op.kind = "focus"   -> op.id \in Live(byId)
    [] op.kind = "size"    -> op.size # clientSize
    [] op.kind = "approve" -> CanApprove(op.id)

Perform(op) ==
  \/ op.kind = "resync" /\ DoResync
  \/ op.kind = "focus" /\ DoFocus(op.id)
  \/ op.kind = "size" /\ DoSize(op.size)
  \/ op.kind = "approve" /\ DoApprove(op.id)
  \/ ~Effective(op) /\ UNCHANGED <<focused, channelVars, clientSize, approvalVars, shown>>

(* What the device may send before the bridge is ready or after. *)
DeviceOps ==
  [kind : OpKinds \cap {"focus", "approve"}, id : DeviceIds, size : {NoSize}]
    \cup [kind : OpKinds \cap {"size"}, id : {0}, size : Sizes]

Queue(op) ==
  /\ Len(pendingOps) < MaxOps
  /\ pendingOps' = Append(pendingOps, op)

(* route: performed at once when ready, queued while starting, dropped     *)
(* when idle.                                                              *)
Route(op) ==
  /\ ~Flushing /\ ~disposed
  /\ \/ phase = "ready" /\ Effective(op) /\ Perform(op) /\ UNCHANGED pendingOps
     \/ /\ phase = "starting"
        /\ Queue(op)
        /\ UNCHANGED <<focused, channelVars, clientSize, approvalVars, shown>>
  /\ UNCHANGED <<single, phase, disposed, sessions, client, paneVars, loopVars, failedNotified>>

(* One queued operation of the flush that ends bootstrapAll. *)
FlushOp ==
  /\ Flushing
  /\ Perform(Head(pendingOps))
  /\ pendingOps' = Tail(pendingOps)
  /\ UNCHANGED <<single, phase, disposed, sessions, client, paneVars, loopVars, failedNotified>>

-----------------------------------------------------------------------------
(* ATTACH (app.ts onAttach): the sink now leads to a device with an empty  *)
(* board; start(), then resync().                                          *)

AttachReady ==
  /\ phase = "ready" /\ ~Flushing /\ ~disposed
  /\ shown' = EmitBoard(EmptyMap, byId)
  /\ IF focused \in Live(byId) /\ channel # 0 THEN OpenChannel(focused) ELSE UNCHANGED channelVars
  /\ UNCHANGED <<single, phase, disposed, sessions, client, paneVars, focused, clientSize,
                 loopVars, pendingOps, approvalVars, failedNotified>>

AttachWhileStarting ==
  /\ phase = "starting" /\ ~disposed
  /\ shown' = EmptyMap
  /\ Queue(Resync)
  /\ UNCHANGED <<single, phase, disposed, sessions, client, paneVars, focused, channelVars,
                 clientSize, loopVars, approvalVars, failedNotified>>

(* bootstrapAll up to its first await *)
AttachIdle ==
  /\ phase = "idle" /\ ~disposed
  /\ phase' = "starting"
  /\ failedNotified' = {}
  /\ Queue(Resync)
  /\ shown' = EmptyMap
  /\ IF single
     THEN BootClients({SingleName}, "attach") /\ UNCHANGED discovering
     ELSE discovering' = discovering \cup {"attach"} /\ UNCHANGED <<sessions, client>>
  /\ UNCHANGED <<single, disposed, paneVars, focused, channelVars, clientSize, timers,
                 approvalVars>>

(* The end of bootstrapAll, with clients cs, sessions ss, panes b and the  *)
(* focus f: a single-target bridge with its daemon down goes back to idle. *)
FinishAttach(cs, ss, b, f) ==
  IF single /\ ~SomeAttached(cs, ss)
  THEN /\ phase' = "idle" /\ pendingOps' = <<>>
       /\ focused' = f
       /\ UNCHANGED <<timers, shown>>
  ELSE /\ phase' = "ready" /\ UNCHANGED pendingOps
       /\ focused' \in SeedFocus(f, b)
       /\ shown' = EmitBoard(shown, b)
       /\ timers' = ArmRefresh

\* A bug: the refreshed board is not sent.
FinishSilently(b, f) ==
  /\ focused' \in SeedFocus(f, b)
  /\ timers' = ArmRefresh
  /\ UNCHANGED <<phase, pendingOps, shown>>

(* The end of doRefresh after a bootstrap. *)
FinishRefresh(b, f) ==
  /\ focused' \in SeedFocus(f, b)
  /\ shown' = EmitBoard(shown, b)
  /\ timers' = ArmRefresh
  /\ UNCHANGED <<phase, pendingOps>>

DiscoverAttach(targets) ==
  /\ "attach" \in discovering
  /\ discovering' = discovering \ {"attach"}
  /\ BootClients(targets, "attach")
  /\ IF targets = {} THEN FinishAttach(client, sessions, byId, focused)
     ELSE UNCHANGED <<phase, pendingOps, focused, shown, timers>>
  /\ UNCHANGED <<single, disposed, paneVars, channelVars, clientSize, approvalVars,
                 failedNotified>>

DiscoverAttachFails ==
  /\ "attach" \in discovering
  /\ discovering' = discovering \ {"attach"}
  /\ phase' = "idle" /\ pendingOps' = <<>>
  /\ UNCHANGED <<single, disposed, sessions, client, paneVars, focused, channelVars,
                 clientSize, timers, approvalVars, failedNotified, shown>>

-----------------------------------------------------------------------------
(* bootstrapSession *)

\* A bug: a pane that is already on the board is entered once more.
KnowsNone(n, ps) == {}

KnownPanes(n, ps) ==
  {p \in ps : <<n, p>> \in DOMAIN byKey /\ byKey[<<n, p>>] \in Live(byId)}

(* ensureSession for the panes ps of session n: a pane with a live entry   *)
(* keeps its id, any other gets the next one.  status is what the daemon   *)
(* reports of each.                                                        *)
EnsureSessions(n, ps, status) ==
  LET fresh == ps \ KnownPanes(n, ps)
  IN  \E next \in nextId..(MaxId + 1) :
        \E id \in Bijection(fresh, nextId..(next - 1)) :
          /\ nextId' = next
          /\ byId' = [i \in DOMAIN byId \cup (nextId..(next - 1)) |->
                        IF i < nextId THEN byId[i]
                        ELSE LET p == CHOOSE p \in fresh : id[p] = i
                             IN  [name |-> n, pane |-> p, status |-> status[p], ended |-> FALSE]]
          /\ byKey' = [k \in DOMAIN byKey \cup ({n} \X fresh) |->
                         IF k \in {n} \X fresh THEN id[k[2]] ELSE byKey[k]]
          /\ focused' = IF focused = 0 /\ fresh # {} THEN nextId ELSE focused

(* The snapshot arrives: its panes are committed, the subscribe is sent.   *)
BootSnapshot(c) ==
  /\ ~Flushing /\ c \in DOMAIN client
  /\ client[c].boot # "none" /\ ~client[c].committed
  /\ \E ps \in SUBSET Panes : \E status \in [ps -> Statuses] :
       EnsureSessions(client[c].name, ps, status)
  /\ client' = [client EXCEPT ![c].committed = TRUE]
  /\ UNCHANGED <<single, phase, disposed, sessions, channelVars, clientSize, loopVars,
                 pendingOps, approvalVars, failedNotified, shown>>

(* The enumeration c was booted by is over when c is its last client.  A   *)
(* single-target bridge may have several running, of one client each.      *)
LastOf(c) == single \/ Booting(client[c].boot) = {c}

Settles(c, cs, b, f) ==
  IF ~LastOf(c) THEN focused' = f /\ UNCHANGED <<phase, pendingOps, timers, shown>>
  ELSE IF client[c].boot = "attach" THEN FinishAttach(cs, sessions, b, f)
  ELSE FinishRefresh(b, f)

(* The subscribe is acknowledged. *)
BootSucceeds(c) ==
  /\ ~Flushing /\ c \in DOMAIN client
  /\ client[c].boot # "none" /\ client[c].committed
  /\ LET cs == [client EXCEPT ![c] = [@ EXCEPT !.phase = "ready", !.sub = TRUE,
                                               !.boot = "none", !.committed = FALSE]]
     IN  client' = Reachable(cs, sessions) /\ Settles(c, cs, byId, focused)
  /\ failedNotified' = failedNotified \ {client[c].name}
  /\ UNCHANGED <<single, disposed, sessions, paneVars, channelVars, clientSize, discovering,
                 approvalVars>>

\* A bug: the key index keeps the dropped panes.
DropLeavesKeys(n) ==
  /\ byId' = Restrict(byId, DOMAIN byId \ OfSession(byId, n))
  /\ KillChannelIf(focused \in OfSession(byId, n))
  /\ UNCHANGED <<byKey, nextId>>

\* A bug: ids start over when the table is empty.
DropRenumbers(n) ==
  LET gone == OfSession(byId, n)
  IN  /\ byId' = Restrict(byId, DOMAIN byId \ gone)
      /\ byKey' = Restrict(byKey, DOMAIN byKey \ {<<n, byId[id].pane>> : id \in gone})
      /\ KillChannelIf(focused \in gone)
      /\ nextId' = IF DOMAIN byId = gone THEN 1 ELSE nextId

(* dropSessionPanes: forget the session's panes without a word to the      *)
(* device.                                                                 *)
DropSessionPanes(n) ==
  LET gone == OfSession(byId, n)
  IN  /\ byId' = Restrict(byId, DOMAIN byId \ gone)
      /\ byKey' = Restrict(byKey, DOMAIN byKey \ {<<n, byId[id].pane>> : id \in gone})
      /\ KillChannelIf(focused \in gone)
      /\ UNCHANGED nextId

(* Any request of the bootstrap fails. *)
BootFails(c) ==
  /\ ~Flushing /\ c \in DOMAIN client
  /\ client[c].boot # "none"
  /\ LET n  == client[c].name
         f  == IF focused \in OfSession(byId, n) THEN 0 ELSE focused
         cs == [client EXCEPT ![c] = [@ EXCEPT !.phase = "failed", !.sub = FALSE,
                                               !.boot = "none", !.committed = FALSE]]
     IN  /\ DropSessionPanes(n)
         /\ client' = Reachable(cs, sessions)
         /\ Settles(c, cs, byId', f)
         /\ failedNotified' = failedNotified \cup {n}
  /\ UNCHANGED <<single, disposed, sessions, clientSize, discovering, approvalVars>>

-----------------------------------------------------------------------------
(* The refresh loop of a discovering bridge. *)

(* doRefresh up to discover(); before the bridge is ready it only re-arms. *)
RefreshTimer ==
  /\ timers > 0 /\ ~Flushing
  /\ IF ~disposed /\ phase = "ready"
     THEN timers' = timers - 1 /\ discovering' = discovering \cup {"refresh"}
     ELSE timers' = (IF disposed THEN timers - 1 ELSE timers) /\ UNCHANGED discovering
  /\ UNCHANGED <<single, phase, disposed, sessions, client, paneVars, focused, channelVars,
                 clientSize, pendingOps, approvalVars, failedNotified, shown>>

(* Targets without a ready client are booted; with none the loop re-arms.  *)
DiscoverRefresh(targets) ==
  /\ ~Flushing
  /\ "refresh" \in discovering
  /\ discovering' = discovering \ {"refresh"}
  /\ LET toBoot == {n \in targets : ~Ready(n)}
     IN  IF disposed THEN UNCHANGED <<sessions, client, timers>>
         ELSE /\ BootClients(toBoot, "refresh")
              /\ timers' = IF toBoot = {} THEN ArmRefresh ELSE timers
  /\ UNCHANGED <<single, phase, disposed, paneVars, focused, channelVars, clientSize,
                 pendingOps, approvalVars, failedNotified, shown>>

\* A bug: the early return of a failed discovery does not re-arm.
DiscoveryEndsLoop ==
  /\ ~Flushing
  /\ "refresh" \in discovering
  /\ discovering' = discovering \ {"refresh"}
  /\ UNCHANGED <<single, phase, disposed, sessions, client, paneVars, focused, channelVars,
                 clientSize, timers, pendingOps, approvalVars, failedNotified, shown>>

(* A discovery error keeps the current set and re-arms. *)
DiscoverRefreshFails ==
  /\ ~Flushing
  /\ "refresh" \in discovering
  /\ discovering' = discovering \ {"refresh"}
  /\ timers' = ArmRefresh
  /\ UNCHANGED <<single, phase, disposed, sessions, client, paneVars, focused, channelVars,
                 clientSize, pendingOps, approvalVars, failedNotified, shown>>

-----------------------------------------------------------------------------
(* Events of an open subscription (handleEvent). *)

(* pane_created of an unknown pane: it joins the board and the             *)
(* subscription is reopened to cover it.                                   *)
PaneCreated(c, p) ==
  /\ ~Flushing /\ c \in DOMAIN client
  /\ client[c].sub /\ client[c].resubs < MaxResubs
  /\ <<client[c].name, p>> \notin DOMAIN byKey
  /\ \E status \in [{p} -> Statuses] : EnsureSessions(client[c].name, {p}, status)
  /\ shown' = EmitBoard(shown, byId')
  /\ client' = [client EXCEPT ![c].resubs = @ + 1]
  /\ UNCHANGED <<single, phase, disposed, sessions, channelVars, clientSize, loopVars,
                 pendingOps, approvalVars, failedNotified>>

Known(c, p) == <<client[c].name, p>> \in DOMAIN byKey

(* pane_exited, pane_closed: endSession, then the board without it *)
PaneExited(c, p) ==
  /\ ~Flushing /\ c \in DOMAIN client
  /\ client[c].sub /\ Known(c, p)
  /\ LET id == byKey[<<client[c].name, p>>]
     IN  /\ ~byId[id].ended
         /\ byId' = [byId EXCEPT ![id].ended = TRUE]
         /\ KillChannelIf(focused = id)
         /\ shown' = EmitBoard(Restrict(shown, DOMAIN shown \ {id}), byId')
  /\ UNCHANGED <<single, phase, disposed, sessions, client, byKey, nextId, focused, clientSize,
                 loopVars, pendingOps, approvalVars, failedNotified>>

(* pane_agent_detected: the row is emitted again, of an ended pane too *)
AgentDetected(c, p) ==
  /\ ~Flushing /\ c \in DOMAIN client
  /\ client[c].sub /\ Known(c, p)
  /\ LET id == byKey[<<client[c].name, p>>]
     IN  shown' = Put(shown, id, byId[id].status)
  /\ UNCHANGED <<single, phase, disposed, sessions, client, paneVars, focused, channelVars,
                 clientSize, loopVars, pendingOps, approvalVars, failedNotified>>

(* pane.agent_status_changed: once per transition *)
StatusChanged(c, p, status) ==
  /\ ~Flushing /\ c \in DOMAIN client
  /\ client[c].sub /\ Known(c, p)
  /\ LET id == byKey[<<client[c].name, p>>]
     IN  /\ ~byId[id].ended /\ byId[id].status # status
         /\ byId' = [byId EXCEPT ![id].status = status]
         /\ shown' = Put(shown, id, status)
  /\ UNCHANGED <<single, phase, disposed, sessions, client, byKey, nextId, focused, channelVars,
                 clientSize, loopVars, pendingOps, approvalVars, failedNotified>>

-----------------------------------------------------------------------------
\* A bug: the loop over byId is not filtered by session.
EndsEverything(n) == Live(byId)

EndedWith(n) == OfSession(byId, n) \cap Live(byId)

\* A bug: the session map keeps a lost single target.
LossKeepsSession(n) == sessions

SessionsAfterLoss(n) ==
  IF single THEN Restrict(sessions, DOMAIN sessions \ {n}) ELSE sessions

(* onDaemonLost(c), with left resubscribes still chained: every pane of    *)
(* the session ends.  A single-target bridge goes back to idle and forgets *)
(* the session; a discovering one emits the board that is left.            *)
DaemonLost(c, left) ==
  LET n     == client[c].name
      ended == EndedWith(n)
      view  == Restrict(shown, DOMAIN shown \ ended)
      cs    == [client EXCEPT ![c] = [@ EXCEPT !.phase = "failed", !.sub = FALSE, !.resubs = left]]
  IN  /\ byId' = [id \in DOMAIN byId |->
                    IF id \in ended THEN [byId[id] EXCEPT !.ended = TRUE] ELSE byId[id]]
      /\ KillChannelIf(single \/ focused \in ended)
      /\ sessions' = SessionsAfterLoss(n)
      /\ client' = Reachable(cs, sessions')
      /\ phase' = IF single THEN "idle" ELSE phase
      /\ shown' = IF single THEN view ELSE EmitBoard(view, byId')
      /\ UNCHANGED <<single, disposed, byKey, nextId, focused, clientSize, loopVars, pendingOps,
                     approvalVars, failedNotified>>

(* The subscription's connection closes under the bridge. *)
SubClosed(c) ==
  /\ ~Flushing /\ c \in DOMAIN client
  /\ client[c].sub
  /\ DaemonLost(c, client[c].resubs)

(* A resubscribe opens the new connection and ends the old. *)
ResubSucceeds(c) ==
  /\ ~Flushing /\ c \in DOMAIN client
  /\ client[c].resubs > 0
  /\ client' = [client EXCEPT ![c].resubs = @ - 1, ![c].sub = TRUE]
  /\ UNCHANGED <<single, phase, disposed, sessions, paneVars, focused, channelVars, clientSize,
                 loopVars, pendingOps, approvalVars, failedNotified, shown>>

(* A failed resubscribe ends the old connection too and counts as a lost   *)
(* daemon; the chain goes on with the next one.                            *)
ResubFails(c) ==
  /\ ~Flushing /\ c \in DOMAIN client
  /\ client[c].resubs > 0
  /\ DaemonLost(c, client[c].resubs - 1)

-----------------------------------------------------------------------------
(* The control channel's process exits. *)
ChildExit ==
  /\ ~Flushing
  /\ channel # 0
  /\ KillChannelIf(TRUE)
  /\ UNCHANGED <<single, phase, disposed, sessions, client, paneVars, focused, clientSize,
                 loopVars, pendingOps, approvalVars, failedNotified, shown>>

(* The fresh snapshot of an approval: when the gate (gateApproval) lets it *)
(* through its keys are sent; a failed request or gate settles it.         *)
ApprovalSnapshot(id, ok) ==
  /\ ~Flushing
  /\ asking[id] > 0
  /\ asking' = [asking EXCEPT ![id] = @ - 1]
  /\ sending' = IF ok THEN [sending EXCEPT ![id] = @ + 1] ELSE sending
  /\ approvalsInFlight' = IF ok THEN approvalsInFlight ELSE approvalsInFlight \ {id}
  /\ UNCHANGED <<single, phase, disposed, sessions, client, paneVars, focused, channelVars,
                 clientSize, loopVars, pendingOps, failedNotified, shown>>

(* send_keys is answered, or fails *)
ApprovalSent(id) ==
  /\ ~Flushing
  /\ sending[id] > 0
  /\ sending' = [sending EXCEPT ![id] = @ - 1]
  /\ approvalsInFlight' = approvalsInFlight \ {id}
  /\ UNCHANGED <<single, phase, disposed, sessions, client, paneVars, focused, channelVars,
                 clientSize, loopVars, pendingOps, asking, failedNotified, shown>>

(* stop(): the requests already out still come back. *)
Stop ==
  /\ ~Flushing /\ ~disposed
  /\ disposed' = TRUE
  /\ KillChannelIf(TRUE)
  /\ client' = Reachable([c \in DOMAIN client |->
                            IF \E n \in DOMAIN sessions : sessions[n] = c
                            THEN [client[c] EXCEPT !.sub = FALSE] ELSE client[c]], sessions)
  /\ timers' = IF timers > 0 THEN timers - 1 ELSE 0
  /\ UNCHANGED <<single, phase, sessions, paneVars, focused, clientSize, discovering,
                 pendingOps, approvalVars, failedNotified, shown>>

Next ==
  \/ AttachIdle \/ AttachWhileStarting \/ AttachReady
  \/ \E targets \in SUBSET Names : DiscoverAttach(targets) \/ DiscoverRefresh(targets)
  \/ DiscoverAttachFails
  \/ DiscoverRefreshFails
  \/ RefreshTimer
  \/ \E op \in DeviceOps : Route(op)
  \/ FlushOp
  \/ \E c \in Clients :
       \/ BootSnapshot(c) \/ BootSucceeds(c) \/ BootFails(c)
       \/ SubClosed(c) \/ ResubSucceeds(c) \/ ResubFails(c)
       \/ \E p \in Panes :
            \/ PaneCreated(c, p) \/ PaneExited(c, p) \/ AgentDetected(c, p)
            \/ \E status \in Statuses : StatusChanged(c, p, status)
  \/ ChildExit
  \/ \E id \in DeviceIds :
       \/ \E ok \in BOOLEAN : ApprovalSnapshot(id, ok)
       \/ ApprovalSent(id)
  \/ Stop

Spec == Init /\ [][Next]_vars

-----------------------------------------------------------------------------
(* Type invariant of the bridge's state. *)
TypeOK ==
  /\ single \in BOOLEAN /\ disposed \in BOOLEAN
  /\ phase \in {"idle", "starting", "ready"}
  /\ DOMAIN client \subseteq Clients /\ client \in [DOMAIN client -> Client]
  /\ DOMAIN sessions \subseteq Names /\ sessions \in [DOMAIN sessions -> DOMAIN client]
  /\ DOMAIN byId \subseteq DeviceIds /\ byId \in [DOMAIN byId -> Entry]
  /\ DOMAIN byKey \subseteq Names \X Panes /\ byKey \in [DOMAIN byKey -> DOMAIN byId]
  /\ nextId \in 1..(MaxId + 1)
  /\ focused \in 0..MaxId
  /\ channel \in 0..MaxId /\ channelSize \in Sizes \cup {NoSize}
  /\ clientSize \in Sizes \cup {NoSize}
  /\ discovering \subseteq {"attach", "refresh"} /\ timers \in 0..1
  /\ pendingOps \in Seq(Op)
  /\ approvalsInFlight \subseteq DeviceIds
  /\ asking \in [DeviceIds -> Nat] /\ sending \in [DeviceIds -> Nat]
  /\ failedNotified \subseteq Names
  /\ DOMAIN shown \subseteq DeviceIds /\ shown \in [DOMAIN shown -> Statuses]

(* The control channel is always on the focused pane, the pane is live and *)
(* the terminal has the size the device last sent: keystrokes and output   *)
(* never belong to another pane than the one on screen.                    *)
ChannelFollowsFocus ==
  channel # 0 =>
    /\ channel = focused
    /\ channel \in Live(byId)
    /\ channelSize = WantedSize

(* A (session, pane) key names the only entry of that pane that can be     *)
(* live, so an event reaches the pane it is about and no live pane is      *)
(* beyond its daemon's events.                                             *)
KeyIndexSound ==
  /\ \A k \in DOMAIN byKey : byKey[k] \in DOMAIN byId /\ k = <<byId[byKey[k]].name, byId[byKey[k]].pane>>
  /\ \A id \in Live(byId) :
       LET k == <<byId[id].name, byId[id].pane>> IN k \in DOMAIN byKey /\ byKey[k] = id

(* A ready bridge with no bootstrap running has every live pane on the     *)
(* device, with its latest status, however the device came and went.       *)
BoardMirrors ==
  phase = "ready" /\ (\A c \in DOMAIN client : client[c].boot = "none") =>
    \A id \in Live(byId) : id \in DOMAIN shown /\ shown[id] = byId[id].status

(* At most one approval request is outstanding for a row, whatever ids     *)
(* come and go, and the row is released when it settles.                   *)
OneApprovalPerRow ==
  \A id \in DeviceIds :
    asking[id] + sending[id] = IF id \in approvalsInFlight THEN 1 ELSE 0

(* A discovering bridge that is ready has exactly one refresh pending in   *)
(* one of its forms: the loop neither dies nor doubles.                    *)
RefreshLoopAlive ==
  LET refreshes == timers + Cardinality(discovering \cap {"refresh"})
                     + (IF Booting("refresh") = {} THEN 0 ELSE 1)
  IN  /\ refreshes <= 1
      /\ phase = "ready" /\ ~single /\ ~disposed => refreshes = 1

(* A client that is attached is never bootstrapped again: start() runs     *)
(* only when no session is attached, and each bootstrap has a new client.  *)
BootsAreFresh ==
  /\ phase = "idle" => ~SomeAttached(client, sessions)
  /\ \A c \in DOMAIN client : client[c].boot # "none" => client[c].phase = "starting" /\ ~client[c].sub

(* A device id never changes its pane, an ended pane stays ended, and an   *)
(* id once handed out is never given out again.                            *)
IdsNeverReused ==
  [][/\ nextId' >= nextId
     /\ \A id \in DOMAIN byId' :
          /\ id < nextId'
          /\ IF id \in DOMAIN byId
             THEN /\ byId'[id].name = byId[id].name /\ byId'[id].pane = byId[id].pane
                  /\ byId[id].ended => byId'[id].ended
             ELSE id >= nextId]_vars

(* One daemon's failure, restart or late answer takes away panes of its    *)
(* own session only.                                                       *)
IsolatedFailure ==
  [][\A i, j \in Live(byId) :
       i \notin Live(byId') /\ j \notin Live(byId') => byId[i].name = byId[j].name]_vars

(* What bridge.ts says of onDaemonLost (F2b): ending the subscription      *)
(* there prevents a leak.  A resubscribe already chained opens another.    *)
NoLeakedSubscription ==
  \A c \in DOMAIN client : client[c].phase = "failed" => ~client[c].sub

(* What bridge.ts says of dropSessionPanes (it forgets panes "without     *)
(* emitting" because their bootstrap "never committed") and of a closed    *)
(* pane (it "drops off the device board"): the device has no row of a pane *)
(* that is gone.                                                           *)
NoGhostRow == \A id \in DOMAIN shown : id \in Live(byId)
=============================================================================
