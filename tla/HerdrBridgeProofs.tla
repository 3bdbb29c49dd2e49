-------------------------- MODULE HerdrBridgeProofs ---------------------------
(***************************************************************************)
(* Proofs about HerdrBridge, for any number of daemons, panes, clients and *)
(* device ids, of a single-target and of a discovering bridge.             *)
(*                                                                         *)
(* The inductive invariant has one conjunct per group of variables         *)
(* (ClientsOK, PanesOK, FocusOK, ViewOK, ApprovalsOK, QueueOK, LoopOK) and *)
(* two about the life cycle of either kind of bridge (SingleBridge and     *)
(* DiscoveringBridge): what may be running in which phase.                 *)
(***************************************************************************)
EXTENDS HerdrBridge, FiniteSetTheorems, TLAPS

(* The clients and the session map are typed, and a client whose bootstrap *)
(* runs is new: no subscription, no resubscribe.                           *)
ClientsOK ==
  /\ DOMAIN client \subseteq Clients /\ client \in [DOMAIN client -> Client]
  /\ DOMAIN sessions \subseteq Names /\ sessions \in [DOMAIN sessions -> DOMAIN client]
  /\ \A c \in DOMAIN client :
       client[c].boot # "none" =>
         client[c].phase = "starting" /\ ~client[c].sub /\ client[c].resubs = 0

(* The pane table is typed, every id in it has been handed out, and its    *)
(* key index is sound.                                                     *)
PanesOK ==
  /\ DOMAIN byId \subseteq DeviceIds /\ byId \in [DOMAIN byId -> Entry]
  /\ DOMAIN byKey \subseteq Names \X Panes /\ byKey \in [DOMAIN byKey -> DOMAIN byId]
  /\ nextId \in 1..(MaxId + 1)
  /\ \A id \in DOMAIN byId : id < nextId
  /\ KeyIndexSound

FocusOK ==
  /\ focused \in 0..MaxId
  /\ channel \in 0..MaxId /\ channelSize \in Sizes \cup {NoSize}
  /\ clientSize \in Sizes \cup {NoSize}
  /\ ChannelFollowsFocus

ViewOK ==
  /\ DOMAIN shown \subseteq DeviceIds /\ shown \in [DOMAIN shown -> Statuses]
  /\ BoardMirrors

ApprovalsOK ==
  /\ approvalsInFlight \subseteq DeviceIds
  /\ asking \in [DeviceIds -> Nat] /\ sending \in [DeviceIds -> Nat]
  /\ OneApprovalPerRow

(* What the device may queue: a size it names is one of its own. *)
DeviceOp == {op \in Op : op.kind = "size" => op.size \in Sizes}

QueueOK == pendingOps \in Seq(DeviceOp) /\ failedNotified \subseteq Names

(* The three forms a pending refresh has: an armed timer, an enumeration   *)
(* awaiting discover() and bootstraps that it started.                     *)
Armed       == timers = 1
Enumerating == "refresh" \in discovering
Refreshing  == Booting("refresh") # {}

LoopOK ==
  /\ discovering \subseteq {"attach", "refresh"} /\ timers \in 0..1
  /\ ~(Armed /\ Enumerating) /\ ~(Armed /\ Refreshing) /\ ~(Enumerating /\ Refreshing)
  /\ phase = "ready" /\ ~single /\ ~disposed => Armed \/ Enumerating \/ Refreshing

ModesOK == single \in BOOLEAN /\ disposed \in BOOLEAN /\ phase \in {"idle", "starting", "ready"}

(* A single-target bridge knows the sentinel target alone, never           *)
(* enumerates nor refreshes, and has no attached session when it is idle.  *)
SingleBridge ==
  single =>
    /\ discovering = {} /\ timers = 0 /\ Booting("refresh") = {}
    /\ \A c \in DOMAIN client : client[c].name = SingleName
    /\ DOMAIN sessions \subseteq {SingleName}
    /\ \A id \in DOMAIN byId : byId[id].name = SingleName
    /\ phase = "ready" => SingleName \in DOMAIN sessions
    /\ phase = "idle" => ~SomeAttached(client, sessions)

(* A discovering bridge has nothing before its first enumeration, boots    *)
(* for the ATTACH until it is ready and for the refresh loop after, and    *)
(* never forgets a session.                                                *)
DiscoveringBridge ==
  ~single =>
    /\ phase = "idle" => DOMAIN client = {} /\ DOMAIN sessions = {} /\ discovering = {} /\ timers = 0
    /\ phase = "starting" =>
         /\ timers = 0 /\ "refresh" \notin discovering /\ Booting("refresh") = {}
         /\ "attach" \in discovering => DOMAIN client = {} /\ DOMAIN sessions = {}
    /\ phase = "ready" => "attach" \notin discovering /\ Booting("attach") = {}
    /\ \A c \in DOMAIN client : client[c].name \in DOMAIN sessions
    /\ \A id \in DOMAIN byId : byId[id].name \in DOMAIN sessions

IInv ==
  /\ ModesOK /\ ClientsOK /\ PanesOK /\ FocusOK /\ ViewOK /\ ApprovalsOK /\ QueueOK
  /\ LoopOK /\ SingleBridge /\ DiscoveringBridge

-----------------------------------------------------------------------------
(* Operators. *)

LEMMA SingleNameIsName == SingleName \in Names
BY BridgeAssumption DEF SingleName

(* Dropping what nothing reaches takes no client that a session refers to  *)
(* or a bootstrap awaits, and changes none that stays.                     *)
LEMMA ReachableKeeps ==
  ASSUME NEW cs, NEW ss
  PROVE  /\ DOMAIN Reachable(cs, ss) \subseteq DOMAIN cs
         /\ Reachable(cs, ss) = [c \in DOMAIN Reachable(cs, ss) |-> cs[c]]
         /\ \A c \in DOMAIN cs :
              (cs[c].boot # "none" \/ \E n \in DOMAIN ss : ss[n] = c)
                => c \in DOMAIN Reachable(cs, ss)
BY DEF Reachable, Restrict

(* A new record r of client c, whatever becomes unreachable with it. *)
LEMMA ClientUpdated ==
  ASSUME ClientsOK, NEW c \in DOMAIN client, NEW r \in Client, r.boot = "none",
         DOMAIN sessions' \subseteq Names, sessions' \in [DOMAIN sessions' -> DOMAIN client],
         client' = Reachable([client EXCEPT ![c] = r], sessions')
  PROVE  /\ ClientsOK'
         /\ DOMAIN client' \subseteq DOMAIN client
         /\ \A d \in DOMAIN client' : client'[d] = IF d = c THEN r ELSE client[d]
         /\ \A e \in {"attach", "refresh"} : Booting(e)' = Booting(e) \ {c}
<1> DEFINE cs == [client EXCEPT ![c] = r]
           ss == sessions'
<1>1. /\ cs \in [DOMAIN client -> Client] /\ DOMAIN cs = DOMAIN client
      /\ \A d \in DOMAIN client : cs[d] = IF d = c THEN r ELSE client[d]
  BY DEF ClientsOK
<1>0. client' = Reachable(cs, ss) /\ ss = sessions'
  OBVIOUS
<1> HIDE DEF cs, ss
<1>2. /\ DOMAIN client' \subseteq DOMAIN cs
      /\ client' = [d \in DOMAIN client' |-> cs[d]]
      /\ \A d \in DOMAIN cs :
           (cs[d].boot # "none" \/ \E n \in DOMAIN ss : ss[n] = d) => d \in DOMAIN client'
  <2>1. /\ DOMAIN Reachable(cs, ss) \subseteq DOMAIN cs
        /\ Reachable(cs, ss) = [d \in DOMAIN Reachable(cs, ss) |-> cs[d]]
        /\ \A d \in DOMAIN cs :
             (cs[d].boot # "none" \/ \E n \in DOMAIN ss : ss[n] = d) => d \in DOMAIN Reachable(cs, ss)
    BY ReachableKeeps
  <2> QED  BY <1>0, <2>1
<1>3. /\ DOMAIN client' \subseteq DOMAIN client
      /\ \A d \in DOMAIN client' : client'[d] = IF d = c THEN r ELSE client[d]
  BY <1>1, <1>2
<1>4. DOMAIN client' \subseteq Clients /\ client' \in [DOMAIN client' -> Client]
  BY <1>1, <1>2, <1>3 DEF ClientsOK
<1>5. sessions' \in [DOMAIN sessions' -> DOMAIN client']
  BY <1>0, <1>1, <1>2
<1>6. ClientsOK'
  BY <1>3, <1>4, <1>5 DEF ClientsOK
<1>7. ASSUME NEW e \in {"attach", "refresh"} PROVE Booting(e)' = Booting(e) \ {c}
  <2>1. \A d \in Booting(e) \ {c} : d \in DOMAIN client' /\ client'[d].boot = e
    BY <1>1, <1>2, <1>3 DEF Booting
  <2>2. \A d \in DOMAIN client' : client'[d].boot = e => d \in Booting(e) /\ d # c
    BY <1>3 DEF Booting
  <2>3. Booting(e)' = {d \in DOMAIN client' : client'[d].boot = e}
    BY DEF Booting
  <2> QED  BY <2>1, <2>2, <2>3
<1> QED  BY <1>3, <1>6, <1>7

(* ensureClient and bootstrapSession for the targets: new clients, and the *)
(* bootstraps already running go on.                                       *)
LEMMA ClientsBooted ==
  ASSUME ClientsOK, NEW targets \in SUBSET Names, NEW e \in {"attach", "refresh"},
         BootClients(targets, e)
  PROVE  /\ ClientsOK'
         /\ DOMAIN sessions' = DOMAIN sessions \cup targets
         /\ \A c \in DOMAIN client' :
              \/ c \in DOMAIN client /\ client'[c] = client[c]
              \/ c \notin DOMAIN client /\ client'[c].boot = e /\ client'[c].name \in targets
         /\ \A c \in DOMAIN client : client[c].boot # "none" => c \in DOMAIN client'
         /\ targets # {} => Booting(e)' # {}
<1>1. PICK new \in Injection(targets, Clients \ DOMAIN client) :
        LET ss == [n \in DOMAIN sessions \cup targets |->
                     IF n \in targets THEN new[n] ELSE sessions[n]]
            fresh(n) == [name |-> n, phase |-> "starting", sub |-> FALSE,
                         boot |-> e, committed |-> FALSE, resubs |-> 0]
            cs == [c \in DOMAIN client \cup Range(new) |->
                     IF c \in Range(new) THEN fresh(CHOOSE n \in targets : new[n] = c)
                     ELSE client[c]]
        IN  sessions' = ss /\ client' = Reachable(cs, ss)
  BY DEF BootClients
<1> DEFINE ss == [n \in DOMAIN sessions \cup targets |->
                    IF n \in targets THEN new[n] ELSE sessions[n]]
           owner(c) == CHOOSE n \in targets : new[n] = c
           fresh(n) == [name |-> n, phase |-> "starting", sub |-> FALSE,
                        boot |-> e, committed |-> FALSE, resubs |-> 0]
           cs == [c \in DOMAIN client \cup Range(new) |->
                    IF c \in Range(new) THEN fresh(owner(c)) ELSE client[c]]
<1>2. /\ new \in [targets -> Clients \ DOMAIN client]
      /\ Range(new) \subseteq Clients \ DOMAIN client
      /\ \A n \in targets : new[n] \in Range(new)
      /\ \A c \in Range(new) : owner(c) \in targets
  BY DEF Injection, Range
<1>3. \A n \in targets : fresh(n) \in Client
  BY BridgeAssumption DEF Client
<1>4. /\ DOMAIN cs = DOMAIN client \cup Range(new) /\ cs \in [DOMAIN cs -> Client]
      /\ \A c \in DOMAIN client : cs[c] = client[c]
      /\ \A c \in Range(new) : /\ cs[c].boot = e /\ cs[c].name \in targets
                               /\ cs[c].phase = "starting" /\ ~cs[c].sub /\ cs[c].resubs = 0
  BY <1>2, <1>3 DEF ClientsOK
<1>5. /\ DOMAIN ss = DOMAIN sessions \cup targets /\ ss \in [DOMAIN ss -> DOMAIN cs]
      /\ \A n \in targets : ss[n] = new[n]
  BY <1>2, <1>4 DEF ClientsOK
<1>6. sessions' = ss /\ client' = Reachable(cs, ss)
  BY <1>1
<1> HIDE DEF ss, cs, fresh, owner
<1>7. /\ DOMAIN client' \subseteq DOMAIN cs
      /\ client' = [c \in DOMAIN client' |-> cs[c]]
      /\ \A c \in DOMAIN cs :
           (cs[c].boot # "none" \/ \E n \in DOMAIN ss : ss[n] = c) => c \in DOMAIN client'
  BY <1>6, ReachableKeeps
<1>8. \A c \in DOMAIN client' : client'[c] = cs[c] /\ (c \in DOMAIN client \/ c \in Range(new))
  BY <1>4, <1>7
<1>9. ClientsOK'
  <2>1. DOMAIN client' \subseteq Clients /\ client' \in [DOMAIN client' -> Client]
    BY <1>2, <1>4, <1>7 DEF ClientsOK
  <2>2. DOMAIN sessions' \subseteq Names /\ sessions' \in [DOMAIN sessions' -> DOMAIN client']
    BY <1>5, <1>6, <1>7 DEF ClientsOK
  <2>3. \A c \in DOMAIN client' :
          client'[c].boot # "none" =>
            client'[c].phase = "starting" /\ ~client'[c].sub /\ client'[c].resubs = 0
    BY <1>4, <1>8 DEF ClientsOK
  <2> QED  BY <2>1, <2>2, <2>3 DEF ClientsOK
<1>10. DOMAIN sessions' = DOMAIN sessions \cup targets
  BY <1>5, <1>6
<1>11. \A c \in DOMAIN client' :
         \/ c \in DOMAIN client /\ client'[c] = client[c]
         \/ c \notin DOMAIN client /\ client'[c].boot = e /\ client'[c].name \in targets
  BY <1>2, <1>4, <1>8
<1>12. \A c \in DOMAIN client : client[c].boot # "none" => c \in DOMAIN client'
  BY <1>4, <1>7
<1>13. ASSUME targets # {} PROVE Booting(e)' # {}
  <2>1. PICK n \in targets : TRUE
    BY <1>13
  <2>2. new[n] \in DOMAIN client' /\ client'[new[n]].boot = e
    BY <1>2, <1>4, <1>5, <1>7, <1>8
  <2> QED  BY <2>2 DEF Booting
<1> QED  BY <1>9, <1>10, <1>11, <1>12, <1>13

(* ensureSession of the panes of session n: every entry stays, the new     *)
(* ones are of n and have ids not given out before.                        *)
LEMMA SessionsEnsured ==
  ASSUME PanesOK, NEW n \in Names, NEW ps \in SUBSET Panes, NEW status \in [ps -> Statuses],
         focused \in 0..MaxId, EnsureSessions(n, ps, status)
  PROVE  /\ PanesOK'
         /\ nextId' >= nextId
         /\ DOMAIN byId \subseteq DOMAIN byId'
         /\ \A id \in DOMAIN byId : byId'[id] = byId[id]
         /\ \A id \in DOMAIN byId' \ DOMAIN byId : id >= nextId /\ byId'[id].name = n
         /\ focused' \in 0..MaxId /\ (focused # 0 => focused' = focused)
<1> DEFINE fresh == ps \ KnownPanes(n, ps)
<1>0. PICK next \in nextId..(MaxId + 1) :
        \E id \in Bijection(fresh, nextId..(next - 1)) :
        /\ nextId' = next
        /\ byId' = [i \in DOMAIN byId \cup (nextId..(next - 1)) |->
                      IF i < nextId THEN byId[i]
                      ELSE LET p == CHOOSE p \in fresh : id[p] = i
                           IN  [name |-> n, pane |-> p, status |-> status[p], ended |-> FALSE]]
        /\ byKey' = [k \in DOMAIN byKey \cup ({n} \X fresh) |->
                       IF k \in {n} \X fresh THEN id[k[2]] ELSE byKey[k]]
        /\ focused' = IF focused = 0 /\ fresh # {} THEN nextId ELSE focused
  BY DEF EnsureSessions
<1>1. PICK id \in Bijection(fresh, nextId..(next - 1)) :
        /\ nextId' = next
        /\ byId' = [i \in DOMAIN byId \cup (nextId..(next - 1)) |->
                      IF i < nextId THEN byId[i]
                      ELSE LET p == CHOOSE p \in fresh : id[p] = i
                           IN  [name |-> n, pane |-> p, status |-> status[p], ended |-> FALSE]]
        /\ byKey' = [k \in DOMAIN byKey \cup ({n} \X fresh) |->
                       IF k \in {n} \X fresh THEN id[k[2]] ELSE byKey[k]]
        /\ focused' = IF focused = 0 /\ fresh # {} THEN nextId ELSE focused
  BY <1>0
<1> DEFINE new      == nextId..(next - 1)
           owner(i) == CHOOSE p \in fresh : id[p] = i
<1>2. /\ id \in [fresh -> new]
      /\ \A i \in new : owner(i) \in fresh /\ id[owner(i)] = i
      /\ \A p \in fresh : id[p] \in new /\ owner(id[p]) = p
  BY DEF Bijection, Injection, Surjection, IsInjective
<1>3. /\ nextId \in 1..(MaxId + 1) /\ next \in 1..(MaxId + 1) /\ nextId <= next /\ MaxId \in Nat
      /\ new \subseteq DeviceIds /\ \A i \in new : i >= nextId /\ i < next
      /\ \A i \in DOMAIN byId : i < nextId /\ i \in Nat
  BY BridgeAssumption DEF PanesOK, DeviceIds
<1>4. /\ DOMAIN byId' = DOMAIN byId \cup new
      /\ \A i \in DOMAIN byId : byId'[i] = byId[i]
      /\ \A i \in new : byId'[i] = [name |-> n, pane |-> owner(i), status |-> status[owner(i)],
                                     ended |-> FALSE]
  BY <1>1, <1>3
<1>5. /\ DOMAIN byKey' = DOMAIN byKey \cup ({n} \X fresh)
      /\ \A p \in fresh : byKey'[<<n, p>>] = id[p]
      /\ \A k \in DOMAIN byKey \ ({n} \X fresh) : byKey'[k] = byKey[k]
  BY <1>1
<1>6. \A p \in fresh : p \in Panes /\ status[p] \in Statuses
                     /\ (<<n, p>> \in DOMAIN byKey => byKey[<<n, p>>] \notin Live(byId))
  BY DEF KnownPanes
<1>7. nextId' = next /\ focused' = IF focused = 0 /\ fresh # {} THEN nextId ELSE focused
  BY <1>1
<1> HIDE DEF fresh, new, owner
<1>8. DOMAIN byId' \subseteq DeviceIds /\ byId' \in [DOMAIN byId' -> Entry]
  <2>1. \A i \in new : byId'[i] \in Entry
    <3> TAKE i \in new
    <3>1. owner(i) \in Panes /\ status[owner(i)] \in Statuses
      BY <1>2, <1>6
    <3>2. byId'[i] = [name |-> n, pane |-> owner(i), status |-> status[owner(i)], ended |-> FALSE]
      BY <1>4
    <3> QED  BY <3>1, <3>2 DEF Entry
  <2>2. byId' = [i \in DOMAIN byId' |-> byId'[i]]
    BY <1>1
  <2> QED  BY <1>3, <1>4, <2>1, <2>2 DEF PanesOK
<1>9. DOMAIN byKey' \subseteq Names \X Panes /\ byKey' \in [DOMAIN byKey' -> DOMAIN byId']
  <2>1. \A k \in {n} \X fresh : byKey'[k] \in new /\ k \in Names \X Panes
    BY <1>2, <1>5, <1>6
  <2>2. byKey' = [k \in DOMAIN byKey' |-> byKey'[k]]
    BY <1>1
  <2> QED  BY <1>4, <1>5, <2>1, <2>2 DEF PanesOK
<1>10. KeyIndexSound'
  <2>1. ASSUME NEW k \in DOMAIN byKey'
        PROVE  byKey'[k] \in DOMAIN byId' /\ k = <<byId'[byKey'[k]].name, byId'[byKey'[k]].pane>>
    <3>1. CASE k \in {n} \X fresh
      <4>1. PICK p \in fresh : k = <<n, p>>
        BY <3>1
      <4> QED  BY <1>2, <1>4, <1>5, <4>1
    <3>2. CASE k \notin {n} \X fresh
      BY <1>4, <1>5, <3>2 DEF PanesOK, KeyIndexSound
    <3> QED  BY <3>1, <3>2
  <2>2. ASSUME NEW i \in Live(byId')
        PROVE  LET k == <<byId'[i].name, byId'[i].pane>> IN k \in DOMAIN byKey' /\ byKey'[k] = i
    <3>1. CASE i \in new
      BY <1>2, <1>4, <1>5, <3>1
    <3>2. CASE i \notin new
      <4> DEFINE k == <<byId[i].name, byId[i].pane>>
      <4>1. i \in Live(byId) /\ byId'[i] = byId[i]
        BY <1>4, <3>2 DEF Live
      <4>2. k \in DOMAIN byKey /\ byKey[k] = i
        BY <4>1 DEF PanesOK, KeyIndexSound
      <4>3. k \notin {n} \X fresh
        BY <1>6, <4>1, <4>2
      <4> QED  BY <1>5, <4>1, <4>2, <4>3
    <3> QED  BY <3>1, <3>2
  <2> QED  BY <2>1, <2>2 DEF KeyIndexSound
<1>11. nextId' \in 1..(MaxId + 1) /\ \A i \in DOMAIN byId' : i < nextId'
  BY <1>3, <1>4, <1>7
<1>12. focused' \in 0..MaxId /\ (focused # 0 => focused' = focused)
  <2>1. ASSUME fresh # {} PROVE nextId \in 0..MaxId
    <3>1. PICK p \in fresh : TRUE
      BY <2>1
    <3>2. id[p] \in new
      BY <1>2
    <3>3. id[p] \in 1..MaxId /\ id[p] >= nextId
      BY <1>3, <3>2 DEF DeviceIds
    <3> QED  BY <1>3, <3>3
  <2> QED  BY <1>7, <2>1
<1> QED
  <2>1. \A i \in DOMAIN byId' \ DOMAIN byId : i >= nextId /\ byId'[i].name = n
    BY <1>3, <1>4
  <2> QED  BY <1>3, <1>4, <1>7, <1>8, <1>9, <1>10, <1>11, <1>12, <2>1 DEF PanesOK

(* dropSessionPanes: the panes of session n go, with their keys, and       *)
(* nothing else does.                                                      *)
LEMMA SessionDropped ==
  ASSUME PanesOK, NEW n, DropSessionPanes(n)
  PROVE  /\ PanesOK' /\ nextId' = nextId
         /\ DOMAIN byId' = DOMAIN byId \ OfSession(byId, n)
         /\ \A id \in DOMAIN byId' : byId'[id] = byId[id]
<1> DEFINE gone == OfSession(byId, n)
           keys == {<<n, byId[id].pane>> : id \in gone}
<1>1. /\ DOMAIN byId' = DOMAIN byId \ gone /\ \A id \in DOMAIN byId' : byId'[id] = byId[id]
      /\ byId' = [id \in DOMAIN byId' |-> byId[id]]
      /\ DOMAIN byKey' = DOMAIN byKey \ keys /\ \A k \in DOMAIN byKey' : byKey'[k] = byKey[k]
      /\ byKey' = [k \in DOMAIN byKey' |-> byKey[k]]
      /\ nextId' = nextId
  BY DEF DropSessionPanes, Restrict
<1>2. \A k \in DOMAIN byKey \ keys : byKey[k] \in DOMAIN byId \ gone
  BY DEF PanesOK, KeyIndexSound, OfSession
<1>3. \A id \in DOMAIN byId \ gone : <<byId[id].name, byId[id].pane>> \notin keys
  BY DEF OfSession
<1> HIDE DEF gone, keys
<1>4. byId' \in [DOMAIN byId' -> Entry] /\ byKey' \in [DOMAIN byKey' -> DOMAIN byId']
  BY <1>1, <1>2 DEF PanesOK
<1>5. KeyIndexSound'
  BY <1>1, <1>2, <1>3 DEF PanesOK, KeyIndexSound, Live
<1> QED
  <2>1. DOMAIN byId' = DOMAIN byId \ OfSession(byId, n)
    BY <1>1 DEF gone
  <2> QED  BY <1>1, <1>4, <1>5, <2>1 DEF PanesOK

(* emitBoard tells the device of every live pane of b. *)
LEMMA BoardEmitted ==
  ASSUME NEW view, DOMAIN view \subseteq DeviceIds, view \in [DOMAIN view -> Statuses],
         NEW b, DOMAIN b \subseteq DeviceIds, b \in [DOMAIN b -> Entry]
  PROVE  LET after == EmitBoard(view, b)
         IN  /\ DOMAIN after \subseteq DeviceIds /\ after \in [DOMAIN after -> Statuses]
             /\ \A id \in Live(b) : id \in DOMAIN after /\ after[id] = b[id].status
BY DEF EmitBoard, Live, Entry

(* seedFocus keeps the focus on a live pane. *)
LEMMA FocusSeeded ==
  ASSUME NEW f \in 0..MaxId, NEW b, DOMAIN b \subseteq DeviceIds, NEW g \in SeedFocus(f, b)
  PROVE  g \in 0..MaxId /\ (f \in Live(b) => g = f)
BY BridgeAssumption DEF SeedFocus, Live, DeviceIds

(* The number RefreshLoopAlive counts. *)
LEMMA EnumerationsCounted ==
  Cardinality(discovering \cap {"refresh"}) = IF "refresh" \in discovering THEN 1 ELSE 0
<1>1. CASE "refresh" \in discovering
  <2>1. discovering \cap {"refresh"} = {"refresh"}
    BY <1>1
  <2> QED  BY <1>1, <2>1, FS_Singleton
<1>2. CASE "refresh" \notin discovering
  <2>1. discovering \cap {"refresh"} = {}
    BY <1>2
  <2> QED  BY <1>2, <2>1, FS_EmptySet
<1> QED  BY <1>1, <1>2

-----------------------------------------------------------------------------
(* The inductive invariant holds initially and says what the runs check.   *)

LEMMA InitInv == Init => IInv
<1> SUFFICES ASSUME Init PROVE IInv
  OBVIOUS
<1> USE BridgeAssumption
<1>1. /\ DOMAIN client = {} /\ DOMAIN sessions = {} /\ DOMAIN byId = {} /\ DOMAIN byKey = {}
      /\ DOMAIN shown = {} /\ \A e : Booting(e) = {}
      /\ client = [x \in {} |-> 0] /\ sessions = [x \in {} |-> 0] /\ byId = [x \in {} |-> 0]
      /\ byKey = [x \in {} |-> 0] /\ shown = [x \in {} |-> 0]
  BY DEF Init, EmptyMap, Booting
<1>2. ModesOK
  BY DEF Init, ModesOK
<1>3. ClientsOK
  BY <1>1 DEF ClientsOK
<1>4. PanesOK
  BY <1>1 DEF Init, PanesOK, KeyIndexSound, Live
<1>5. FocusOK
  BY DEF Init, FocusOK, ChannelFollowsFocus
<1>6. ViewOK
  BY <1>1 DEF ViewOK, BoardMirrors, Live
<1>7. ApprovalsOK
  BY DEF Init, ApprovalsOK, OneApprovalPerRow, DeviceIds
<1>8. QueueOK
  BY DEF Init, QueueOK
<1>9. LoopOK
  BY <1>1 DEF Init, LoopOK, Armed, Enumerating, Refreshing
<1>10. SingleBridge
  BY <1>1 DEF Init, SingleBridge, SomeAttached
<1>11. DiscoveringBridge
  BY <1>1 DEF Init, DiscoveringBridge
<1> QED
  BY <1>2, <1>3, <1>4, <1>5, <1>6, <1>7, <1>8, <1>9, <1>10, <1>11 DEF IInv

LEMMA InvTypes == IInv => TypeOK
<1> SUFFICES ASSUME IInv PROVE TypeOK
  OBVIOUS
<1>1. pendingOps \in Seq(Op)
  <2>1. DeviceOp \subseteq Op
    BY DEF DeviceOp
  <2> QED  BY <2>1 DEF IInv, QueueOK
<1>2. /\ DOMAIN client \subseteq Clients /\ client \in [DOMAIN client -> Client]
      /\ DOMAIN sessions \subseteq Names /\ sessions \in [DOMAIN sessions -> DOMAIN client]
  BY DEF IInv, ClientsOK
<1>3. /\ DOMAIN byId \subseteq DeviceIds /\ byId \in [DOMAIN byId -> Entry]
      /\ DOMAIN byKey \subseteq Names \X Panes /\ byKey \in [DOMAIN byKey -> DOMAIN byId]
      /\ nextId \in 1..(MaxId + 1)
  BY DEF IInv, PanesOK
<1>4. single \in BOOLEAN /\ disposed \in BOOLEAN /\ phase \in {"idle", "starting", "ready"}
  BY DEF IInv, ModesOK
<1> QED
  BY <1>1, <1>2, <1>3, <1>4 DEF IInv, FocusOK, ViewOK, ApprovalsOK, QueueOK, LoopOK, TypeOK

LEMMA InvIsSound ==
  IInv => /\ ChannelFollowsFocus /\ OneApprovalPerRow /\ KeyIndexSound
          /\ BoardMirrors /\ RefreshLoopAlive /\ BootsAreFresh
<1> SUFFICES ASSUME IInv
             PROVE  /\ ChannelFollowsFocus /\ OneApprovalPerRow /\ KeyIndexSound
                    /\ BoardMirrors /\ RefreshLoopAlive /\ BootsAreFresh
  OBVIOUS
<1>1. ChannelFollowsFocus /\ OneApprovalPerRow /\ KeyIndexSound /\ BoardMirrors
  BY DEF IInv, FocusOK, ApprovalsOK, PanesOK, ViewOK
<1>2. RefreshLoopAlive
  BY EnumerationsCounted DEF IInv, LoopOK, RefreshLoopAlive, Armed, Enumerating, Refreshing
<1>3. BootsAreFresh
  <2>1. phase = "idle" => ~SomeAttached(client, sessions)
    BY DEF IInv, ModesOK, SingleBridge, DiscoveringBridge, SomeAttached
  <2> QED  BY <2>1 DEF IInv, ClientsOK, BootsAreFresh
<1> QED  BY <1>1, <1>2, <1>3

(* A group whose variables a step leaves alone is as it was. *)
LEMMA Untouched ==
  ASSUME IInv
  PROVE  /\ UNCHANGED <<single, phase, disposed>> => ModesOK'
         /\ UNCHANGED <<client, sessions>> => ClientsOK'
         /\ UNCHANGED paneVars => PanesOK'
         /\ UNCHANGED <<focused, channelVars, clientSize, byId>> => FocusOK'
         /\ UNCHANGED <<shown, byId, phase, client>> => ViewOK'
         /\ UNCHANGED approvalVars => ApprovalsOK'
         /\ UNCHANGED <<pendingOps, failedNotified>> => QueueOK'
         /\ UNCHANGED <<loopVars, phase, single, disposed>> /\ Booting("refresh")' = Booting("refresh")
              => LoopOK'
<1>1. UNCHANGED <<single, phase, disposed>> => ModesOK'
  BY DEF IInv, ModesOK
<1>2. UNCHANGED <<client, sessions>> => ClientsOK'
  BY DEF IInv, ClientsOK
<1>3. UNCHANGED paneVars => PanesOK'
  BY DEF IInv, PanesOK, KeyIndexSound, Live, paneVars
<1>4. UNCHANGED <<focused, channelVars, clientSize, byId>> => FocusOK'
  BY DEF IInv, FocusOK, ChannelFollowsFocus, Live, WantedSize, channelVars
<1>5. UNCHANGED <<shown, byId, phase, client>> => ViewOK'
  BY DEF IInv, ViewOK, BoardMirrors, Live
<1>6. UNCHANGED approvalVars => ApprovalsOK'
  BY DEF IInv, ApprovalsOK, OneApprovalPerRow, approvalVars
<1>7. UNCHANGED <<pendingOps, failedNotified>> => QueueOK'
  BY DEF IInv, QueueOK
<1>8. UNCHANGED <<loopVars, phase, single, disposed>> /\ Booting("refresh")' = Booting("refresh")
        => LoopOK'
  BY DEF IInv, LoopOK, Armed, Enumerating, Refreshing, loopVars
<1> QED  BY <1>1, <1>2, <1>3, <1>4, <1>5, <1>6, <1>7, <1>8

(* The life cycle of a bridge does not change when its clients and panes   *)
(* are the same or fewer, under the same names.                            *)
LEMMA LifeCycleStays ==
  ASSUME IInv, UNCHANGED <<single, phase, discovering, timers, sessions>>,
         DOMAIN client' \subseteq DOMAIN client,
         \A c \in DOMAIN client' : client'[c].name = client[c].name,
         \A e \in {"attach", "refresh"} : Booting(e)' = Booting(e),
         \A id \in DOMAIN byId' :
           \/ id \in DOMAIN byId /\ byId'[id].name = byId[id].name
           \/ \E c \in DOMAIN client : byId'[id].name = client[c].name,
         \A n \in DOMAIN sessions :
           client'[sessions[n]].phase = "ready" => client[sessions[n]].phase = "ready"
  PROVE  SingleBridge' /\ DiscoveringBridge'
<1>1. SingleBridge'
  <2> SUFFICES ASSUME single PROVE SingleBridge'
    BY DEF SingleBridge
  <2>1. /\ discovering = {} /\ timers = 0 /\ Booting("refresh") = {}
        /\ \A c \in DOMAIN client : client[c].name = SingleName
        /\ DOMAIN sessions \subseteq {SingleName}
        /\ \A id \in DOMAIN byId : byId[id].name = SingleName
        /\ phase = "ready" => SingleName \in DOMAIN sessions
        /\ phase = "idle" => ~SomeAttached(client, sessions)
    BY DEF IInv, SingleBridge
  <2>2. phase = "idle" => ~SomeAttached(client', sessions')
    BY <2>1 DEF SomeAttached
  <2> QED  BY <2>1, <2>2 DEF SingleBridge
<1>2. DiscoveringBridge'
  <2> SUFFICES ASSUME ~single PROVE DiscoveringBridge'
    BY DEF DiscoveringBridge
  <2>1. /\ phase = "idle" => DOMAIN client = {} /\ DOMAIN sessions = {} /\ discovering = {} /\ timers = 0
        /\ phase = "starting" =>
             /\ timers = 0 /\ "refresh" \notin discovering /\ Booting("refresh") = {}
             /\ "attach" \in discovering => DOMAIN client = {} /\ DOMAIN sessions = {}
        /\ phase = "ready" => "attach" \notin discovering /\ Booting("attach") = {}
        /\ \A c \in DOMAIN client : client[c].name \in DOMAIN sessions
        /\ \A id \in DOMAIN byId : byId[id].name \in DOMAIN sessions
    BY DEF IInv, DiscoveringBridge
  <2> QED  BY <2>1 DEF DiscoveringBridge
<1> QED  BY <1>1, <1>2

-----------------------------------------------------------------------------
(* Operations of the device. *)

(* A ready bridge has a client for the session of every pane it lists.     *)
LEMMA ReadyHasSession ==
  ASSUME IInv, phase = "ready", NEW id \in DOMAIN byId
  PROVE  byId[id].name \in DOMAIN sessions
<1>1. CASE single
  BY <1>1 DEF IInv, SingleBridge
<1>2. CASE ~single
  BY <1>2 DEF IInv, DiscoveringBridge
<1> QED  BY <1>1, <1>2

(* The channel opened for a live pane that is, or becomes, the focus. *)
LEMMA ChannelOpened ==
  ASSUME IInv, phase = "ready", NEW id \in Live(byId), focused' = id, OpenChannel(id),
         UNCHANGED <<clientSize, byId>>
  PROVE  FocusOK'
<1>1. id \in 0..MaxId /\ byId[id].name \in DOMAIN sessions
  BY BridgeAssumption, ReadyHasSession DEF IInv, PanesOK, Live, DeviceIds
<1>2. \/ channel' = id /\ channelSize' = WantedSize
      \/ channel' = 0 /\ channelSize' = NoSize
  BY <1>1 DEF OpenChannel
<1>3. WantedSize' = WantedSize /\ WantedSize \in Sizes /\ Live(byId)' = Live(byId)
  BY BridgeAssumption DEF IInv, FocusOK, WantedSize, Live
<1> QED  BY <1>1, <1>2, <1>3, BridgeAssumption DEF IInv, FocusOK, ChannelFollowsFocus

(* The board emitted for the panes as they are, over any rows the device   *)
(* may have.                                                               *)
LEMMA ViewRefreshed ==
  ASSUME IInv, NEW view, DOMAIN view \subseteq DeviceIds, view \in [DOMAIN view -> Statuses],
         PanesOK', shown' = EmitBoard(view, byId')
  PROVE  ViewOK'
<1> DEFINE b     == byId'
           after == EmitBoard(view, b)
<1>1. DOMAIN b \subseteq DeviceIds /\ b \in [DOMAIN b -> Entry] /\ shown' = after
  BY DEF PanesOK
<1> HIDE DEF b
<1>2. /\ DOMAIN after \subseteq DeviceIds /\ after \in [DOMAIN after -> Statuses]
      /\ \A id \in Live(b) : id \in DOMAIN after /\ after[id] = b[id].status
  BY <1>1, BoardEmitted
<1> HIDE DEF after
<1>3. /\ DOMAIN shown' \subseteq DeviceIds /\ shown' \in [DOMAIN shown' -> Statuses]
      /\ \A id \in Live(b) : id \in DOMAIN shown' /\ shown'[id] = b[id].status
  BY <1>1, <1>2
<1>4. /\ DOMAIN shown' \subseteq DeviceIds /\ shown' \in [DOMAIN shown' -> Statuses]
      /\ \A id \in Live(byId') : id \in DOMAIN shown' /\ shown'[id] = byId'[id].status
  BY <1>3 DEF b
<1> QED  BY <1>4 DEF ViewOK, BoardMirrors

LEMMA PerformStep ==
  ASSUME IInv, phase = "ready", NEW op \in DeviceOp, Perform(op), pendingOps' \in Seq(DeviceOp),
         UNCHANGED <<single, phase, disposed, sessions, client, paneVars, loopVars, failedNotified>>
  PROVE  IInv'
<1>1. ModesOK' /\ ClientsOK' /\ PanesOK'
  BY Untouched
<1>2. QueueOK'
  BY DEF IInv, QueueOK
<1>3. UNCHANGED <<byId, byKey, nextId, discovering, timers>>
  BY DEF paneVars, loopVars
<1>4. \A e \in {"attach", "refresh"} : Booting(e)' = Booting(e)
  BY DEF Booting
<1>5. LoopOK' /\ SingleBridge' /\ DiscoveringBridge'
  BY <1>3, <1>4, Untouched, LifeCycleStays
<1>6. FocusOK' /\ ViewOK' /\ ApprovalsOK'
  <2>1. CASE op.kind = "resync" /\ DoResync
    <3>1. ApprovalsOK'
      BY <2>1, Untouched DEF DoResync
    <3>2. CASE focused \in Live(byId) /\ channel # 0
      <4>1. FocusOK'
        BY <1>3, <2>1, <3>2, ChannelOpened DEF DoResync
      <4>2. ViewOK'
        BY <1>3, <2>1, <3>2, Untouched DEF DoResync
      <4> QED  BY <3>1, <4>1, <4>2
    <3>3. CASE ~(focused \in Live(byId) /\ channel # 0)
      <4>1. FocusOK'
        BY <1>3, <2>1, <3>3, Untouched DEF DoResync
      <4>2. shown' = EmitBoard(shown, byId')
        BY <1>3, <2>1, <3>3 DEF DoResync
      <4>3. DOMAIN shown \subseteq DeviceIds /\ shown \in [DOMAIN shown -> Statuses]
        BY DEF IInv, ViewOK
      <4>4. ViewOK'
        BY <1>1, <4>2, <4>3, ViewRefreshed
      <4> QED  BY <3>1, <4>1, <4>4
    <3> QED  BY <3>2, <3>3
  <2>2. CASE op.kind = "focus" /\ DoFocus(op.id)
    <3>1. FocusOK'
      BY <1>3, <2>2, ChannelOpened DEF DoFocus
    <3> QED  BY <1>3, <2>2, <3>1, Untouched DEF DoFocus
  <2>3. CASE op.kind = "size" /\ DoSize(op.size)
    <3>1. op.size \in Sizes /\ Live(byId)' = Live(byId)
      BY <1>3, <2>3 DEF DeviceOp, Live
    <3>2. FocusOK'
      BY <2>3, <3>1, BridgeAssumption
         DEF DoSize, IInv, FocusOK, ChannelFollowsFocus, WantedSize
    <3> QED  BY <1>3, <2>3, <3>2, Untouched DEF DoSize
  <2>4. CASE op.kind = "approve" /\ DoApprove(op.id)
    <3>1. FocusOK' /\ ViewOK'
      BY <1>3, <2>4, Untouched DEF DoApprove
    <3>2. op.id \in DeviceIds /\ op.id \notin approvalsInFlight
      BY <2>4 DEF DoApprove, CanApprove, Live, IInv, PanesOK
    <3>3. /\ approvalsInFlight' = approvalsInFlight \cup {op.id}
          /\ asking' = [asking EXCEPT ![op.id] = @ + 1] /\ sending' = sending
      BY <2>4 DEF DoApprove
    <3>4. ApprovalsOK'
      BY <3>2, <3>3 DEF IInv, ApprovalsOK, OneApprovalPerRow
    <3> QED  BY <3>1, <3>4
  <2>5. CASE ~Effective(op) /\ UNCHANGED <<focused, channelVars, clientSize, approvalVars, shown>>
    BY <1>3, <2>5, Untouched
  <2> QED  BY <2>1, <2>2, <2>3, <2>4, <2>5 DEF Perform
<1> QED  BY <1>1, <1>2, <1>5, <1>6 DEF IInv

LEMMA DeviceOpsTyped == DeviceOps \subseteq DeviceOp /\ Resync \in DeviceOp
BY BridgeAssumption DEF DeviceOps, DeviceOp, Op, Resync, DeviceIds

LEMMA QueueStep ==
  ASSUME IInv, NEW op \in DeviceOp, Queue(op)
  PROVE  pendingOps' \in Seq(DeviceOp)
BY DEF IInv, QueueOK, Queue

LEMMA RouteStep ==
  ASSUME IInv, NEW op \in DeviceOps, Route(op)
  PROVE  IInv'
<1>1. op \in DeviceOp
  BY DeviceOpsTyped
<1>2. UNCHANGED <<single, phase, disposed, sessions, client, paneVars, loopVars, failedNotified>>
  BY DEF Route
<1>3. CASE phase = "ready" /\ Perform(op) /\ UNCHANGED pendingOps
  <2>1. pendingOps' \in Seq(DeviceOp)
    BY <1>3 DEF IInv, QueueOK
  <2> QED  BY <1>1, <1>2, <1>3, <2>1, PerformStep
<1>4. CASE Queue(op) /\ UNCHANGED <<focused, channelVars, clientSize, approvalVars, shown>>
  <2>1. pendingOps' \in Seq(DeviceOp)
    BY <1>1, <1>4, QueueStep
  <2>2. QueueOK'
    BY <1>2, <2>1 DEF IInv, QueueOK
  <2>3. UNCHANGED <<byId, discovering, timers>> /\ \A e \in {"attach", "refresh"} : Booting(e)' = Booting(e)
    BY <1>2 DEF paneVars, loopVars, Booting
  <2>4. /\ ModesOK' /\ ClientsOK' /\ PanesOK' /\ FocusOK' /\ ViewOK' /\ ApprovalsOK'
        /\ LoopOK'
    BY <1>2, <1>4, <2>3, Untouched
  <2>5. SingleBridge' /\ DiscoveringBridge'
    BY <1>2, <2>3, LifeCycleStays
  <2> QED  BY <2>2, <2>4, <2>5 DEF IInv
<1> QED  BY <1>3, <1>4 DEF Route

LEMMA FlushStep == ASSUME IInv, FlushOp PROVE IInv'
<1>1. /\ pendingOps \in Seq(DeviceOp) /\ pendingOps # <<>> /\ phase = "ready"
      /\ Perform(Head(pendingOps)) /\ pendingOps' = Tail(pendingOps)
      /\ UNCHANGED <<single, phase, disposed, sessions, client, paneVars, loopVars, failedNotified>>
  BY DEF FlushOp, Flushing, IInv, QueueOK
<1>2. Head(pendingOps) \in DeviceOp /\ pendingOps' \in Seq(DeviceOp)
  BY <1>1
<1> QED  BY <1>1, <1>2, PerformStep

-----------------------------------------------------------------------------
(* ATTACH and the enumerations. *)

LEMMA AttachIdleStep == ASSUME IInv, AttachIdle PROVE IInv'
<1>1. /\ phase = "idle" /\ phase' = "starting" /\ failedNotified' = {} /\ Queue(Resync)
      /\ shown' = EmptyMap
      /\ UNCHANGED <<single, disposed, paneVars, focused, channelVars, clientSize, timers, approvalVars>>
  BY DEF AttachIdle
<1>2. UNCHANGED <<byId, byKey, nextId>>
  BY <1>1 DEF paneVars
<1>3. ModesOK'
  BY <1>1 DEF IInv, ModesOK
<1>4. PanesOK' /\ FocusOK' /\ ApprovalsOK'
  BY <1>1, <1>2, Untouched
<1>5. QueueOK'
  BY <1>1, DeviceOpsTyped, QueueStep DEF QueueOK
<1>6. ViewOK'
  BY <1>1 DEF ViewOK, BoardMirrors, EmptyMap
<1>7. CASE single
  <2>1. BootClients({SingleName}, "attach") /\ UNCHANGED discovering
    BY <1>7 DEF AttachIdle
  <2>2. /\ ClientsOK'
        /\ DOMAIN sessions' = DOMAIN sessions \cup {SingleName}
        /\ \A c \in DOMAIN client' :
             \/ c \in DOMAIN client /\ client'[c] = client[c]
             \/ c \notin DOMAIN client /\ client'[c].boot = "attach" /\ client'[c].name \in {SingleName}
    BY <2>1, SingleNameIsName, ClientsBooted DEF IInv
  <2>3. Booting("refresh")' = {} /\ Booting("refresh") = {}
    BY <1>7, <2>2 DEF IInv, SingleBridge, Booting
  <2>4. LoopOK'
    BY <1>1, <1>7, <2>1, <2>3 DEF IInv, LoopOK, Armed, Enumerating, Refreshing
  <2>5. SingleBridge'
    BY <1>1, <1>2, <1>7, <2>1, <2>2, <2>3 DEF IInv, SingleBridge
  <2>6. DiscoveringBridge'
    BY <1>1, <1>7 DEF DiscoveringBridge
  <2> QED  BY <1>3, <1>4, <1>5, <1>6, <2>2, <2>4, <2>5, <2>6 DEF IInv
<1>8. CASE ~single
  <2>1. /\ discovering' = discovering \cup {"attach"} /\ UNCHANGED <<sessions, client>>
    BY <1>8 DEF AttachIdle
  <2>2. DOMAIN client = {} /\ DOMAIN sessions = {} /\ discovering = {} /\ timers = 0
    BY <1>1, <1>8 DEF IInv, DiscoveringBridge
  <2>3. ClientsOK'
    BY <2>1, Untouched
  <2>4. \A e \in {"attach", "refresh"} : Booting(e)' = {} /\ Booting(e) = {}
    BY <2>1, <2>2 DEF Booting
  <2>5. LoopOK'
    BY <1>1, <2>1, <2>2, <2>4 DEF LoopOK, Armed, Enumerating, Refreshing
  <2>6. SingleBridge'
    BY <1>1, <1>8 DEF SingleBridge
  <2>7. DiscoveringBridge'
    BY <1>1, <1>2, <1>8, <2>1, <2>2, <2>4 DEF IInv, DiscoveringBridge
  <2> QED  BY <1>3, <1>4, <1>5, <1>6, <2>3, <2>5, <2>6, <2>7 DEF IInv
<1> QED  BY <1>7, <1>8

LEMMA AttachWhileStartingStep == ASSUME IInv, AttachWhileStarting PROVE IInv'
<1>1. /\ phase = "starting" /\ shown' = EmptyMap /\ Queue(Resync)
      /\ UNCHANGED <<single, phase, disposed, sessions, client, paneVars, focused, channelVars,
                     clientSize, loopVars, approvalVars, failedNotified>>
  BY DEF AttachWhileStarting
<1>2. /\ UNCHANGED <<byId, discovering, timers>>
      /\ \A e \in {"attach", "refresh"} : Booting(e)' = Booting(e)
  BY <1>1 DEF paneVars, loopVars, Booting
<1>3. ModesOK' /\ ClientsOK' /\ PanesOK' /\ FocusOK' /\ ApprovalsOK' /\ LoopOK'
  BY <1>1, <1>2, Untouched
<1>4. QueueOK'
  BY <1>1, DeviceOpsTyped, QueueStep DEF IInv, QueueOK
<1>5. ViewOK'
  BY <1>1 DEF ViewOK, BoardMirrors, EmptyMap
<1>6. SingleBridge' /\ DiscoveringBridge'
  BY <1>1, <1>2, LifeCycleStays
<1> QED  BY <1>3, <1>4, <1>5, <1>6 DEF IInv

LEMMA AttachReadyStep == ASSUME IInv, AttachReady PROVE IInv'
<1>1. /\ phase = "ready" /\ shown' = EmitBoard(EmptyMap, byId)
      /\ IF focused \in Live(byId) /\ channel # 0 THEN OpenChannel(focused) ELSE UNCHANGED channelVars
      /\ UNCHANGED <<single, phase, disposed, sessions, client, paneVars, focused, clientSize,
                     loopVars, pendingOps, approvalVars, failedNotified>>
  BY DEF AttachReady
<1>2. /\ UNCHANGED <<byId, discovering, timers>>
      /\ \A e \in {"attach", "refresh"} : Booting(e)' = Booting(e)
  BY <1>1 DEF paneVars, loopVars, Booting
<1>3. ModesOK' /\ ClientsOK' /\ PanesOK' /\ ApprovalsOK' /\ QueueOK' /\ LoopOK'
  BY <1>1, <1>2, Untouched
<1>4. FocusOK'
  <2>1. CASE focused \in Live(byId) /\ channel # 0
    BY <1>1, <1>2, <2>1, ChannelOpened
  <2>2. CASE ~(focused \in Live(byId) /\ channel # 0)
    BY <1>1, <1>2, <2>2, Untouched
  <2> QED  BY <2>1, <2>2
<1>5. ViewOK'
  <2>1. DOMAIN EmptyMap \subseteq DeviceIds /\ EmptyMap \in [DOMAIN EmptyMap -> Statuses]
    BY DEF EmptyMap
  <2> QED  BY <1>1, <1>2, <1>3, <2>1, ViewRefreshed
<1>6. SingleBridge' /\ DiscoveringBridge'
  BY <1>1, <1>2, LifeCycleStays
<1> QED  BY <1>3, <1>4, <1>5, <1>6 DEF IInv

LEMMA DiscoverAttachFailsStep == ASSUME IInv, DiscoverAttachFails PROVE IInv'
<1>1. /\ "attach" \in discovering /\ discovering' = discovering \ {"attach"}
      /\ phase' = "idle" /\ pendingOps' = <<>>
      /\ UNCHANGED <<single, disposed, sessions, client, paneVars, focused, channelVars,
                     clientSize, timers, approvalVars, failedNotified, shown>>
  BY DEF DiscoverAttachFails
<1>2. /\ ~single /\ phase = "starting" /\ DOMAIN client = {} /\ DOMAIN sessions = {}
      /\ timers = 0 /\ "refresh" \notin discovering
  BY <1>1 DEF IInv, ModesOK, SingleBridge, DiscoveringBridge
<1>3. /\ UNCHANGED byId /\ \A e \in {"attach", "refresh"} : Booting(e)' = {}
  BY <1>1, <1>2 DEF paneVars, Booting
<1>4. ClientsOK' /\ PanesOK' /\ FocusOK' /\ ApprovalsOK'
  BY <1>1, <1>3, Untouched
<1>5. ModesOK' /\ QueueOK'
  BY <1>1 DEF IInv, ModesOK, QueueOK
<1>6. ViewOK'
  BY <1>1 DEF IInv, ViewOK, BoardMirrors
<1>7. LoopOK'
  BY <1>1, <1>2, <1>3 DEF IInv, LoopOK, Armed, Enumerating, Refreshing
<1>8. SingleBridge' /\ DiscoveringBridge'
  <2>1. discovering' = {}
    BY <1>1, <1>2 DEF IInv, LoopOK
  <2>2. SingleBridge'
    BY <1>1, <1>2 DEF SingleBridge
  <2>3. DiscoveringBridge'
    BY <1>1, <1>2, <1>3, <2>1 DEF IInv, DiscoveringBridge
  <2> QED  BY <2>2, <2>3
<1> QED  BY <1>4, <1>5, <1>6, <1>7, <1>8 DEF IInv

(* The end of an enumeration on a bridge that is ready with it: what is    *)
(* left of the focus invariant once the panes are as they will be.         *)
FocusWillHold(f) ==
  /\ f \in 0..MaxId
  /\ channel' \in 0..MaxId /\ channelSize' \in Sizes \cup {NoSize}
  /\ channel' # 0 => channel' = f /\ f \in Live(byId)' /\ channelSize' = WantedSize

(* seedFocus keeps the focus on a live pane. *)
LEMMA FocusSettled ==
  ASSUME IInv, PanesOK', UNCHANGED clientSize, NEW f, FocusWillHold(f),
         focused' = f \/ focused' \in SeedFocus(f, byId')
  PROVE  FocusOK'
<1> DEFINE b == byId'
           g == focused'
<1>1. /\ DOMAIN b \subseteq DeviceIds /\ (g = f \/ g \in SeedFocus(f, b))
      /\ f \in 0..MaxId
      /\ Live(b) = Live(byId)' /\ g = focused'
  BY DEF PanesOK, FocusWillHold, Live
<1> HIDE DEF b, g
<1>2. g \in 0..MaxId /\ (f \in Live(b) => g = f)
  BY <1>1, FocusSeeded
<1>3. WantedSize' = WantedSize /\ clientSize' \in Sizes \cup {NoSize}
  BY DEF IInv, FocusOK, WantedSize
<1> QED  BY <1>1, <1>2, <1>3 DEF FocusWillHold, FocusOK, ChannelFollowsFocus

LEMMA FocusWaits ==
  ASSUME IInv, UNCHANGED <<byId, channelVars>>
  PROVE  FocusWillHold(focused)
BY DEF IInv, FocusOK, ChannelFollowsFocus, FocusWillHold, channelVars, Live

LEMMA DiscoverAttachStep ==
  ASSUME IInv, NEW targets \in SUBSET Names, DiscoverAttach(targets)
  PROVE  IInv'
<1>1. /\ "attach" \in discovering /\ discovering' = discovering \ {"attach"}
      /\ BootClients(targets, "attach")
      /\ IF targets = {} THEN FinishAttach(client, sessions, byId, focused)
         ELSE UNCHANGED <<phase, pendingOps, focused, shown, timers>>
      /\ UNCHANGED <<single, disposed, paneVars, channelVars, clientSize, approvalVars, failedNotified>>
  BY DEF DiscoverAttach
<1>2. /\ ~single /\ phase = "starting" /\ DOMAIN client = {} /\ DOMAIN sessions = {}
      /\ timers = 0 /\ "refresh" \notin discovering
  BY <1>1 DEF IInv, ModesOK, SingleBridge, DiscoveringBridge
<1>3. DOMAIN byId = {} /\ UNCHANGED byId
  BY <1>1, <1>2 DEF IInv, DiscoveringBridge, paneVars
<1>4. /\ ClientsOK'
      /\ DOMAIN sessions' = targets
      /\ \A c \in DOMAIN client' : client'[c].boot = "attach" /\ client'[c].name \in targets
  BY <1>1, <1>2, ClientsBooted DEF IInv
<1>5. PanesOK' /\ ApprovalsOK'
  BY <1>1, Untouched
<1>6. Booting("refresh")' = {}
  BY <1>4 DEF Booting
<1>7. discovering' = {}
  BY <1>1, <1>2 DEF IInv, LoopOK
<1>8. SingleBridge'
  BY <1>1, <1>2 DEF SingleBridge
<1>9. CASE targets = {}
  <2>1. /\ phase' = "ready" /\ UNCHANGED pendingOps
        /\ focused' \in SeedFocus(focused, byId)
        /\ shown' = EmitBoard(shown, byId)
        /\ timers' = IF disposed THEN 0 ELSE 1
    BY <1>1, <1>2, <1>9 DEF FinishAttach, ArmRefresh
  <2>2. ModesOK' /\ QueueOK'
    BY <1>1, <2>1 DEF IInv, ModesOK, QueueOK
  <2>3. FocusOK'
    BY <1>1, <1>3, <1>5, <2>1, FocusWaits, FocusSettled
  <2>4. ViewOK'
    <3>1. DOMAIN shown \subseteq DeviceIds /\ shown \in [DOMAIN shown -> Statuses]
      BY DEF IInv, ViewOK
    <3> QED  BY <1>3, <1>5, <2>1, <3>1, ViewRefreshed
  <2>5. LoopOK'
    <3>1. timers' \in 0..1 /\ (~disposed' => Armed')
      BY <1>1, <2>1 DEF Armed
    <3>2. ~Enumerating' /\ ~Refreshing'
      BY <1>6, <1>7 DEF Enumerating, Refreshing
    <3> QED  BY <1>7, <3>1, <3>2 DEF LoopOK
  <2>6. DiscoveringBridge'
    <3>1. Booting("attach")' = {}
      BY <1>4, <1>9 DEF Booting
    <3> QED  BY <1>3, <1>4, <1>7, <2>1, <3>1 DEF DiscoveringBridge
  <2> QED  BY <1>4, <1>5, <1>8, <2>2, <2>3, <2>4, <2>5, <2>6 DEF IInv
<1>10. CASE targets # {}
  <2>1. UNCHANGED <<phase, pendingOps, focused, shown, timers>>
    BY <1>1, <1>10
  <2>2. ModesOK' /\ FocusOK' /\ QueueOK'
    BY <1>1, <1>3, <2>1, Untouched
  <2>3. ViewOK'
    BY <1>2, <2>1 DEF IInv, ViewOK, BoardMirrors
  <2>4. LoopOK'
    BY <1>2, <1>6, <1>7, <2>1 DEF LoopOK, Armed, Enumerating, Refreshing
  <2>5. DiscoveringBridge'
    BY <1>2, <1>3, <1>4, <1>6, <1>7, <2>1 DEF DiscoveringBridge
  <2> QED  BY <1>4, <1>5, <1>8, <2>2, <2>3, <2>4, <2>5 DEF IInv
<1> QED  BY <1>9, <1>10

LEMMA RefreshTimerStep == ASSUME IInv, RefreshTimer PROVE IInv'
<1>1. /\ timers > 0
      /\ IF ~disposed /\ phase = "ready"
         THEN timers' = timers - 1 /\ discovering' = discovering \cup {"refresh"}
         ELSE timers' = (IF disposed THEN timers - 1 ELSE timers) /\ UNCHANGED discovering
      /\ UNCHANGED <<single, phase, disposed, sessions, client, paneVars, focused, channelVars,
                     clientSize, pendingOps, approvalVars, failedNotified, shown>>
  BY DEF RefreshTimer
<1>2. /\ UNCHANGED byId /\ \A e \in {"attach", "refresh"} : Booting(e)' = Booting(e)
  BY <1>1 DEF paneVars, Booting
<1>3. ModesOK' /\ ClientsOK' /\ PanesOK' /\ FocusOK' /\ ViewOK' /\ ApprovalsOK' /\ QueueOK'
  BY <1>1, <1>2, Untouched
<1>4. ~single /\ phase = "ready" /\ timers = 1 /\ ~Enumerating /\ ~Refreshing
  BY <1>1 DEF IInv, ModesOK, LoopOK, SingleBridge, DiscoveringBridge, Armed
<1>5. /\ timers' = 0
      /\ discovering' = IF disposed THEN discovering ELSE discovering \cup {"refresh"}
  BY <1>1, <1>4
<1>6. LoopOK'
  <2>1. ~Armed' /\ ~Refreshing' /\ (~disposed' => Enumerating')
    BY <1>1, <1>2, <1>4, <1>5 DEF Armed, Enumerating, Refreshing
  <2> QED  BY <1>5, <2>1 DEF IInv, LoopOK
<1>7. SingleBridge'
  BY <1>1, <1>4 DEF SingleBridge
<1>8. DiscoveringBridge'
  BY <1>1, <1>2, <1>4, <1>5 DEF IInv, DiscoveringBridge
<1> QED  BY <1>3, <1>6, <1>7, <1>8 DEF IInv

(* An enumeration is one of a ready discovering bridge. *)
LEMMA EnumeratingReady ==
  ASSUME IInv, "refresh" \in discovering
  PROVE  ~single /\ phase = "ready" /\ timers = 0 /\ Booting("refresh") = {}
BY DEF IInv, ModesOK, LoopOK, SingleBridge, DiscoveringBridge, Armed, Enumerating, Refreshing

LEMMA DiscoverRefreshFailsStep == ASSUME IInv, DiscoverRefreshFails PROVE IInv'
<1>1. /\ "refresh" \in discovering /\ discovering' = discovering \ {"refresh"}
      /\ timers' = ArmRefresh
      /\ UNCHANGED <<single, phase, disposed, sessions, client, paneVars, focused, channelVars,
                     clientSize, pendingOps, approvalVars, failedNotified, shown>>
  BY DEF DiscoverRefreshFails
<1>2. /\ UNCHANGED byId /\ \A e \in {"attach", "refresh"} : Booting(e)' = Booting(e)
  BY <1>1 DEF paneVars, Booting
<1>3. ModesOK' /\ ClientsOK' /\ PanesOK' /\ FocusOK' /\ ViewOK' /\ ApprovalsOK' /\ QueueOK'
  BY <1>1, <1>2, Untouched
<1>4. ~single /\ phase = "ready" /\ timers = 0 /\ Booting("refresh") = {}
  BY <1>1, EnumeratingReady
<1>5. timers' = IF disposed THEN 0 ELSE 1
  BY <1>1, <1>4 DEF ArmRefresh
<1>6. LoopOK'
  <2>1. ~Enumerating' /\ ~Refreshing' /\ (~disposed' => Armed') /\ timers' \in 0..1
    BY <1>1, <1>2, <1>4, <1>5 DEF Armed, Enumerating, Refreshing
  <2> QED  BY <1>1, <2>1 DEF IInv, LoopOK
<1>7. SingleBridge'
  BY <1>1, <1>4 DEF SingleBridge
<1>8. DiscoveringBridge'
  BY <1>1, <1>2, <1>4 DEF IInv, DiscoveringBridge
<1> QED  BY <1>3, <1>6, <1>7, <1>8 DEF IInv

LEMMA DiscoverRefreshStep ==
  ASSUME IInv, NEW targets \in SUBSET Names, DiscoverRefresh(targets)
  PROVE  IInv'
<1> DEFINE toBoot == {n \in targets : ~Ready(n)}
<1>1. /\ "refresh" \in discovering /\ discovering' = discovering \ {"refresh"}
      /\ IF disposed THEN UNCHANGED <<sessions, client, timers>>
         ELSE /\ BootClients(toBoot, "refresh")
              /\ timers' = IF toBoot = {} THEN ArmRefresh ELSE timers
      /\ UNCHANGED <<single, phase, disposed, paneVars, focused, channelVars, clientSize,
                     pendingOps, approvalVars, failedNotified, shown>>
  BY DEF DiscoverRefresh
<1>2. toBoot \in SUBSET Names /\ UNCHANGED <<byId, byKey, nextId>>
  BY <1>1 DEF paneVars
<1> HIDE DEF toBoot
<1>3. ~single /\ phase = "ready" /\ timers = 0 /\ Booting("refresh") = {}
  BY <1>1, EnumeratingReady
<1>4. ModesOK' /\ PanesOK' /\ FocusOK' /\ ApprovalsOK' /\ QueueOK'
  BY <1>1, <1>2, Untouched
<1>5. SingleBridge'
  BY <1>1, <1>3 DEF SingleBridge
<1>6. CASE disposed
  <2>1. UNCHANGED <<sessions, client, timers>>
    BY <1>1, <1>6
  <2>2. ClientsOK' /\ ViewOK'
    BY <1>1, <1>2, <2>1, Untouched
  <2>3. \A e \in {"attach", "refresh"} : Booting(e)' = Booting(e)
    BY <2>1 DEF Booting
  <2>4. LoopOK'
    BY <1>1, <1>3, <1>6, <2>1, <2>3 DEF IInv, LoopOK, Armed, Enumerating, Refreshing
  <2>5. DiscoveringBridge'
    BY <1>1, <1>2, <1>3, <2>1, <2>3 DEF IInv, DiscoveringBridge
  <2> QED  BY <1>4, <1>5, <2>2, <2>4, <2>5 DEF IInv
<1>7. CASE ~disposed
  <2>1. BootClients(toBoot, "refresh") /\ timers' = IF toBoot = {} THEN 1 ELSE 0
    BY <1>1, <1>3, <1>7 DEF ArmRefresh
  <2>2. /\ ClientsOK'
        /\ DOMAIN sessions' = DOMAIN sessions \cup toBoot
        /\ \A c \in DOMAIN client' :
             \/ c \in DOMAIN client /\ client'[c] = client[c]
             \/ c \notin DOMAIN client /\ client'[c].boot = "refresh" /\ client'[c].name \in toBoot
        /\ \A c \in DOMAIN client : client[c].boot # "none" => c \in DOMAIN client'
        /\ toBoot # {} => Booting("refresh")' # {}
    BY <1>2, <2>1, ClientsBooted DEF IInv
  <2>3. toBoot = {} => Booting("refresh")' = {}
    BY <1>3, <2>2 DEF Booting
  <2>4. ViewOK'
    BY <1>1, <1>2, <2>2 DEF IInv, ViewOK, BoardMirrors, Live
  <2>5. LoopOK'
    <3>1. ~Enumerating' /\ (Armed' <=> toBoot = {}) /\ (Refreshing' <=> toBoot # {}) /\ timers' \in 0..1
      BY <1>1, <2>1, <2>2, <2>3 DEF Armed, Enumerating, Refreshing
    <3> QED  BY <1>1, <3>1 DEF IInv, LoopOK
  <2>6. DiscoveringBridge'
    <3>1. Booting("attach") = {} /\ "attach" \notin discovering
      BY <1>3 DEF IInv, DiscoveringBridge
    <3>2. Booting("attach")' = {}
      BY <2>2, <3>1 DEF Booting
    <3>3. /\ \A c \in DOMAIN client' : client'[c].name \in DOMAIN sessions'
          /\ \A id \in DOMAIN byId' : byId'[id].name \in DOMAIN sessions'
      BY <1>2, <1>3, <2>2 DEF IInv, DiscoveringBridge
    <3> QED  BY <1>1, <1>3, <3>1, <3>2, <3>3 DEF DiscoveringBridge
  <2> QED  BY <1>4, <1>5, <2>2, <2>4, <2>5, <2>6 DEF IInv
<1> QED  BY <1>6, <1>7

-----------------------------------------------------------------------------
(* bootstrapSession *)

LEMMA BootSnapshotStep ==
  ASSUME IInv, NEW c \in Clients, BootSnapshot(c)
  PROVE  IInv'
<1>1. /\ c \in DOMAIN client /\ client[c].boot # "none"
      /\ client' = [client EXCEPT ![c].committed = TRUE]
      /\ UNCHANGED <<single, phase, disposed, sessions, channelVars, clientSize, loopVars,
                     pendingOps, approvalVars, failedNotified, shown>>
  BY DEF BootSnapshot
<1>2. PICK ps \in SUBSET Panes : \E status \in [ps -> Statuses] :
        EnsureSessions(client[c].name, ps, status)
  BY DEF BootSnapshot
<1>3. PICK status \in [ps -> Statuses] : EnsureSessions(client[c].name, ps, status)
  BY <1>2
<1>4. client[c].name \in Names /\ client[c] \in Client
  BY <1>1 DEF IInv, ClientsOK, Client
<1>5. /\ PanesOK'
      /\ \A id \in DOMAIN byId : id \in DOMAIN byId' /\ byId'[id] = byId[id]
      /\ \A id \in DOMAIN byId' \ DOMAIN byId : byId'[id].name = client[c].name
      /\ focused' \in 0..MaxId /\ (focused # 0 => focused' = focused)
  BY <1>3, <1>4, SessionsEnsured DEF IInv, FocusOK
<1>6. /\ DOMAIN client' = DOMAIN client /\ client' \in [DOMAIN client' -> Client]
      /\ \A d \in DOMAIN client :
           /\ client'[d].name = client[d].name /\ client'[d].phase = client[d].phase
           /\ client'[d].sub = client[d].sub /\ client'[d].boot = client[d].boot
           /\ client'[d].resubs = client[d].resubs
  <2>1. client \in [DOMAIN client -> Client]
    BY DEF IInv, ClientsOK
  <2> QED  BY ONLY <1>1, <2>1 DEF Client
<1>7. ClientsOK'
  BY <1>1, <1>6 DEF IInv, ClientsOK
<1>8. \A e \in {"attach", "refresh"} : Booting(e)' = Booting(e)
  BY <1>6 DEF Booting
<1>9. ModesOK' /\ ApprovalsOK' /\ QueueOK' /\ LoopOK'
  BY <1>1, <1>8, Untouched
<1>10. FocusOK'
  <2>1. Live(byId) \subseteq Live(byId')
    BY <1>5 DEF Live
  <2>2. UNCHANGED <<channel, channelSize, clientSize>> /\ WantedSize' = WantedSize
    BY <1>1 DEF channelVars, WantedSize
  <2>3. Live(byId') = Live(byId)'
    BY DEF Live
  <2> QED  BY <1>5, <2>1, <2>2, <2>3 DEF IInv, FocusOK, ChannelFollowsFocus
<1>11. ViewOK'
  BY <1>1, <1>6 DEF IInv, ViewOK, BoardMirrors
<1>12. SingleBridge' /\ DiscoveringBridge'
  <2>1. UNCHANGED <<single, phase, discovering, timers, sessions>>
    BY <1>1 DEF loopVars
  <2>2. \A n \in DOMAIN sessions : sessions[n] \in DOMAIN client
    BY DEF IInv, ClientsOK
  <2> QED  BY <1>1, <1>5, <1>6, <1>8, <2>1, <2>2, LifeCycleStays
<1> QED  BY <1>5, <1>7, <1>9, <1>10, <1>11, <1>12 DEF IInv

(* The bootstrap of c is over, with the clients cs: the last one of an     *)
(* enumeration ends it.                                                    *)
LEMMA SettlesStep ==
  ASSUME IInv, NEW c \in DOMAIN client, client[c].boot # "none", NEW cs, NEW f,
         Settles(c, cs, byId', f),
         UNCHANGED <<single, disposed, sessions, discovering, clientSize>>,
         ClientsOK', PanesOK', FocusWillHold(f),
         DOMAIN client' \subseteq DOMAIN client,
         \A d \in DOMAIN client' : client'[d].name = client[d].name,
         \A e \in {"attach", "refresh"} : Booting(e)' = Booting(e) \ {c},
         \A n \in DOMAIN sessions : client'[sessions[n]] = cs[sessions[n]],
         DOMAIN byId' \subseteq DOMAIN byId,
         \A id \in DOMAIN byId' : byId'[id] = byId[id]
  PROVE  /\ ModesOK' /\ FocusOK' /\ ViewOK' /\ LoopOK' /\ SingleBridge' /\ DiscoveringBridge'
         /\ pendingOps' \in Seq(DeviceOp)
<1>1. client[c].boot \in {"attach", "refresh"} /\ c \in Booting(client[c].boot)
  BY DEF IInv, ClientsOK, Client, Booting
<1>2. /\ single => client[c].boot = "attach"
      /\ ~single => phase = IF client[c].boot = "attach" THEN "starting" ELSE "ready"
  BY <1>1 DEF IInv, ModesOK, SingleBridge, DiscoveringBridge
<1>3. pendingOps \in Seq(DeviceOp)
  BY DEF IInv, QueueOK
<1>4. DOMAIN shown \subseteq DeviceIds /\ shown \in [DOMAIN shown -> Statuses]
  BY DEF IInv, ViewOK
<1>5. (SomeAttached(client', sessions') <=> SomeAttached(cs, sessions))
  BY DEF SomeAttached
<1>6. CASE single
  <2>0. /\ LastOf(c) /\ FinishAttach(cs, sessions, byId', f)
    BY <1>2, <1>6 DEF Settles, LastOf
  <2>1. /\ discovering = {} /\ timers = 0 /\ Booting("refresh") = {}
        /\ \A d \in DOMAIN client : client[d].name = SingleName
        /\ DOMAIN sessions \subseteq {SingleName}
        /\ \A id \in DOMAIN byId : byId[id].name = SingleName
    BY <1>6 DEF IInv, SingleBridge
  <2>2. DiscoveringBridge'
    BY <1>6 DEF DiscoveringBridge
  <2>3. CASE ~SomeAttached(cs, sessions)
    <3>1. /\ phase' = "idle" /\ pendingOps' = <<>> /\ focused' = f /\ UNCHANGED <<timers, shown>>
      BY <1>6, <2>0, <2>3 DEF FinishAttach
    <3>2. ModesOK' /\ pendingOps' \in Seq(DeviceOp)
      BY <3>1 DEF IInv, ModesOK
    <3>3. FocusOK'
      BY <3>1, FocusSettled
    <3>4. ViewOK'
      BY <1>4, <3>1 DEF ViewOK, BoardMirrors
    <3>5. LoopOK'
      BY <1>6, <2>1, <3>1 DEF LoopOK, Armed, Enumerating, Refreshing
    <3>6. SingleBridge'
      BY <1>5, <2>1, <2>3, <3>1 DEF SingleBridge
    <3> QED  BY <2>2, <3>2, <3>3, <3>4, <3>5, <3>6
  <2>4. CASE SomeAttached(cs, sessions)
    <3>1. /\ phase' = "ready" /\ UNCHANGED pendingOps /\ focused' \in SeedFocus(f, byId')
          /\ shown' = EmitBoard(shown, byId') /\ timers' = timers
      BY <1>6, <2>0, <2>4 DEF FinishAttach, ArmRefresh
    <3>2. ModesOK' /\ pendingOps' \in Seq(DeviceOp)
      BY <1>3, <3>1 DEF IInv, ModesOK
    <3>3. FocusOK'
      BY <3>1, FocusSettled
    <3>4. ViewOK'
      BY <1>4, <3>1, ViewRefreshed
    <3>5. LoopOK'
      BY <1>6, <2>1, <3>1 DEF LoopOK, Armed, Enumerating, Refreshing
    <3>6. SingleName \in DOMAIN sessions
      BY <2>1, <2>4 DEF SomeAttached
    <3>7. SingleBridge'
      BY <2>1, <3>1, <3>6 DEF SingleBridge
    <3> QED  BY <2>2, <3>2, <3>3, <3>4, <3>5, <3>7
  <2> QED  BY <2>3, <2>4
<1>7. CASE ~single
  <2>0. SingleBridge'
    BY <1>7 DEF SingleBridge
  <2>1. /\ \A d \in DOMAIN client' : client'[d].name \in DOMAIN sessions'
        /\ \A id \in DOMAIN byId' : byId'[id].name \in DOMAIN sessions'
        /\ phase = "starting" =>
             timers = 0 /\ "refresh" \notin discovering /\ Booting("refresh") = {} /\ discovering = {}
        /\ phase = "ready" => "attach" \notin discovering /\ Booting("attach") = {}
    BY <1>7 DEF IInv, DiscoveringBridge, LoopOK
  <2>2. CASE ~LastOf(c)
    <3>1. focused' = f /\ UNCHANGED <<phase, pendingOps, timers, shown>>
      BY <2>2 DEF Settles
    <3>2. ModesOK' /\ pendingOps' \in Seq(DeviceOp)
      BY <1>3, <3>1 DEF IInv, ModesOK
    <3>3. FocusOK'
      BY <3>1, FocusSettled
    <3>4. PICK e \in {"attach", "refresh"} : e = client[c].boot
      BY <1>1
    <3>5. Booting(e)' # {}
      BY <1>1, <1>7, <2>2, <3>4 DEF LastOf
    <3>6. ViewOK'
      <4>1. PICK d \in DOMAIN client' : client'[d].boot = e
        BY <3>5 DEF Booting
      <4>2. client'[d].boot # "none"
        BY <4>1
      <4> QED  BY <1>4, <3>1, <4>2 DEF ViewOK, BoardMirrors
    <3>7. LoopOK'
      <4>1. Refreshing' <=> Refreshing
        <5>1. CASE e = "refresh"
          BY <1>1, <3>4, <3>5, <5>1 DEF Refreshing
        <5>2. CASE e = "attach"
          <6>1. c \notin Booting("refresh")
            BY <3>4, <5>2 DEF Booting
          <6>2. Booting("refresh")' = Booting("refresh")
            BY <6>1
          <6> QED  BY <6>2 DEF Refreshing
        <5> QED  BY <5>1, <5>2
      <4> QED  BY <3>1, <4>1 DEF IInv, LoopOK, Armed, Enumerating
    <3>8. DiscoveringBridge'
      BY <1>2, <1>7, <2>1, <3>1 DEF DiscoveringBridge
    <3> QED  BY <2>0, <3>2, <3>3, <3>6, <3>7, <3>8
  <2>3. CASE LastOf(c) /\ client[c].boot = "attach"
    <3>1. /\ phase' = "ready" /\ UNCHANGED pendingOps /\ focused' \in SeedFocus(f, byId')
          /\ shown' = EmitBoard(shown, byId') /\ timers' = IF disposed THEN 0 ELSE 1
          /\ phase = "starting"
      BY <1>2, <1>7, <2>1, <2>3 DEF Settles, FinishAttach, ArmRefresh
    <3>2. ModesOK' /\ pendingOps' \in Seq(DeviceOp)
      BY <1>3, <3>1 DEF IInv, ModesOK
    <3>3. FocusOK' /\ ViewOK'
      BY <1>4, <3>1, FocusSettled, ViewRefreshed
    <3>4. Booting("refresh")' = {} /\ Booting("attach")' = {} /\ discovering' = {}
      BY <1>7, <2>1, <2>3, <3>1 DEF LastOf
    <3>5. LoopOK'
      BY <3>1, <3>4 DEF LoopOK, Armed, Enumerating, Refreshing
    <3>6. DiscoveringBridge'
      BY <2>1, <3>1, <3>4 DEF DiscoveringBridge
    <3> QED  BY <2>0, <3>2, <3>3, <3>5, <3>6
  <2>4. CASE LastOf(c) /\ client[c].boot = "refresh"
    <3>1. phase = "ready" /\ timers = 0 /\ "refresh" \notin discovering
      BY <1>1, <1>2, <1>7, <2>4 DEF IInv, LoopOK, Armed, Enumerating, Refreshing
    <3>2. /\ UNCHANGED <<phase, pendingOps>> /\ focused' \in SeedFocus(f, byId')
          /\ shown' = EmitBoard(shown, byId') /\ timers' = IF disposed THEN 0 ELSE 1
      BY <1>7, <2>4, <3>1 DEF Settles, FinishRefresh, ArmRefresh
    <3>3. ModesOK' /\ pendingOps' \in Seq(DeviceOp)
      BY <1>3, <3>2 DEF IInv, ModesOK
    <3>4. FocusOK' /\ ViewOK'
      BY <1>4, <3>2, FocusSettled, ViewRefreshed
    <3>5. Booting("refresh")' = {} /\ Booting("attach")' = {}
      BY <1>7, <2>1, <2>4, <3>1 DEF LastOf
    <3>6. LoopOK'
      BY <3>1, <3>2, <3>5 DEF IInv, LoopOK, Armed, Enumerating, Refreshing
    <3>7. DiscoveringBridge'
      BY <2>1, <3>1, <3>2, <3>5 DEF DiscoveringBridge
    <3> QED  BY <2>0, <3>3, <3>4, <3>6, <3>7
  <2> QED  BY <1>1, <2>2, <2>3, <2>4
<1> QED  BY <1>6, <1>7

LEMMA BootSucceedsStep ==
  ASSUME IInv, NEW c \in Clients, BootSucceeds(c)
  PROVE  IInv'
<1> DEFINE r  == [client[c] EXCEPT !.phase = "ready", !.sub = TRUE, !.boot = "none", !.committed = FALSE]
           cs == [client EXCEPT ![c] = r]
<1>1. /\ c \in DOMAIN client /\ client[c].boot # "none"
      /\ client' = Reachable(cs, sessions) /\ Settles(c, cs, byId, focused)
      /\ failedNotified' = failedNotified \ {client[c].name}
      /\ UNCHANGED <<single, disposed, sessions, paneVars, channelVars, clientSize, discovering,
                     approvalVars>>
  BY DEF BootSucceeds
<1>2. client[c] \in Client /\ r \in Client /\ r.boot = "none" /\ r.name = client[c].name
  <2>1. client[c] \in Client
    BY <1>1 DEF IInv, ClientsOK
  <2> QED  BY ONLY <2>1 DEF Client
<1>3. \A n \in DOMAIN sessions : sessions[n] \in DOMAIN client
  BY DEF IInv, ClientsOK
<1>4. DOMAIN cs = DOMAIN client /\ \A d \in DOMAIN client : cs[d] = IF d = c THEN r ELSE client[d]
  BY DEF IInv, ClientsOK
<1> HIDE DEF r
<1>5. /\ ClientsOK'
      /\ DOMAIN client' \subseteq DOMAIN client
      /\ \A d \in DOMAIN client' : client'[d] = IF d = c THEN r ELSE client[d]
      /\ \A e \in {"attach", "refresh"} : Booting(e)' = Booting(e) \ {c}
  <2>1. /\ DOMAIN sessions' \subseteq Names /\ sessions' \in [DOMAIN sessions' -> DOMAIN client]
        /\ client' = Reachable([client EXCEPT ![c] = r], sessions')
    BY <1>1 DEF IInv, ClientsOK
  <2> QED  BY <1>1, <1>2, <2>1, ClientUpdated DEF IInv
<1>6. \A n \in DOMAIN sessions : client'[sessions[n]] = cs[sessions[n]]
  <2>1. \A n \in DOMAIN sessions : sessions[n] \in DOMAIN client'
    BY <1>1, <1>5 DEF ClientsOK
  <2> QED  BY <1>3, <1>4, <1>5, <2>1
<1> HIDE DEF cs
<1>7. UNCHANGED <<byId, byKey, nextId, channel, channelSize>>
  BY <1>1 DEF paneVars, channelVars
<1>8. PanesOK' /\ ApprovalsOK' /\ FocusWillHold(focused)
  BY <1>1, <1>7, Untouched, FocusWaits
<1>9. /\ ModesOK' /\ FocusOK' /\ ViewOK' /\ LoopOK' /\ SingleBridge' /\ DiscoveringBridge'
      /\ pendingOps' \in Seq(DeviceOp)
  <2>1. Settles(c, cs, byId', focused)
    BY <1>1, <1>7
  <2>2. \A d \in DOMAIN client' : client'[d].name = client[d].name
    BY <1>2, <1>5
  <2> QED  BY <1>1, <1>5, <1>6, <1>7, <1>8, <2>1, <2>2, SettlesStep
<1>10. QueueOK'
  BY <1>1, <1>9 DEF IInv, QueueOK
<1> QED  BY <1>5, <1>8, <1>9, <1>10 DEF IInv

LEMMA BootFailsStep ==
  ASSUME IInv, NEW c \in Clients, BootFails(c)
  PROVE  IInv'
<1> DEFINE n  == client[c].name
           f  == IF focused \in OfSession(byId, n) THEN 0 ELSE focused
           r  == [client[c] EXCEPT !.phase = "failed", !.sub = FALSE, !.boot = "none", !.committed = FALSE]
           cs == [client EXCEPT ![c] = r]
<1>1. /\ c \in DOMAIN client /\ client[c].boot # "none"
      /\ DropSessionPanes(n)
      /\ client' = Reachable(cs, sessions) /\ Settles(c, cs, byId', f)
      /\ failedNotified' = failedNotified \cup {n}
      /\ UNCHANGED <<single, disposed, sessions, clientSize, discovering, approvalVars>>
  BY DEF BootFails
<1>2. /\ client[c] \in Client /\ r \in Client /\ r.boot = "none" /\ r.name = client[c].name
      /\ n \in Names
  <2>1. client[c] \in Client
    BY <1>1 DEF IInv, ClientsOK
  <2> QED  BY ONLY <2>1 DEF Client
<1>3. \A m \in DOMAIN sessions : sessions[m] \in DOMAIN client
  BY DEF IInv, ClientsOK
<1>4. DOMAIN cs = DOMAIN client /\ \A d \in DOMAIN client : cs[d] = IF d = c THEN r ELSE client[d]
  BY DEF IInv, ClientsOK
<1>5. /\ PanesOK'
      /\ DOMAIN byId' = DOMAIN byId \ OfSession(byId, n)
      /\ \A id \in DOMAIN byId' : byId'[id] = byId[id]
  BY <1>1, <1>2, SessionDropped DEF IInv
<1>6. FocusWillHold(f)
  <2>1. KillChannelIf(focused \in OfSession(byId, n))
    BY <1>1 DEF DropSessionPanes
  <2>2. CASE focused \in OfSession(byId, n)
    <3>1. channel' = 0 /\ channelSize' = NoSize /\ f = 0
      BY <2>1, <2>2 DEF KillChannelIf
    <3> QED  BY <3>1, BridgeAssumption DEF FocusWillHold
  <2>3. CASE focused \notin OfSession(byId, n)
    <3>1. channel' = channel /\ channelSize' = channelSize /\ f = focused
      BY <2>1, <2>3 DEF KillChannelIf
    <3>2. focused \in Live(byId) => focused \in Live(byId)'
      BY <1>5, <2>3 DEF Live
    <3> QED  BY <3>1, <3>2 DEF IInv, FocusOK, ChannelFollowsFocus, FocusWillHold
  <2> QED  BY <2>2, <2>3
<1> HIDE DEF r, n, f
<1>7. /\ ClientsOK'
      /\ DOMAIN client' \subseteq DOMAIN client
      /\ \A d \in DOMAIN client' : client'[d] = IF d = c THEN r ELSE client[d]
      /\ \A e \in {"attach", "refresh"} : Booting(e)' = Booting(e) \ {c}
  <2>1. /\ DOMAIN sessions' \subseteq Names /\ sessions' \in [DOMAIN sessions' -> DOMAIN client]
        /\ client' = Reachable([client EXCEPT ![c] = r], sessions')
    BY <1>1 DEF IInv, ClientsOK
  <2> QED  BY <1>1, <1>2, <2>1, ClientUpdated DEF IInv
<1>8. \A m \in DOMAIN sessions : client'[sessions[m]] = cs[sessions[m]]
  <2>1. \A m \in DOMAIN sessions : sessions[m] \in DOMAIN client'
    BY <1>1, <1>7 DEF ClientsOK
  <2> QED  BY <1>3, <1>4, <1>7, <2>1
<1> HIDE DEF cs
<1>9. /\ ModesOK' /\ FocusOK' /\ ViewOK' /\ LoopOK' /\ SingleBridge' /\ DiscoveringBridge'
      /\ pendingOps' \in Seq(DeviceOp)
  <2>1. \A d \in DOMAIN client' : client'[d].name = client[d].name
    BY <1>2, <1>7
  <2>2. DOMAIN byId' \subseteq DOMAIN byId
    BY <1>5
  <2> QED  BY <1>1, <1>5, <1>6, <1>7, <1>8, <2>1, <2>2, SettlesStep
<1>10. QueueOK'
  BY <1>1, <1>2, <1>9 DEF IInv, QueueOK
<1>11. ApprovalsOK'
  BY <1>1, Untouched
<1> QED  BY <1>5, <1>7, <1>9, <1>10, <1>11 DEF IInv

-----------------------------------------------------------------------------
(* Events of a subscription. *)

(* A client with a subscription or a chained resubscribe is not booting. *)
LEMMA Booted ==
  ASSUME IInv, NEW c \in DOMAIN client, client[c].sub \/ client[c].resubs > 0
  PROVE  client[c] \in Client /\ client[c].boot = "none"
BY DEF IInv, ClientsOK, Client

(* A step that only counts the resubscribes of c and opens subscriptions. *)
LEMMA ResubsCounted ==
  ASSUME IInv, NEW c \in DOMAIN client, client[c].boot = "none", NEW r \in Client,
         r.name = client[c].name, r.phase = client[c].phase, r.boot = "none",
         client' = [client EXCEPT ![c] = r], sessions' = sessions
  PROVE  /\ ClientsOK' /\ DOMAIN client' = DOMAIN client
         /\ \A d \in DOMAIN client : /\ client'[d].name = client[d].name
                                    /\ client'[d].phase = client[d].phase
                                    /\ client'[d].boot = client[d].boot
         /\ \A e \in {"attach", "refresh"} : Booting(e)' = Booting(e)
<1>1. DOMAIN client' = DOMAIN client /\ client' \in [DOMAIN client' -> Client]
  BY DEF IInv, ClientsOK
<1>2. \A d \in DOMAIN client : client'[d] = IF d = c THEN r ELSE client[d]
  BY DEF IInv, ClientsOK
<1>3. ClientsOK'
  BY <1>1, <1>2 DEF IInv, ClientsOK
<1>4. \A e \in {"attach", "refresh"} : Booting(e)' = Booting(e)
  BY <1>1, <1>2 DEF Booting
<1> QED  BY <1>1, <1>2, <1>3, <1>4

LEMMA PaneCreatedStep ==
  ASSUME IInv, NEW c \in Clients, NEW p \in Panes, PaneCreated(c, p)
  PROVE  IInv'
<1>1. /\ c \in DOMAIN client /\ client[c].sub /\ client[c].resubs < MaxResubs
      /\ shown' = EmitBoard(shown, byId')
      /\ client' = [client EXCEPT ![c].resubs = @ + 1]
      /\ UNCHANGED <<single, phase, disposed, sessions, channelVars, clientSize, loopVars,
                     pendingOps, approvalVars, failedNotified>>
  BY DEF PaneCreated
<1>2. PICK status \in [{p} -> Statuses] : EnsureSessions(client[c].name, {p}, status)
  BY DEF PaneCreated
<1>3. client[c].name \in Names /\ client[c] \in Client /\ client[c].boot = "none"
  BY <1>1, Booted DEF Client
<1>4. /\ PanesOK'
      /\ \A id \in DOMAIN byId : id \in DOMAIN byId' /\ byId'[id] = byId[id]
      /\ \A id \in DOMAIN byId' \ DOMAIN byId : byId'[id].name = client[c].name
      /\ focused' \in 0..MaxId /\ (focused # 0 => focused' = focused)
  BY <1>2, <1>3, SessionsEnsured DEF IInv, FocusOK
<1>5. /\ ClientsOK' /\ DOMAIN client' = DOMAIN client
      /\ \A d \in DOMAIN client : /\ client'[d].name = client[d].name
                                 /\ client'[d].phase = client[d].phase
                                 /\ client'[d].boot = client[d].boot
      /\ \A e \in {"attach", "refresh"} : Booting(e)' = Booting(e)
  <2> DEFINE r == [client[c] EXCEPT !.resubs = @ + 1]
  <2>1. /\ r \in Client /\ r.name = client[c].name /\ r.phase = client[c].phase /\ r.boot = "none"
        /\ client' = [client EXCEPT ![c] = r] /\ sessions' = sessions
    BY <1>1, <1>3, BridgeAssumption DEF Client, IInv, ClientsOK
  <2> HIDE DEF r
  <2> QED  BY <1>1, <1>3, <2>1, ResubsCounted
<1>6. ModesOK' /\ ApprovalsOK' /\ QueueOK' /\ LoopOK'
  BY <1>1, <1>5, Untouched
<1>7. FocusOK'
  <2>1. Live(byId) \subseteq Live(byId)'
    BY <1>4 DEF Live
  <2>2. UNCHANGED <<channel, channelSize, clientSize>> /\ WantedSize' = WantedSize
    BY <1>1 DEF channelVars, WantedSize
  <2> QED  BY <1>4, <2>1, <2>2 DEF IInv, FocusOK, ChannelFollowsFocus
<1>8. ViewOK'
  <2>1. DOMAIN shown \subseteq DeviceIds /\ shown \in [DOMAIN shown -> Statuses]
    BY DEF IInv, ViewOK
  <2> QED  BY <1>1, <1>4, <2>1, ViewRefreshed
<1>9. SingleBridge' /\ DiscoveringBridge'
  <2>1. UNCHANGED <<single, phase, discovering, timers, sessions>>
    BY <1>1 DEF loopVars
  <2>2. \A n \in DOMAIN sessions : sessions[n] \in DOMAIN client
    BY DEF IInv, ClientsOK
  <2> QED  BY <1>1, <1>4, <1>5, <2>1, <2>2, LifeCycleStays
<1> QED  BY <1>4, <1>5, <1>6, <1>7, <1>8, <1>9 DEF IInv

(* The entry an event of c about pane p is for. *)
LEMMA KnownEntry ==
  ASSUME IInv, NEW c \in DOMAIN client, NEW p \in Panes, Known(c, p)
  PROVE  /\ byKey[<<client[c].name, p>>] \in DOMAIN byId
         /\ byId[byKey[<<client[c].name, p>>]].name = client[c].name
         /\ byId[byKey[<<client[c].name, p>>]] \in Entry
BY DEF IInv, PanesOK, KeyIndexSound, Known

(* A step that changes the status of entry id, or ends it. *)
LEMMA EntryUpdated ==
  ASSUME IInv, NEW id \in DOMAIN byId, NEW r \in Entry,
         r.name = byId[id].name, r.pane = byId[id].pane, byId[id].ended => r.ended,
         byId' = [byId EXCEPT ![id] = r], UNCHANGED <<byKey, nextId>>
  PROVE  /\ PanesOK' /\ DOMAIN byId' = DOMAIN byId
         /\ \A i \in DOMAIN byId : byId'[i] = IF i = id THEN r ELSE byId[i]
<1>1. /\ DOMAIN byId' = DOMAIN byId /\ byId' \in [DOMAIN byId' -> Entry]
      /\ \A i \in DOMAIN byId : byId'[i] = IF i = id THEN r ELSE byId[i]
  BY DEF IInv, PanesOK
<1>2. KeyIndexSound'
  BY <1>1 DEF IInv, PanesOK, KeyIndexSound, Live
<1> QED  BY <1>1, <1>2 DEF IInv, PanesOK

LEMMA PaneExitedStep ==
  ASSUME IInv, NEW c \in Clients, NEW p \in Panes, PaneExited(c, p)
  PROVE  IInv'
<1> DEFINE id == byKey[<<client[c].name, p>>]
           r  == [byId[id] EXCEPT !.ended = TRUE]
<1>1. /\ c \in DOMAIN client /\ Known(c, p) /\ ~byId[id].ended
      /\ byId' = [byId EXCEPT ![id] = r]
      /\ KillChannelIf(focused = id)
      /\ shown' = EmitBoard(Restrict(shown, DOMAIN shown \ {id}), byId')
      /\ UNCHANGED <<single, phase, disposed, sessions, client, byKey, nextId, focused, clientSize,
                     loopVars, pendingOps, approvalVars, failedNotified>>
  BY DEF PaneExited
<1>2. id \in DOMAIN byId /\ byId[id] \in Entry
  BY <1>1, KnownEntry
<1>3. r \in Entry /\ r.name = byId[id].name /\ r.pane = byId[id].pane /\ r.ended
  BY <1>2 DEF Entry
<1> HIDE DEF id, r
<1>4. /\ PanesOK' /\ DOMAIN byId' = DOMAIN byId
      /\ \A i \in DOMAIN byId : byId'[i] = IF i = id THEN r ELSE byId[i]
  BY <1>1, <1>2, <1>3, EntryUpdated
<1>5. \A e \in {"attach", "refresh"} : Booting(e)' = Booting(e)
  BY <1>1 DEF Booting
<1>6. ModesOK' /\ ClientsOK' /\ ApprovalsOK' /\ QueueOK' /\ LoopOK'
  BY <1>1, <1>5, Untouched
<1>7. FocusOK'
  <2>1. WantedSize' = WantedSize
    BY <1>1 DEF WantedSize
  <2>2. CASE focused = id
    BY <1>1, <2>1, <2>2, BridgeAssumption DEF KillChannelIf, IInv, FocusOK, ChannelFollowsFocus
  <2>3. CASE focused # id
    <3>1. focused \in Live(byId) => focused \in Live(byId)'
      BY <1>4, <2>3 DEF Live
    <3> QED  BY <1>1, <2>1, <2>3, <3>1 DEF KillChannelIf, IInv, FocusOK, ChannelFollowsFocus
  <2> QED  BY <2>2, <2>3
<1>8. ViewOK'
  <2> DEFINE view == Restrict(shown, DOMAIN shown \ {id})
  <2>1. DOMAIN view \subseteq DeviceIds /\ view \in [DOMAIN view -> Statuses]
    BY DEF IInv, ViewOK, Restrict
  <2> HIDE DEF view
  <2> QED  BY <1>1, <1>4, <2>1, ViewRefreshed DEF view
<1>9. SingleBridge' /\ DiscoveringBridge'
  <2>1. UNCHANGED <<single, phase, discovering, timers, sessions>>
    BY <1>1 DEF loopVars
  <2>2. \A i \in DOMAIN byId' : i \in DOMAIN byId /\ byId'[i].name = byId[i].name
    BY <1>3, <1>4
  <2> QED  BY <1>1, <1>5, <2>1, <2>2, LifeCycleStays
<1> QED  BY <1>4, <1>6, <1>7, <1>8, <1>9 DEF IInv

(* A row sent to the device with the status of an entry. *)
LEMMA RowShown ==
  ASSUME IInv, PanesOK', NEW id \in DOMAIN byId', shown' = Put(shown, id, byId'[id].status),
         UNCHANGED <<phase, client>>, \A i \in Live(byId') \ {id} : i \in Live(byId) /\ byId'[i] = byId[i]
  PROVE  ViewOK'
<1>1. id \in DeviceIds /\ byId'[id].status \in Statuses
  BY DEF PanesOK, Entry
<1>2. /\ DOMAIN shown' = DOMAIN shown \cup {id}
      /\ \A i \in DOMAIN shown' : shown'[i] = IF i = id THEN byId'[id].status ELSE shown[i]
      /\ shown' = [i \in DOMAIN shown' |-> IF i = id THEN byId'[id].status ELSE shown[i]]
  BY DEF Put
<1>3. DOMAIN shown' \subseteq DeviceIds /\ shown' \in [DOMAIN shown' -> Statuses]
  BY <1>1, <1>2 DEF IInv, ViewOK
<1>4. BoardMirrors'
  BY <1>2 DEF IInv, ViewOK, BoardMirrors, Live
<1> QED  BY <1>3, <1>4 DEF ViewOK

LEMMA AgentDetectedStep ==
  ASSUME IInv, NEW c \in Clients, NEW p \in Panes, AgentDetected(c, p)
  PROVE  IInv'
<1> DEFINE id == byKey[<<client[c].name, p>>]
<1>1. /\ c \in DOMAIN client /\ Known(c, p) /\ shown' = Put(shown, id, byId[id].status)
      /\ UNCHANGED <<single, phase, disposed, sessions, client, paneVars, focused, channelVars,
                     clientSize, loopVars, pendingOps, approvalVars, failedNotified>>
  BY DEF AgentDetected
<1>2. UNCHANGED <<byId, byKey, nextId, discovering, timers>>
  BY <1>1 DEF paneVars, loopVars
<1>3. id \in DOMAIN byId
  BY <1>1, KnownEntry
<1> HIDE DEF id
<1>4. \A e \in {"attach", "refresh"} : Booting(e)' = Booting(e)
  BY <1>1 DEF Booting
<1>5. /\ ModesOK' /\ ClientsOK' /\ PanesOK' /\ FocusOK' /\ ApprovalsOK' /\ QueueOK' /\ LoopOK'
  BY <1>1, <1>2, <1>4, Untouched
<1>6. ViewOK'
  BY <1>1, <1>2, <1>3, <1>5, RowShown
<1>7. SingleBridge' /\ DiscoveringBridge'
  BY <1>1, <1>2, <1>4, LifeCycleStays
<1> QED  BY <1>5, <1>6, <1>7 DEF IInv

LEMMA StatusChangedStep ==
  ASSUME IInv, NEW c \in Clients, NEW p \in Panes, NEW status \in Statuses,
         StatusChanged(c, p, status)
  PROVE  IInv'
<1> DEFINE id == byKey[<<client[c].name, p>>]
           r  == [byId[id] EXCEPT !.status = status]
<1>1. /\ c \in DOMAIN client /\ Known(c, p)
      /\ byId' = [byId EXCEPT ![id] = r] /\ shown' = Put(shown, id, status)
      /\ UNCHANGED <<single, phase, disposed, sessions, client, byKey, nextId, focused, channelVars,
                     clientSize, loopVars, pendingOps, approvalVars, failedNotified>>
  BY DEF StatusChanged
<1>2. id \in DOMAIN byId /\ byId[id] \in Entry
  BY <1>1, KnownEntry
<1>3. /\ r \in Entry /\ r.name = byId[id].name /\ r.pane = byId[id].pane
      /\ r.ended = byId[id].ended /\ r.status = status
  BY <1>2 DEF Entry
<1> HIDE DEF id, r
<1>4. /\ PanesOK' /\ DOMAIN byId' = DOMAIN byId
      /\ \A i \in DOMAIN byId : byId'[i] = IF i = id THEN r ELSE byId[i]
  BY <1>1, <1>2, <1>3, EntryUpdated
<1>5. \A e \in {"attach", "refresh"} : Booting(e)' = Booting(e)
  BY <1>1 DEF Booting
<1>6. ModesOK' /\ ClientsOK' /\ ApprovalsOK' /\ QueueOK' /\ LoopOK'
  BY <1>1, <1>5, Untouched
<1>7. FocusOK'
  <2>1. UNCHANGED <<channel, channelSize, clientSize, focused>> /\ WantedSize' = WantedSize
    BY <1>1 DEF WantedSize, channelVars
  <2>2. Live(byId)' = Live(byId)
    BY <1>3, <1>4 DEF Live
  <2> QED  BY <2>1, <2>2 DEF IInv, FocusOK, ChannelFollowsFocus
<1>8. ViewOK'
  <2>1. shown' = Put(shown, id, byId'[id].status) /\ id \in DOMAIN byId'
    BY <1>1, <1>2, <1>3, <1>4
  <2>2. \A i \in Live(byId') \ {id} : i \in Live(byId) /\ byId'[i] = byId[i]
    BY <1>4 DEF Live
  <2> QED  BY <1>1, <1>4, <2>1, <2>2, RowShown
<1>9. SingleBridge' /\ DiscoveringBridge'
  <2>1. UNCHANGED <<single, phase, discovering, timers, sessions>>
    BY <1>1 DEF loopVars
  <2>2. \A i \in DOMAIN byId' : i \in DOMAIN byId /\ byId'[i].name = byId[i].name
    BY <1>3, <1>4
  <2> QED  BY <1>1, <1>5, <2>1, <2>2, LifeCycleStays
<1> QED  BY <1>4, <1>6, <1>7, <1>8, <1>9 DEF IInv

-----------------------------------------------------------------------------
(* A daemon lost. *)

LEMMA DaemonLostStep ==
  ASSUME IInv, NEW c \in DOMAIN client, client[c].boot = "none", NEW left \in 0..MaxResubs,
         DaemonLost(c, left)
  PROVE  IInv'
<1> DEFINE n     == client[c].name
           ended == EndedWith(n)
           view  == Restrict(shown, DOMAIN shown \ ended)
           r     == [client[c] EXCEPT !.phase = "failed", !.sub = FALSE, !.resubs = left]
<1>1. /\ byId' = [id \in DOMAIN byId |->
                   IF id \in ended THEN [byId[id] EXCEPT !.ended = TRUE] ELSE byId[id]]
      /\ KillChannelIf(single \/ focused \in ended)
      /\ sessions' = SessionsAfterLoss(n)
      /\ client' = Reachable([client EXCEPT ![c] = r], sessions')
      /\ phase' = IF single THEN "idle" ELSE phase
      /\ shown' = IF single THEN view ELSE EmitBoard(view, byId')
      /\ UNCHANGED <<single, disposed, byKey, nextId, focused, clientSize, loopVars, pendingOps,
                     approvalVars, failedNotified>>
  BY DEF DaemonLost
<1>2. client[c] \in Client /\ r \in Client /\ r.boot = "none" /\ r.name = n
  BY DEF IInv, ClientsOK, Client
<1>3. /\ DOMAIN byId' = DOMAIN byId
      /\ \A id \in DOMAIN byId :
           /\ byId'[id].name = byId[id].name /\ byId'[id].pane = byId[id].pane
           /\ byId'[id] \in Entry
           /\ id \notin ended => byId'[id] = byId[id]
           /\ id \in ended => byId'[id].ended
  BY <1>1 DEF IInv, PanesOK, Entry
<1>4. Live(byId)' = Live(byId) \ ended
  BY <1>3 DEF EndedWith, Live
<1>5. DOMAIN view \subseteq DeviceIds /\ view \in [DOMAIN view -> Statuses]
  BY DEF IInv, ViewOK, Restrict
<1> HIDE DEF r, ended, view
<1>6. DOMAIN sessions' = IF single THEN DOMAIN sessions \ {n} ELSE DOMAIN sessions
  BY <1>1 DEF SessionsAfterLoss, Restrict
<1>7. /\ ClientsOK'
      /\ DOMAIN client' \subseteq DOMAIN client
      /\ \A d \in DOMAIN client' : client'[d] = IF d = c THEN r ELSE client[d]
      /\ \A e \in {"attach", "refresh"} : Booting(e)' = Booting(e) \ {c}
  <2>1. DOMAIN sessions' \subseteq Names /\ sessions' \in [DOMAIN sessions' -> DOMAIN client]
    BY <1>1 DEF IInv, ClientsOK, SessionsAfterLoss, Restrict
  <2> QED  BY <1>1, <1>2, <2>1, ClientUpdated DEF IInv
<1>8. \A e \in {"attach", "refresh"} : Booting(e)' = Booting(e)
  BY <1>7 DEF Booting
<1>9. PanesOK'
  <2>1. byId' \in [DOMAIN byId' -> Entry]
    BY <1>1, <1>3
  <2>2. KeyIndexSound'
    <3>1. /\ \A k \in DOMAIN byKey : byKey[k] \in DOMAIN byId /\ k = <<byId[byKey[k]].name, byId[byKey[k]].pane>>
          /\ \A id \in Live(byId) :
               LET k == <<byId[id].name, byId[id].pane>> IN k \in DOMAIN byKey /\ byKey[k] = id
      BY DEF IInv, PanesOK, KeyIndexSound
    <3>2. byKey' = byKey /\ \A id \in Live(byId)' : id \in DOMAIN byId /\ id \in Live(byId)
      BY <1>1, <1>4 DEF Live
    <3>3. \A k \in DOMAIN byKey' :
            byKey'[k] \in DOMAIN byId' /\ k = <<byId'[byKey'[k]].name, byId'[byKey'[k]].pane>>
      BY <1>3, <3>1, <3>2
    <3>4. \A id \in Live(byId)' :
            LET k == <<byId'[id].name, byId'[id].pane>> IN k \in DOMAIN byKey' /\ byKey'[k] = id
      BY <1>3, <3>1, <3>2
    <3> QED  BY <3>3, <3>4 DEF KeyIndexSound
  <2> QED  BY <1>1, <1>3, <2>1, <2>2 DEF IInv, PanesOK
<1>10. FocusOK'
  <2>1. WantedSize' = WantedSize /\ focused' = focused /\ clientSize' = clientSize
    BY <1>1 DEF WantedSize
  <2>2. CASE single \/ focused \in ended
    BY <1>1, <2>1, <2>2, BridgeAssumption DEF KillChannelIf, IInv, FocusOK, ChannelFollowsFocus
  <2>3. CASE ~(single \/ focused \in ended)
    <3>1. channel' = channel /\ channelSize' = channelSize
      BY <1>1, <2>3 DEF KillChannelIf
    <3> QED  BY <1>4, <2>1, <2>3, <3>1 DEF IInv, FocusOK, ChannelFollowsFocus
  <2> QED  BY <2>2, <2>3
<1>11. ApprovalsOK' /\ QueueOK'
  BY <1>1, Untouched
<1>12. DOMAIN client # {} /\ UNCHANGED <<discovering, timers>>
  BY <1>1 DEF loopVars
<1>13. CASE single
  <2>1. phase' = "idle" /\ shown' = view
    BY <1>1, <1>13
  <2>2. ModesOK' /\ ViewOK'
    BY <1>1, <1>5, <2>1 DEF IInv, ModesOK, ViewOK, BoardMirrors
  <2>3. LoopOK'
    BY <1>1, <1>8, <1>12, <1>13 DEF IInv, LoopOK, Armed, Enumerating, Refreshing
  <2>4. SingleBridge'
    <3>1. /\ discovering = {} /\ timers = 0 /\ Booting("refresh") = {}
          /\ \A d \in DOMAIN client : client[d].name = SingleName
          /\ DOMAIN sessions \subseteq {SingleName}
          /\ \A id \in DOMAIN byId : byId[id].name = SingleName
      BY <1>13 DEF IInv, SingleBridge
    <3>2. DOMAIN sessions' = {}
      BY <1>6, <1>13, <3>1
    <3>3. \A d \in DOMAIN client' : client'[d].name = SingleName
      BY <1>2, <1>7, <3>1
    <3> QED  BY <1>3, <1>8, <1>12, <2>1, <3>1, <3>2, <3>3 DEF SingleBridge, SomeAttached
  <2>5. DiscoveringBridge'
    BY <1>1, <1>13 DEF DiscoveringBridge
  <2> QED  BY <1>7, <1>9, <1>10, <1>11, <2>2, <2>3, <2>4, <2>5 DEF IInv
<1>14. CASE ~single
  <2>1. phase' = phase /\ shown' = EmitBoard(view, byId')
    BY <1>1, <1>14
  <2>2. ModesOK' /\ LoopOK'
    BY <1>1, <1>8, <2>1, Untouched
  <2>3. ViewOK'
    BY <1>5, <1>9, <2>1, ViewRefreshed
  <2>4. SingleBridge'
    BY <1>1, <1>14 DEF SingleBridge
  <2>5. DiscoveringBridge'
    <3>1. DOMAIN sessions' = DOMAIN sessions /\ single' = single
      BY <1>1, <1>6, <1>14
    <3>2. \A d \in DOMAIN client' : client'[d].name = client[d].name
      BY <1>2, <1>7
    <3> QED
      BY <1>3, <1>7, <1>8, <1>12, <1>14, <2>1, <3>1, <3>2 DEF IInv, DiscoveringBridge
  <2> QED  BY <1>7, <1>9, <1>10, <1>11, <2>2, <2>3, <2>4, <2>5 DEF IInv
<1> QED  BY <1>13, <1>14

LEMMA SubClosedStep == ASSUME IInv, NEW c \in Clients, SubClosed(c) PROVE IInv'
<1>1. c \in DOMAIN client /\ client[c].sub /\ DaemonLost(c, client[c].resubs)
  BY DEF SubClosed
<1>2. client[c].boot = "none" /\ client[c].resubs \in 0..MaxResubs
  BY <1>1, Booted DEF Client
<1> QED  BY <1>1, <1>2, DaemonLostStep

LEMMA ResubFailsStep == ASSUME IInv, NEW c \in Clients, ResubFails(c) PROVE IInv'
<1>1. c \in DOMAIN client /\ client[c].resubs > 0 /\ DaemonLost(c, client[c].resubs - 1)
  BY DEF ResubFails
<1>2. client[c].boot = "none" /\ client[c].resubs \in 0..MaxResubs
  BY <1>1, Booted DEF Client
<1>3. client[c].resubs - 1 \in 0..MaxResubs
  BY <1>1, <1>2, BridgeAssumption
<1> QED  BY <1>1, <1>2, <1>3, DaemonLostStep

LEMMA ResubSucceedsStep == ASSUME IInv, NEW c \in Clients, ResubSucceeds(c) PROVE IInv'
<1> DEFINE r == [client[c] EXCEPT !.resubs = @ - 1, !.sub = TRUE]
<1>1. /\ c \in DOMAIN client /\ client[c].resubs > 0
      /\ client' = [client EXCEPT ![c].resubs = @ - 1, ![c].sub = TRUE]
      /\ UNCHANGED <<single, phase, disposed, sessions, paneVars, channelVars, focused, clientSize,
                     loopVars, pendingOps, approvalVars, failedNotified, shown>>
  BY DEF ResubSucceeds
<1>2. client[c] \in Client /\ client[c].boot = "none"
  BY <1>1, Booted
<1>3. /\ r \in Client /\ r.name = client[c].name /\ r.phase = client[c].phase /\ r.boot = "none"
      /\ client' = [client EXCEPT ![c] = r]
  <2>1. /\ client[c].resubs - 1 \in 0..MaxResubs
    BY <1>1, <1>2, BridgeAssumption DEF Client
  <2>2. r \in Client /\ r.name = client[c].name /\ r.phase = client[c].phase /\ r.boot = "none"
    BY <1>2, <2>1 DEF Client
  <2>3. client' = [client EXCEPT ![c] = r]
    BY <1>1 DEF IInv, ClientsOK
  <2> QED  BY <2>2, <2>3
<1> HIDE DEF r
<1>4. /\ ClientsOK' /\ DOMAIN client' = DOMAIN client
      /\ \A d \in DOMAIN client : /\ client'[d].name = client[d].name
                                 /\ client'[d].phase = client[d].phase
                                 /\ client'[d].boot = client[d].boot
      /\ \A e \in {"attach", "refresh"} : Booting(e)' = Booting(e)
  BY <1>1, <1>2, <1>3, ResubsCounted
<1>5. UNCHANGED <<byId, discovering, timers>>
  BY <1>1 DEF paneVars, loopVars
<1>6. ModesOK' /\ PanesOK' /\ FocusOK' /\ ApprovalsOK' /\ QueueOK' /\ LoopOK'
  BY <1>1, <1>4, <1>5, Untouched
<1>7. ViewOK'
  BY <1>1, <1>4, <1>5 DEF IInv, ViewOK, BoardMirrors, Live
<1>8. SingleBridge' /\ DiscoveringBridge'
  <2>1. \A n \in DOMAIN sessions : sessions[n] \in DOMAIN client
    BY DEF IInv, ClientsOK
  <2> QED  BY <1>1, <1>4, <1>5, <2>1, LifeCycleStays
<1> QED  BY <1>4, <1>6, <1>7, <1>8 DEF IInv

-----------------------------------------------------------------------------
(* The channel, the approvals, the end. *)

LEMMA ChildExitStep == ASSUME IInv, ChildExit PROVE IInv'
<1>1. /\ channel' = 0 /\ channelSize' = NoSize
      /\ UNCHANGED <<single, phase, disposed, sessions, client, paneVars, focused, clientSize,
                     loopVars, pendingOps, approvalVars, failedNotified, shown>>
  BY DEF ChildExit, KillChannelIf
<1>2. /\ UNCHANGED <<byId, discovering, timers>>
      /\ \A e \in {"attach", "refresh"} : Booting(e)' = Booting(e)
  BY <1>1 DEF paneVars, loopVars, Booting
<1>3. ModesOK' /\ ClientsOK' /\ PanesOK' /\ ViewOK' /\ ApprovalsOK' /\ QueueOK' /\ LoopOK'
  BY <1>1, <1>2, Untouched
<1>4. FocusOK'
  BY <1>1, BridgeAssumption DEF IInv, FocusOK, ChannelFollowsFocus
<1>5. SingleBridge' /\ DiscoveringBridge'
  BY <1>1, <1>2, LifeCycleStays
<1> QED  BY <1>3, <1>4, <1>5 DEF IInv

(* The steps of an approval change nothing else. *)
LEMMA ApprovalStep ==
  ASSUME IInv, ApprovalsOK',
         UNCHANGED <<single, phase, disposed, sessions, client, paneVars, focused, channelVars,
                     clientSize, loopVars, pendingOps, failedNotified, shown>>
  PROVE  IInv'
<1>1. /\ UNCHANGED <<byId, discovering, timers>>
      /\ \A e \in {"attach", "refresh"} : Booting(e)' = Booting(e)
  BY DEF paneVars, loopVars, Booting
<1>2. ModesOK' /\ ClientsOK' /\ PanesOK' /\ FocusOK' /\ ViewOK' /\ QueueOK' /\ LoopOK'
  BY <1>1, Untouched
<1>3. SingleBridge' /\ DiscoveringBridge'
  BY <1>1, LifeCycleStays
<1> QED  BY <1>2, <1>3 DEF IInv

LEMMA ApprovalSnapshotStep ==
  ASSUME IInv, NEW id \in DeviceIds, NEW ok \in BOOLEAN, ApprovalSnapshot(id, ok)
  PROVE  IInv'
<1>1. /\ asking[id] > 0 /\ asking' = [asking EXCEPT ![id] = @ - 1]
      /\ sending' = IF ok THEN [sending EXCEPT ![id] = @ + 1] ELSE sending
      /\ approvalsInFlight' = IF ok THEN approvalsInFlight ELSE approvalsInFlight \ {id}
      /\ UNCHANGED <<single, phase, disposed, sessions, client, paneVars, focused, channelVars,
                     clientSize, loopVars, pendingOps, failedNotified, shown>>
  BY DEF ApprovalSnapshot
<1>2. /\ asking \in [DeviceIds -> Nat] /\ sending \in [DeviceIds -> Nat]
      /\ approvalsInFlight \subseteq DeviceIds /\ OneApprovalPerRow
  BY DEF IInv, ApprovalsOK
<1>3. asking[id] = 1 /\ sending[id] = 0 /\ id \in approvalsInFlight
  BY <1>1, <1>2 DEF OneApprovalPerRow
<1>4. ApprovalsOK'
  BY <1>1, <1>2, <1>3 DEF ApprovalsOK, OneApprovalPerRow
<1> QED  BY <1>1, <1>4, ApprovalStep

LEMMA ApprovalSentStep ==
  ASSUME IInv, NEW id \in DeviceIds, ApprovalSent(id)
  PROVE  IInv'
<1>1. /\ sending[id] > 0 /\ sending' = [sending EXCEPT ![id] = @ - 1] /\ asking' = asking
      /\ approvalsInFlight' = approvalsInFlight \ {id}
      /\ UNCHANGED <<single, phase, disposed, sessions, client, paneVars, focused, channelVars,
                     clientSize, loopVars, pendingOps, failedNotified, shown>>
  BY DEF ApprovalSent
<1>2. /\ asking \in [DeviceIds -> Nat] /\ sending \in [DeviceIds -> Nat]
      /\ approvalsInFlight \subseteq DeviceIds /\ OneApprovalPerRow
  BY DEF IInv, ApprovalsOK
<1>3. sending[id] = 1 /\ asking[id] = 0 /\ id \in approvalsInFlight
  <2>1. asking[id] \in Nat /\ sending[id] \in Nat /\ sending[id] > 0
    BY <1>1, <1>2
  <2>2. asking[id] + sending[id] = IF id \in approvalsInFlight THEN 1 ELSE 0
    BY <1>2 DEF OneApprovalPerRow
  <2> QED  BY <2>1, <2>2
<1>4. ApprovalsOK'
  BY <1>1, <1>2, <1>3 DEF ApprovalsOK, OneApprovalPerRow
<1> QED  BY <1>1, <1>4, ApprovalStep

LEMMA StopStep == ASSUME IInv, Stop PROVE IInv'
<1> DEFINE cs == [c \in DOMAIN client |->
                    IF \E n \in DOMAIN sessions : sessions[n] = c
                    THEN [client[c] EXCEPT !.sub = FALSE] ELSE client[c]]
<1>1. /\ ~disposed /\ disposed' = TRUE
      /\ channel' = 0 /\ channelSize' = NoSize
      /\ client' = Reachable(cs, sessions)
      /\ timers' = IF timers > 0 THEN timers - 1 ELSE 0
      /\ UNCHANGED <<single, phase, sessions, paneVars, focused, clientSize, discovering,
                     pendingOps, approvalVars, failedNotified, shown>>
  BY DEF Stop, KillChannelIf
<1>2. /\ DOMAIN cs = DOMAIN client /\ cs \in [DOMAIN cs -> Client]
      /\ \A c \in DOMAIN client :
           /\ cs[c].name = client[c].name /\ cs[c].phase = client[c].phase
           /\ cs[c].boot = client[c].boot /\ cs[c].resubs = client[c].resubs
           /\ (cs[c].sub => client[c].sub)
  <2>1. DOMAIN cs = DOMAIN client /\ cs = [c \in DOMAIN cs |-> cs[c]]
    OBVIOUS
  <2>2. ASSUME NEW c \in DOMAIN client
        PROVE  /\ cs[c] \in Client
               /\ cs[c].name = client[c].name /\ cs[c].phase = client[c].phase
               /\ cs[c].boot = client[c].boot /\ cs[c].resubs = client[c].resubs
               /\ (cs[c].sub => client[c].sub)
    <3>1. client[c] \in Client
      BY DEF IInv, ClientsOK
    <3>2. CASE \E n \in DOMAIN sessions : sessions[n] = c
      <4>1. cs[c] = [client[c] EXCEPT !.sub = FALSE]
        BY <3>2
      <4> HIDE DEF cs
      <4> QED  BY <3>1, <4>1 DEF Client
    <3>3. CASE ~\E n \in DOMAIN sessions : sessions[n] = c
      <4>1. cs[c] = client[c]
        BY <3>3
      <4> HIDE DEF cs
      <4> QED  BY <3>1, <4>1
    <3> QED  BY <3>2, <3>3
  <2> HIDE DEF cs
  <2> QED  BY <2>1, <2>2
<1> HIDE DEF cs
<1>3. /\ DOMAIN client' \subseteq DOMAIN cs
      /\ client' = [c \in DOMAIN client' |-> cs[c]]
      /\ \A c \in DOMAIN cs :
           (cs[c].boot # "none" \/ \E n \in DOMAIN sessions : sessions[n] = c) => c \in DOMAIN client'
  BY <1>1, ReachableKeeps
<1>4. ClientsOK'
  <2>1. DOMAIN client' \subseteq Clients /\ client' \in [DOMAIN client' -> Client]
    BY <1>2, <1>3 DEF IInv, ClientsOK
  <2>2. DOMAIN sessions' \subseteq Names /\ sessions' \in [DOMAIN sessions' -> DOMAIN client']
    BY <1>1, <1>2, <1>3 DEF IInv, ClientsOK
  <2>3. \A c \in DOMAIN client' :
          client'[c].boot # "none" =>
            client'[c].phase = "starting" /\ ~client'[c].sub /\ client'[c].resubs = 0
    BY <1>2, <1>3 DEF IInv, ClientsOK
  <2> QED  BY <2>1, <2>2, <2>3 DEF ClientsOK
<1>5. /\ DOMAIN client' \subseteq DOMAIN client
      /\ \A c \in DOMAIN client' : /\ client'[c].name = client[c].name
                                  /\ client'[c].phase = client[c].phase
                                  /\ client'[c].boot = client[c].boot
      /\ \A c \in DOMAIN client : client[c].boot # "none" => c \in DOMAIN client'
  BY <1>2, <1>3
<1>6. \A e \in {"attach", "refresh"} : Booting(e)' = Booting(e)
  BY <1>5 DEF Booting
<1>7. UNCHANGED <<byId, byKey, nextId>>
  BY <1>1 DEF paneVars
<1>8. PanesOK' /\ ApprovalsOK' /\ QueueOK'
  BY <1>1, Untouched
<1>9. ModesOK'
  BY <1>1 DEF IInv, ModesOK
<1>10. FocusOK'
  BY <1>1, BridgeAssumption DEF IInv, FocusOK, ChannelFollowsFocus
<1>11. ViewOK'
  BY <1>1, <1>5, <1>7 DEF IInv, ViewOK, BoardMirrors, Live
<1>12. timers' = 0
  BY <1>1 DEF IInv, LoopOK
<1>13. LoopOK'
  BY <1>1, <1>6, <1>12 DEF IInv, LoopOK, Armed, Enumerating, Refreshing
<1>14. SingleBridge'
  <2> SUFFICES ASSUME single PROVE SingleBridge'
    BY <1>1 DEF SingleBridge
  <2>1. /\ discovering = {} /\ timers = 0 /\ Booting("refresh") = {}
        /\ \A c \in DOMAIN client : client[c].name = SingleName
        /\ DOMAIN sessions \subseteq {SingleName}
        /\ \A id \in DOMAIN byId : byId[id].name = SingleName
        /\ phase = "ready" => SingleName \in DOMAIN sessions
        /\ phase = "idle" => ~SomeAttached(client, sessions)
    BY DEF IInv, SingleBridge
  <2>2. \A n \in DOMAIN sessions : sessions[n] \in DOMAIN client'
    BY <1>1, <1>4 DEF ClientsOK
  <2>3. phase = "idle" => ~SomeAttached(client', sessions')
    BY <1>1, <1>5, <2>1, <2>2 DEF SomeAttached
  <2> QED  BY <1>1, <1>5, <1>6, <1>7, <1>12, <2>1, <2>3 DEF SingleBridge
<1>15. DiscoveringBridge'
  <2> SUFFICES ASSUME ~single PROVE DiscoveringBridge'
    BY <1>1 DEF DiscoveringBridge
  <2> QED  BY <1>1, <1>5, <1>6, <1>7, <1>12 DEF IInv, DiscoveringBridge
<1> QED
  BY <1>4, <1>8, <1>9, <1>10, <1>11, <1>13, <1>14, <1>15 DEF IInv

-----------------------------------------------------------------------------
(* Every step keeps the invariant. *)

LEMMA NextStep == IInv /\ [Next]_vars => IInv'
<1> SUFFICES ASSUME IInv, [Next]_vars PROVE IInv'
  OBVIOUS
<1>1. CASE AttachIdle  BY <1>1, AttachIdleStep
<1>2. CASE AttachWhileStarting  BY <1>2, AttachWhileStartingStep
<1>3. CASE AttachReady  BY <1>3, AttachReadyStep
<1>4. CASE \E targets \in SUBSET Names : DiscoverAttach(targets) \/ DiscoverRefresh(targets)
  BY <1>4, DiscoverAttachStep, DiscoverRefreshStep
<1>5. CASE DiscoverAttachFails  BY <1>5, DiscoverAttachFailsStep
<1>6. CASE DiscoverRefreshFails  BY <1>6, DiscoverRefreshFailsStep
<1>7. CASE RefreshTimer  BY <1>7, RefreshTimerStep
<1>8. CASE \E op \in DeviceOps : Route(op)  BY <1>8, RouteStep
<1>9. CASE FlushOp  BY <1>9, FlushStep
<1>10. ASSUME NEW c \in Clients,
              \/ BootSnapshot(c) \/ BootSucceeds(c) \/ BootFails(c)
              \/ SubClosed(c) \/ ResubSucceeds(c) \/ ResubFails(c)
       PROVE  IInv'
  BY <1>10, BootSnapshotStep, BootSucceedsStep, BootFailsStep, SubClosedStep, ResubSucceedsStep,
     ResubFailsStep
<1>11. ASSUME NEW c \in Clients, NEW p \in Panes,
              \/ PaneCreated(c, p) \/ PaneExited(c, p) \/ AgentDetected(c, p)
              \/ \E status \in Statuses : StatusChanged(c, p, status)
       PROVE  IInv'
  BY <1>11, PaneCreatedStep, PaneExitedStep, AgentDetectedStep, StatusChangedStep
<1>12. CASE ChildExit  BY <1>12, ChildExitStep
<1>13. ASSUME NEW id \in DeviceIds,
              (\E ok \in BOOLEAN : ApprovalSnapshot(id, ok)) \/ ApprovalSent(id)
       PROVE  IInv'
  BY <1>13, ApprovalSnapshotStep, ApprovalSentStep
<1>14. CASE Stop  BY <1>14, StopStep
<1>15. CASE UNCHANGED vars
  <2>1. UNCHANGED <<single, phase, disposed, sessions, client, byId, byKey, nextId, paneVars, focused,
                    channelVars, clientSize, loopVars, discovering, timers, pendingOps,
                    approvalsInFlight, asking, sending, failedNotified, shown>>
    BY <1>15 DEF vars, paneVars, channelVars, loopVars, approvalVars
  <2>2. \A e \in {"attach", "refresh"} : Booting(e)' = Booting(e)
    BY <2>1 DEF Booting
  <2>3. ModesOK' /\ ClientsOK' /\ PanesOK' /\ FocusOK' /\ ViewOK' /\ QueueOK' /\ LoopOK' /\ ApprovalsOK'
    BY <2>1, <2>2, Untouched DEF approvalVars
  <2>4. SingleBridge' /\ DiscoveringBridge'
    BY <2>1, <2>2, LifeCycleStays
  <2> QED  BY <2>3, <2>4 DEF IInv
<1> QED
  BY <1>1, <1>2, <1>3, <1>4, <1>5, <1>6, <1>7, <1>8, <1>9, <1>10, <1>11, <1>12, <1>13, <1>14, <1>15
     DEF Next

(* The inductive invariant, for any number of daemons, panes and clients,  *)
(* in either mode of the bridge.                                           *)
THEOREM InvHolds == Spec => []IInv
BY InitInv, NextStep, PTL DEF Spec

(* The state of the bridge has its type: one refresh timer at most, and    *)
(* only sessions and panes that exist are referred to.                     *)
THEOREM TypeCorrect == Spec => []TypeOK
BY InvHolds, InvTypes, PTL

(* The control channel is on the focused pane, which is live, and has the  *)
(* size the device last sent, whatever attaches, fails or exits.           *)
THEOREM ChannelOnFocus == Spec => []ChannelFollowsFocus
BY InvHolds, InvIsSound, PTL

(* A row has at most one approval outstanding between its snapshot and its *)
(* send_keys.                                                              *)
THEOREM OneApproval == Spec => []OneApprovalPerRow
BY InvHolds, InvIsSound, PTL

(* The (session, pane) index finds every live pane, and no other session's.*)
THEOREM IndexSound == Spec => []KeyIndexSound
BY InvHolds, InvIsSound, PTL

(* A ready bridge that boots nothing has shown the device every live pane  *)
(* with its status.                                                        *)
THEOREM BoardIsMirrored == Spec => []BoardMirrors
BY InvHolds, InvIsSound, PTL

(* The refresh loop neither dies nor doubles. *)
THEOREM LoopLives == Spec => []RefreshLoopAlive
BY InvHolds, InvIsSound, PTL

(* No attached client is bootstrapped again. *)
THEOREM BootsFresh == Spec => []BootsAreFresh
BY InvHolds, InvIsSound, PTL

-----------------------------------------------------------------------------
(* What a step does to the pane table. *)

IdsKept ==
  /\ nextId' >= nextId
  /\ \A id \in DOMAIN byId' :
       IF id \in DOMAIN byId
       THEN /\ byId'[id].name = byId[id].name /\ byId'[id].pane = byId[id].pane
            /\ (byId[id].ended => byId'[id].ended)
       ELSE id >= nextId

LossIsolated ==
  \A i, j \in Live(byId) :
    i \notin Live(byId') /\ j \notin Live(byId') => byId[i].name = byId[j].name

LEMMA PanesAdded ==
  ASSUME IInv, NEW n \in Names, NEW ps \in SUBSET Panes, NEW status \in [ps -> Statuses],
         EnsureSessions(n, ps, status)
  PROVE  IdsKept /\ LossIsolated
<1>1. /\ nextId' >= nextId /\ DOMAIN byId \subseteq DOMAIN byId'
      /\ \A id \in DOMAIN byId : byId'[id] = byId[id]
      /\ \A id \in DOMAIN byId' \ DOMAIN byId : id >= nextId
  BY SessionsEnsured DEF IInv, FocusOK
<1>2. Live(byId) \subseteq Live(byId')
  BY <1>1 DEF Live
<1> QED  BY <1>1, <1>2 DEF IdsKept, LossIsolated

LEMMA PanesEnded ==
  ASSUME IInv, NEW c \in DOMAIN client, NEW left, DaemonLost(c, left)
  PROVE  IdsKept /\ LossIsolated
<1> DEFINE n == client[c].name
<1>1. /\ byId' = [id \in DOMAIN byId |->
                   IF id \in EndedWith(n) THEN [byId[id] EXCEPT !.ended = TRUE] ELSE byId[id]]
      /\ nextId' = nextId
  BY DEF DaemonLost
<1>2. /\ DOMAIN byId' = DOMAIN byId
      /\ \A id \in DOMAIN byId :
           /\ byId'[id].name = byId[id].name /\ byId'[id].pane = byId[id].pane
           /\ (byId[id].ended => byId'[id].ended)
           /\ (id \notin EndedWith(n) => byId'[id] = byId[id])
  BY <1>1 DEF IInv, PanesOK, Entry
<1>3. \A id \in Live(byId) : id \notin Live(byId') => byId[id].name = n
  BY <1>2 DEF Live, EndedWith, OfSession
<1>4. nextId \in Nat
  BY BridgeAssumption DEF IInv, PanesOK
<1> QED  BY <1>1, <1>2, <1>3, <1>4 DEF IdsKept, LossIsolated

LEMMA PanesStep == IInv /\ [Next]_vars => IdsKept /\ LossIsolated
<1> SUFFICES ASSUME IInv, [Next]_vars PROVE IdsKept /\ LossIsolated
  OBVIOUS
<1>0. nextId \in Nat
  BY BridgeAssumption DEF IInv, PanesOK
<1>1. ASSUME UNCHANGED paneVars PROVE IdsKept /\ LossIsolated
  BY <1>0, <1>1 DEF paneVars, IdsKept, LossIsolated
<1>2. ASSUME NEW c \in Clients, BootSnapshot(c) PROVE IdsKept /\ LossIsolated
  <2>1. c \in DOMAIN client /\ client[c].name \in Names
    BY <1>2 DEF BootSnapshot, IInv, ClientsOK, Client
  <2>2. PICK ps \in SUBSET Panes : \E status \in [ps -> Statuses] :
          EnsureSessions(client[c].name, ps, status)
    BY <1>2 DEF BootSnapshot
  <2> QED  BY <2>1, <2>2, PanesAdded
<1>3. ASSUME NEW c \in Clients, NEW p \in Panes, PaneCreated(c, p) PROVE IdsKept /\ LossIsolated
  <2>1. c \in DOMAIN client /\ client[c].name \in Names
    BY <1>3 DEF PaneCreated, IInv, ClientsOK, Client
  <2>2. PICK status \in [{p} -> Statuses] : EnsureSessions(client[c].name, {p}, status)
    BY <1>3 DEF PaneCreated
  <2> QED  BY <2>1, <2>2, PanesAdded
<1>4. ASSUME NEW c \in Clients, BootFails(c) PROVE IdsKept /\ LossIsolated
  <2> DEFINE n == client[c].name
  <2>1. DropSessionPanes(n)
    BY <1>4 DEF BootFails
  <2> HIDE DEF n
  <2>2. /\ nextId' = nextId /\ DOMAIN byId' = DOMAIN byId \ OfSession(byId, n)
        /\ \A id \in DOMAIN byId' : byId'[id] = byId[id]
    BY <2>1, SessionDropped DEF IInv
  <2>3. \A id \in Live(byId) : id \notin Live(byId') => byId[id].name = n
    BY <2>2 DEF Live, OfSession
  <2> QED  BY <1>0, <2>2, <2>3 DEF IdsKept, LossIsolated
<1>5. ASSUME NEW c \in Clients, SubClosed(c) \/ ResubFails(c) PROVE IdsKept /\ LossIsolated
  BY <1>5, PanesEnded DEF SubClosed, ResubFails
<1>6. ASSUME NEW c \in Clients, NEW p \in Panes, PaneExited(c, p) PROVE IdsKept /\ LossIsolated
  <2> DEFINE id == byKey[<<client[c].name, p>>]
  <2>1. /\ byId' = [byId EXCEPT ![id].ended = TRUE] /\ nextId' = nextId
        /\ c \in DOMAIN client /\ Known(c, p)
    BY <1>6 DEF PaneExited
  <2>2. id \in DOMAIN byId /\ byId[id] \in Entry
    BY <2>1, KnownEntry
  <2> HIDE DEF id
  <2>3. /\ DOMAIN byId' = DOMAIN byId
        /\ \A i \in DOMAIN byId :
             /\ byId'[i].name = byId[i].name /\ byId'[i].pane = byId[i].pane
             /\ (byId[i].ended => byId'[i].ended)
             /\ (i # id => byId'[i] = byId[i])
    BY <2>1, <2>2 DEF IInv, PanesOK, Entry
  <2>4. \A i \in Live(byId) : i \notin Live(byId') => i = id
    BY <2>3 DEF Live
  <2>5. IdsKept
    BY <1>0, <2>1, <2>3 DEF IdsKept
  <2>6. LossIsolated
    BY <2>4 DEF LossIsolated
  <2> QED  BY <2>5, <2>6
<1>7. ASSUME NEW c \in Clients, NEW p \in Panes, NEW status \in Statuses, StatusChanged(c, p, status)
      PROVE  IdsKept /\ LossIsolated
  <2> DEFINE id == byKey[<<client[c].name, p>>]
  <2>1. /\ byId' = [byId EXCEPT ![id].status = status] /\ nextId' = nextId
    BY <1>7 DEF StatusChanged
  <2> HIDE DEF id
  <2>2. /\ DOMAIN byId' = DOMAIN byId
        /\ \A i \in DOMAIN byId :
             /\ byId'[i].name = byId[i].name /\ byId'[i].pane = byId[i].pane
             /\ byId'[i].ended = byId[i].ended
    BY <2>1 DEF IInv, PanesOK, Entry
  <2>3. Live(byId') = Live(byId)
    BY <2>2 DEF Live
  <2> QED  BY <1>0, <2>1, <2>2, <2>3 DEF IdsKept, LossIsolated
<1>8. ASSUME NEW op \in DeviceOps, Route(op) PROVE UNCHANGED paneVars
  BY <1>8 DEF Route
<1>9. ASSUME NEW c \in Clients, BootSucceeds(c) \/ ResubSucceeds(c) PROVE UNCHANGED paneVars
  BY <1>9 DEF BootSucceeds, ResubSucceeds
<1>10. ASSUME NEW id \in DeviceIds,
              (\E ok \in BOOLEAN : ApprovalSnapshot(id, ok)) \/ ApprovalSent(id)
       PROVE  UNCHANGED paneVars
  BY <1>10 DEF ApprovalSnapshot, ApprovalSent
<1>11. ASSUME \/ AttachIdle \/ AttachWhileStarting \/ AttachReady \/ DiscoverAttachFails
              \/ DiscoverRefreshFails \/ RefreshTimer \/ FlushOp \/ ChildExit \/ Stop
       PROVE  UNCHANGED paneVars
  BY <1>11 DEF AttachIdle, AttachWhileStarting, AttachReady, DiscoverAttachFails,
               DiscoverRefreshFails, RefreshTimer, FlushOp, ChildExit, Stop
<1>12. ASSUME NEW targets \in SUBSET Names, DiscoverAttach(targets) \/ DiscoverRefresh(targets)
       PROVE  UNCHANGED paneVars
  BY <1>12 DEF DiscoverAttach, DiscoverRefresh
<1>13. ASSUME NEW c \in Clients, NEW p \in Panes, AgentDetected(c, p) PROVE UNCHANGED paneVars
  BY <1>13 DEF AgentDetected
<1>14. CASE UNCHANGED vars
  BY <1>1, <1>14 DEF vars
<1> QED
  BY <1>1, <1>2, <1>3, <1>4, <1>5, <1>6, <1>7, <1>8, <1>9, <1>10, <1>11, <1>12, <1>13, <1>14
     DEF Next

(* A device id keeps its pane for good: it is never given out again, and a *)
(* pane that has ended does not come back under it.                        *)
THEOREM IdsStay == Spec => IdsNeverReused
<1>1. IInv /\ IInv' /\ [Next]_vars =>
        /\ nextId' >= nextId
        /\ \A id \in DOMAIN byId' :
             /\ id < nextId'
             /\ IF id \in DOMAIN byId
                THEN /\ byId'[id].name = byId[id].name /\ byId'[id].pane = byId[id].pane
                     /\ byId[id].ended => byId'[id].ended
                ELSE id >= nextId
  BY PanesStep DEF IdsKept, IInv, PanesOK
<1> QED  BY <1>1, InvHolds, PTL DEF Spec, IdsNeverReused

(* Whatever fails, the panes a step takes away are all of one session.     *)
THEOREM FailuresIsolated == Spec => IsolatedFailure
<1>1. IInv /\ [Next]_vars =>
        \A i, j \in Live(byId) :
          i \notin Live(byId') /\ j \notin Live(byId') => byId[i].name = byId[j].name
  BY PanesStep DEF LossIsolated
<1> QED  BY <1>1, InvHolds, PTL DEF Spec, IsolatedFailure
=============================================================================
