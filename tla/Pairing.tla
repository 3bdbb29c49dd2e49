------------------------------- MODULE Pairing -------------------------------
(***************************************************************************)
(* How the device comes to a host: the pairing file on the SD card, the    *)
(* camera worker that decodes pairing codes beside the frame loop, the     *)
(* encrypted broadcast that finds the host, and the retry loop around      *)
(* connect().  main.c:553-699, cam.c, paircfg.c, discovery.c and net.c.    *)
(*                                                                         *)
(* Two threads: the frame loop (pc) and the scan worker.  s_have and       *)
(* s_running are read and written by both; s_payload is guarded by a lock, *)
(* so a copy in or out of it is one step.  ab_cam_result looks at s_have   *)
(* before it takes the lock, so that look is a step of its own.            *)
(*                                                                         *)
(* The power can go at any step, and what is on the card survives; a write *)
(* that fails or is cut leaves a beginning of the line, and the parser     *)
(* accepts some beginnings (Written).  The pairings here have no line      *)
(* break in them: Text says what happens to one that has.  The network keeps, repeats and delays datagrams.  A random challenge is     *)
(* new each time: a reply is fresh while the device waits on the probe     *)
(* whose challenge it echoes, and stale from then on.                      *)
(***************************************************************************)
EXTENDS Naturals, FiniteSets

CONSTANTS
  Keys,          \* pre-shared keys: 64 hexadecimal digits
  Addrs,         \* an ip and a port
  Tokens,        \* attach tokens
  NoKey,         \* the empty PSK of config.h: plaintext mode
  BadKey,        \* a PSK of config.h that is not 64 hexadecimal digits
  NoAddr,        \* a pairing without a host: discovery only
  NoToken,       \* a pairing without a token
  CutAddr, CutToken,  \* what an address or a token reads as when the line ends inside it
  Junk,          \* a code that is not a pairing
  Torn,          \* a file the parser refuses
  None,          \* no file, no connection
  Codes,         \* the pairings shown to the camera
  Fallbacks,     \* what config.h may have been built with
  FirstAddr,     \* where the host listens at first
  Wait,          \* RECONNECT_FRAMES
  MaxCrashes, MaxMoves  \* bounds: restarts of the device, host restarts

Config == [psk : Keys \cup {NoKey, BadKey}, addr : Addrs \cup {NoAddr},
           token : Tokens \cup {NoToken}]

(* The parser only lets a key of 64 hexadecimal digits through. *)
Pairings == {c \in Config : c.psk \in Keys}

ASSUME CodesArePairings == Codes \subseteq Pairings
ASSUME CutsAreParts == /\ CutAddr \in [Addrs \cup {NoAddr} -> SUBSET Addrs]
                       /\ CutToken \in [Tokens \cup {NoToken} -> SUBSET Tokens]
ASSUME FallbacksAreConfigs == Fallbacks \subseteq Config
ASSUME SpecialValues == /\ NoKey \notin Keys /\ BadKey \notin Keys /\ NoKey # BadKey
                        /\ NoAddr \notin Addrs /\ FirstAddr \in Addrs
                        /\ NoToken \notin Tokens
ASSUME Bounds == Wait \in Nat /\ MaxCrashes \in Nat /\ MaxMoves \in Nat

(* A decoded payload and whether the scan on the screen saw it. *)
Payload == [code : Codes \cup {Junk}, seen : BOOLEAN]
NoPayload == [code |-> Junk, seen |-> FALSE]
Reply == [key : Keys, addr : Addrs, fresh : BOOLEAN]

VARIABLES
  file,          \* sdmc:/3ds/3dsendai/pair.cfg
  built,         \* config.h
  cfg,           \* g_cfg
  psk,           \* s_psk while s_psk_active, NoKey otherwise
  socReady,      \* s_soc_ready
  configError,   \* config_error
  countdown,     \* reconnect_countdown
  scanning,      \* g_scanning
  running,       \* s_running
  worker,        \* the scan thread: "none", "frame", "holds" a payload, "exited"
  held,          \* the payload it holds
  have,          \* s_have
  payload,       \* s_payload; nothing reads it while have is FALSE
  pc,            \* where the frame loop is
  after,         \* what follows ab_cam_stop
  uri,           \* the payload handle_scan has copied
  target,        \* the address the device dials
  link,          \* the connection: None or the key it was opened under
  hostKey, hostAddr,   \* the host's SENDAI_PSK and where it listens
  air,           \* replies under way
  since,         \* while probing or dialling: where the host has listened since the probe
  given,         \* auxiliary: the pairings this device was given whole, and config.h
  crashes, moves

cardVars == <<file, given>>
scanVars == <<scanning, running, worker, held, have, payload>>
pairVars == <<cfg, psk, configError, countdown>>
hostVars == <<hostKey, hostAddr, air, since, moves>>
bootVars == <<built, socReady, crashes>>
loopVars == <<pc, after, uri, target>>
vars == <<cardVars, pairVars, bootVars, scanVars, loopVars, link, hostVars>>

(* ab_paircfg_load: any file the parser refuses counts as no file. *)
Loaded(f) == IF f \in {None, Torn} THEN built ELSE f

(* ab_net_set_psk without the test of the digits. *)
UncheckedKey(k) == k

(* ab_net_set_psk: empty is plaintext mode, a malformed key activates nothing. *)
ActiveKey(k) == IF k \in Keys THEN k ELSE NoKey

(* A line that ends inside the pairing c, or at its end: refused inside    *)
(* the key, the host or the word token=; else the key alone, the address   *)
(* with its first digits of the port or all of them, or the first letters  *)
(* of the token.                                                           *)
Beginnings(c) ==
  {Torn, c}
    \cup {[psk |-> c.psk, addr |-> a, token |-> NoToken] : a \in {NoAddr, c.addr} \cup CutAddr[c.addr]}
    \cup {[psk |-> c.psk, addr |-> c.addr, token |-> t] : t \in CutToken[c.token]}

(* Without the truncation: after the new key, the line goes on as before. *)
WrittenOver(c) == Beginnings(c) \cup {[c EXCEPT !.addr = cfg.addr, !.token = cfg.token]}

(* What a write of pairing c can leave behind when it fails or the power   *)
(* goes: the file was emptied first.                                       *)
Written(c) == Beginnings(c)

Booted(f, ready) ==
  LET c == Loaded(f) IN
    /\ cfg' = c
    /\ psk' = IF ready THEN ActiveKey(c.psk) ELSE NoKey
    /\ socReady' = ready
    /\ configError' = (~ready \/ c.psk = BadKey)
    /\ countdown' = 0

Init ==
  /\ file \in {None} \cup Codes
  /\ built \in Fallbacks
  /\ given = ({file} \cap Codes) \cup {built}
  /\ cfg = Loaded(file)
  /\ socReady \in BOOLEAN
  /\ psk = IF socReady THEN ActiveKey(cfg.psk) ELSE NoKey
  /\ configError = (~socReady \/ cfg.psk = BadKey)
  /\ countdown = 0
  /\ scanning = FALSE /\ running = FALSE /\ worker = "none"
  /\ have = FALSE /\ payload = NoPayload /\ held = NoPayload
  /\ pc = "frame" /\ after = "none" /\ uri = NoPayload
  /\ target = NoAddr /\ link = None
  /\ hostKey \in Keys /\ hostAddr = FirstAddr
  /\ air = {} /\ since = {} /\ crashes = 0 /\ moves = 0

-----------------------------------------------------------------------------
(* The scan worker. *)

(* A frame arrives and holds a code; the worker has yet to take the lock. *)
WorkerDecodes(code) ==
  /\ worker = "frame" /\ running
  /\ worker' = "holds" /\ held' = [code |-> code, seen |-> TRUE]
  /\ UNCHANGED <<cardVars, pairVars, bootVars, scanning, running, have, payload, loopVars, link, hostVars>>

WorkerHandsOver ==
  /\ worker = "holds"
  /\ payload' = held /\ have' = TRUE /\ worker' = "frame" /\ held' = NoPayload
  /\ UNCHANGED <<cardVars, pairVars, bootVars, scanning, running, loopVars, link, hostVars>>

(* CAMU_SetReceiving fails: the worker is gone and s_running stays set. *)
WorkerLosesCamera ==
  /\ worker = "frame" /\ running
  /\ worker' = "exited"
  /\ UNCHANGED <<cardVars, pairVars, bootVars, scanning, running, held, have, payload, loopVars, link, hostVars>>

(* With an unbounded wait: a stalled camera never wakes it. *)
WorkerStalls == worker = "frame" /\ ~running /\ UNCHANGED vars

(* The wait for a frame is bounded, so the worker looks at s_running again. *)
WorkerStops ==
  /\ worker = "frame" /\ ~running
  /\ worker' = "exited"
  /\ UNCHANGED <<cardVars, pairVars, bootVars, scanning, running, held, have, payload, loopVars, link, hostVars>>

-----------------------------------------------------------------------------
(* The frame loop: the scan screen, main.c:637-647. *)

(* handle_scan is called while the device is offline or misconfigured. *)
ScanAllowed == pc = "frame" /\ (configError \/ link = None)

(* The result is gone: s_have is cleared. *)
NoResult == have' = FALSE /\ payload' = NoPayload

(* ab_cam_start.  A payload a worker still holds is from another scan from *)
(* here on.                                                                *)
CamStart ==
  /\ running' = TRUE /\ worker' = "frame" /\ NoResult
  /\ held' = [held EXCEPT !.seen = FALSE]

StartScan ==
  /\ ScanAllowed /\ ~scanning
  /\ \/ CamStart /\ scanning' = TRUE
     \/ NoResult /\ UNCHANGED <<scanning, running, worker, held>>  \* no camera
  /\ pc' = "net"
  /\ UNCHANGED <<cardVars, pairVars, bootVars, after, uri, target, link, hostVars>>

(* ab_cam_stop up to the join of the worker. *)
StopThen(next) == running' = FALSE /\ pc' = "join" /\ after' = next

CancelScan ==
  /\ ScanAllowed /\ scanning
  /\ StopThen("net")
  /\ UNCHANGED <<cardVars, pairVars, bootVars, scanning, worker, held, have, payload, uri, target, link, hostVars>>

SeesResult ==
  /\ ScanAllowed /\ scanning /\ have
  /\ pc' = "copy"
  /\ UNCHANGED <<cardVars, pairVars, bootVars, scanVars, after, uri, target, link, hostVars>>

NoScanInput ==
  /\ ScanAllowed /\ (scanning => ~have)
  /\ pc' = "net"
  /\ UNCHANGED <<cardVars, pairVars, bootVars, scanVars, after, uri, target, link, hostVars>>

(* Under the lock; a code that is not a pairing leaves the scan running. *)
CopyResult ==
  /\ pc = "copy"
  /\ uri' = payload /\ NoResult
  /\ IF payload.code = Junk
       THEN pc' = "net" /\ UNCHANGED <<given, running, after>>
       ELSE StopThen("save") /\ given' = given \cup {payload.code}
  /\ UNCHANGED <<file, pairVars, bootVars, scanning, worker, held, target, link, hostVars>>

(* If ab_cam_stop left its worker behind. *)
CamAbandoned == worker' = worker /\ NoResult

(* threadJoin, then the rest of ab_cam_stop. *)
CamStopped == worker = "exited" /\ worker' = "none" /\ NoResult

Join ==
  /\ pc = "join"
  /\ CamStopped
  /\ scanning' = FALSE /\ pc' = after /\ after' = "none"
  /\ UNCHANGED <<cardVars, pairVars, bootVars, running, held, uri, target, link, hostVars>>

-----------------------------------------------------------------------------
(* Saving and applying a pairing, main.c:581-587 and 641-645. *)

(* fopen with "w" empties the file before anything is written; it may also fail. *)
OpenFile ==
  /\ pc = "save"
  /\ \/ file' = Torn /\ pc' = "write"
     \/ file' = file /\ pc' = "apply"
  /\ UNCHANGED <<given, pairVars, bootVars, scanVars, after, uri, target, link, hostVars>>

WriteFile ==
  /\ pc = "write"
  /\ \E f \in Written(uri.code) : file' = f
  /\ pc' = "apply"
  /\ UNCHANGED <<given, pairVars, bootVars, scanVars, after, uri, target, link, hostVars>>

Apply ==
  /\ pc = "apply"
  /\ cfg' = uri.code /\ psk' = ActiveKey(uri.code.psk)
  /\ configError' = FALSE /\ countdown' = 0
  /\ pc' = "net" /\ uri' = NoPayload  \* a local
  /\ UNCHANGED <<cardVars, bootVars, scanVars, after, target, link, hostVars>>

-----------------------------------------------------------------------------
(* Finding the host and connecting, main.c:649-678 and net.c:86-116, 358-409. *)

(* One offline frame of the network half. *)
WaitToRetry ==
  /\ pc = "net" /\ ~configError /\ countdown > 0
  /\ countdown' = countdown - 1 /\ pc' = "frame"
  /\ UNCHANGED <<cardVars, cfg, psk, configError, bootVars, scanVars, after, uri, target, link, hostVars>>

ShowError ==
  /\ pc = "net" /\ configError
  /\ pc' = "frame"
  /\ UNCHANGED <<cardVars, pairVars, bootVars, scanVars, after, uri, target, link, hostVars>>

Retries == pc = "net" /\ ~configError /\ countdown = 0

(* Nobody waits on the last probe any more: no later challenge is its own. *)
ProbeOver == air' = {[r EXCEPT !.fresh = FALSE] : r \in air}

(* A probe needs the socket service and a key. *)
Probe ==
  /\ Retries /\ socReady /\ psk \in Keys
  /\ pc' = "probe"
  /\ since' = {hostAddr}
  /\ UNCHANGED <<cardVars, pairVars, bootVars, scanVars, after, uri, target, link, hostKey, hostAddr, air, moves>>

(* ab_dsc_parse_reply: the reply opens under the key and echoes the challenge. *)
Accepts(r) == r.key = psk /\ r.fresh

ReplyTaken ==
  /\ pc = "probe"
  /\ \E r \in air : Accepts(r) /\ target' = r.addr
  /\ ProbeOver /\ pc' = "dial"
  /\ UNCHANGED <<cardVars, pairVars, bootVars, scanVars, after, uri, link, hostKey, hostAddr, since, moves>>

(* No answer, or no probe: the paired address, if there is one. *)
FallBack ==
  /\ \/ pc = "probe"
     \/ Retries /\ ~(socReady /\ psk \in Keys)
  /\ ProbeOver
  /\ IF cfg.addr = NoAddr
       THEN /\ countdown' = Wait /\ pc' = "frame" /\ since' = {}
            /\ UNCHANGED target
       ELSE /\ target' = cfg.addr /\ pc' = "dial"
            /\ UNCHANGED <<countdown, since>>
  /\ UNCHANGED <<cardVars, cfg, psk, configError, bootVars, scanVars, after, uri, link, hostKey, hostAddr, moves>>

(* Someone accepts at the address and, under a key, sends the epoch. *)
Connects ==
  /\ pc = "dial" /\ socReady
  /\ link' = psk /\ pc' = "frame" /\ target' = NoAddr /\ since' = {}
  /\ UNCHANGED <<cardVars, pairVars, bootVars, scanVars, after, uri, hostKey, hostAddr, air, moves>>

DialFails ==
  /\ pc = "dial"
  /\ countdown' = Wait /\ pc' = "frame" /\ target' = NoAddr /\ since' = {}
  /\ UNCHANGED <<cardVars, cfg, psk, configError, bootVars, scanVars, after, uri, link, hostKey, hostAddr, air, moves>>

(* The connection opens and ab_net_attach fails on it: no countdown. *)
AttachFails ==
  /\ pc = "dial" /\ socReady
  /\ pc' = "frame" /\ target' = NoAddr /\ since' = {}
  /\ UNCHANGED <<cardVars, pairVars, bootVars, scanVars, after, uri, link, hostKey, hostAddr, air, moves>>

(* A connected frame: a camera still running is stopped first, main.c:680-696. *)
OnlineFrame ==
  /\ pc = "frame" /\ link # None /\ ~configError
  /\ IF scanning
       THEN StopThen("poll")
       ELSE pc' = "poll" /\ UNCHANGED <<running, after>>
  /\ UNCHANGED <<cardVars, pairVars, bootVars, scanning, worker, held, have, payload, uri, target, link, hostVars>>

Poll ==
  /\ pc = "poll"
  /\ \/ UNCHANGED <<link, countdown>>
     \/ link' = None /\ countdown' = Wait
  /\ pc' = "frame"
  /\ UNCHANGED <<cardVars, cfg, psk, configError, bootVars, scanVars, after, uri, target, hostVars>>

-----------------------------------------------------------------------------
(* The host and the network; the power switch. *)

(* parseProbe and buildReply: only under the host's own key. *)
HostReplies ==
  /\ pc = "probe" /\ psk = hostKey
  /\ air' = air \cup {[key |-> hostKey, addr |-> hostAddr, fresh |-> TRUE]}
  /\ UNCHANGED <<cardVars, pairVars, bootVars, scanVars, loopVars, link, hostKey, hostAddr, since, moves>>

HostMoves(a) ==
  /\ moves < MaxMoves /\ a # hostAddr
  /\ hostAddr' = a /\ moves' = moves + 1
  /\ since' = IF since = {} THEN {} ELSE since \cup {a}
  /\ UNCHANGED <<cardVars, pairVars, bootVars, scanVars, loopVars, link, hostKey, air>>

(* The device restarts at any step, also between truncation and write. *)
Crash ==
  /\ crashes < MaxCrashes
  /\ \E ready \in BOOLEAN : Booted(file, ready)
  /\ crashes' = crashes + 1
  /\ scanning' = FALSE /\ running' = FALSE /\ worker' = "none" /\ NoResult
  /\ held' = NoPayload
  /\ pc' = "frame" /\ after' = "none" /\ uri' = NoPayload
  /\ target' = NoAddr /\ link' = None
  /\ since' = {} /\ ProbeOver
  /\ UNCHANGED <<cardVars, built, hostKey, hostAddr, moves>>

Worker == \/ \E code \in Codes \cup {Junk} : WorkerDecodes(code)
          \/ WorkerHandsOver \/ WorkerLosesCamera \/ WorkerStops

Loop == \/ StartScan \/ CancelScan \/ SeesResult \/ NoScanInput
        \/ CopyResult \/ Join \/ OpenFile \/ WriteFile \/ Apply
        \/ WaitToRetry \/ ShowError \/ Probe \/ ReplyTaken \/ FallBack
        \/ Connects \/ DialFails \/ AttachFails \/ OnlineFrame \/ Poll

Next == \/ Worker \/ Loop \/ HostReplies
        \/ \E a \in Addrs : HostMoves(a)
        \/ Crash

Spec == Init /\ [][Next]_vars

(* The frame loop and the scheduler never stop; a worker told to stop sees *)
(* it, and one that holds a payload gets the lock.  A probe repeated for   *)
(* ever is answered, its reply arrives, and a connection opens.            *)
FairSpec == /\ Spec
            /\ WF_vars(Loop) /\ WF_vars(WorkerHandsOver) /\ WF_vars(WorkerStops)
            /\ SF_vars(HostReplies) /\ SF_vars(ReplyTaken)
            /\ SF_vars(Connects /\ target = hostAddr)

-----------------------------------------------------------------------------
(* Properties. *)

(* Every variable keeps its type; in particular the frame loop never runs  *)
(* on a configuration with a malformed key.                                *)
TypeOK ==
  /\ file \in {None, Torn} \cup Pairings /\ given \subseteq Config
  /\ built \in Fallbacks /\ cfg \in Config /\ psk \in Keys \cup {NoKey}
  /\ {socReady, configError, scanning, running, have} \subseteq BOOLEAN
  /\ countdown \in 0..Wait
  /\ worker \in {"none", "frame", "holds", "exited"}
  /\ {held, payload} \subseteq Payload /\ uri \in Payload
  /\ pc \in {"frame", "join", "copy", "save", "write", "apply", "net", "probe", "dial", "poll"}
  /\ after \in {"none", "net", "save", "poll"}
  /\ target \in Addrs \cup {NoAddr}
  /\ link \in Keys \cup {NoKey, None}
  /\ hostKey \in Keys /\ hostAddr \in Addrs
  /\ air \subseteq Reply /\ since \subseteq Addrs
  /\ crashes \in 0..MaxCrashes /\ moves \in 0..MaxMoves

(* cam.c:135-160 and main.c:572-588: what is saved and applied was decoded *)
(* during the scan that is on the screen, never a payload a cancelled scan *)
(* left behind, and outside the scan screen no worker holds the camera.    *)
ScanIsFresh ==
  /\ pc \in {"save", "write", "apply"} => uri.seen /\ uri.code # Junk
  /\ worker # "none" => scanning
  /\ pc \in {"copy", "frame"} => (scanning <=> worker # "none")

(* What a line that ends inside pairing c can still be taken for: c's key, *)
(* and the rest only as far as it goes.                                    *)
CutFrom(f, c) ==
  /\ f.psk = c.psk
  /\ f.addr \in {NoAddr, c.addr} \cup CutAddr[c.addr]
  /\ f.token \in {NoToken, c.token} \cup CutToken[c.token]
  /\ f.token # NoToken => f.addr = c.addr

(* main.c:553-699, paircfg.c:97-129: a connection is only ever open under  *)
(* the key of the configuration in force, never in error and never without *)
(* a key when that configuration has one.  What the device dials is the    *)
(* configured address or where a host that holds the key has listened      *)
(* since the probe, however late a reply arrives.  And that configuration, *)
(* through cut saves and restarts, is one the device was given whole, or   *)
(* reads from the card as the beginning of one, with its key: no save that *)
(* fails mixes two pairings or makes up a key.                             *)
LinkIsPaired ==
  /\ link # None => link = cfg.psk /\ ~configError
  /\ pc = "dial" => psk = cfg.psk /\ target \in since \cup {cfg.addr}
  /\ cfg \in given \/ \E c \in given : CutFrom(cfg, c)
  /\ cfg \notin given /\ pc \notin {"write", "apply"} => file = cfg

(* main.c:649-696: a device that keeps a pairing with the host's key gets  *)
(* a connection again and again, whatever is scanned, cancelled, lost or   *)
(* moved meanwhile: no state of the scan screen stops the retries.         *)
HoldsTheKey == socReady /\ cfg.psk = hostKey
Reconnects == <>[]HoldsTheKey => []<>(link # None)
=============================================================================
