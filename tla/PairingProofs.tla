---------------------------- MODULE PairingProofs -----------------------------
(***************************************************************************)
(* Proofs about Pairing, for any keys, addresses, codes and configurations *)
(* and any number of restarts: what the scan screen applies was decoded on *)
(* it, what the device connects to is what it is paired with, and no cut   *)
(* save pairs it with anything it was not given.                           *)
(***************************************************************************)
EXTENDS Pairing, TLAPS

(* A decoded pairing is on its way to the card and to the configuration. *)
Saving == pc \in {"save", "write", "apply"} \/ (pc = "join" /\ after = "save")

(* The worker is joined exactly when the scan screen closes, and what it   *)
(* holds or has handed over, it decoded during this scan.                  *)
ScanInv ==
  /\ scanning <=> worker # "none"
  /\ worker = "holds" => held.seen
  /\ payload.code # Junk => payload.seen
  /\ pc = "join" => after # "none"
  /\ Saving => uri.seen /\ uri.code \in Codes \ {Junk}

(* A pairing is only saved while nothing is connected, and without an      *)
(* error the key in force is the configured one.                           *)
KeyInv ==
  /\ psk \in {NoKey, cfg.psk}
  /\ configError \/ psk = cfg.psk
  /\ pc \in {"probe", "dial"} => ~configError
  /\ link # None => link = psk /\ ~configError
  /\ Saving \/ pc = "copy" => link = None

(* Every fresh reply names a place where the host has listened since the   *)
(* probe it answers, and none is fresh when no probe is out.               *)
ProbeInv ==
  /\ \A r \in air : r.fresh => pc = "probe" /\ r.addr \in since
  /\ pc = "probe" => hostAddr \in since
  /\ pc = "dial" => target \in since \cup {cfg.addr}

(* What is on the card and what is in force are, as far as they go,        *)
(* pairings the device was given; only the card can bring a part of one    *)
(* into force.                                                             *)
GivenInv ==
  /\ built \in given
  /\ Saving => uri.code \in given
  /\ file \in {None, Torn} \/ \E c \in given : CutFrom(file, c)
  /\ cfg \in given \/ \E c \in given : CutFrom(cfg, c)
  /\ cfg \notin given /\ pc \notin {"write", "apply"} => file = cfg

(* The flags, apart from the other types. *)
Flags == {socReady, configError, scanning, running, have} \subseteq BOOLEAN

PairInv == TypeOK /\ ScanInv /\ KeyInv /\ ProbeInv /\ GivenInv

-----------------------------------------------------------------------------
LEMMA NothingDecoded == NoPayload \in Payload /\ NoPayload.code = Junk
BY DEF NoPayload, Payload

LEMMA LoadedIsConfig ==
  ASSUME built \in Fallbacks, NEW f \in {None, Torn} \cup Pairings
  PROVE  Loaded(f) \in Config
BY FallbacksAreConfigs DEF Loaded, Pairings

(* Whatever a cut save leaves is refused, or is a pairing made of the head *)
(* of what was saved.                                                      *)
LEMMA BeginningsAreCuts ==
  ASSUME NEW c \in Pairings, NEW f \in Beginnings(c)
  PROVE  f = Torn \/ (f \in Pairings /\ CutFrom(f, c))
<1>1. /\ c.psk \in Keys /\ c.addr \in Addrs \cup {NoAddr} /\ c.token \in Tokens \cup {NoToken}
      /\ CutAddr[c.addr] \subseteq Addrs /\ CutToken[c.token] \subseteq Tokens
  BY CutsAreParts DEF Pairings, Config
<1>2. CASE f = c
  BY <1>2 DEF CutFrom
<1>3. ASSUME NEW a \in {NoAddr, c.addr} \cup CutAddr[c.addr],
             f = [psk |-> c.psk, addr |-> a, token |-> NoToken]
      PROVE  f \in Pairings /\ CutFrom(f, c)
  BY <1>1, <1>3 DEF Pairings, Config, CutFrom
<1>4. ASSUME NEW t \in CutToken[c.token], f = [psk |-> c.psk, addr |-> c.addr, token |-> t]
      PROVE  f \in Pairings /\ CutFrom(f, c)
  BY <1>1, <1>4 DEF Pairings, Config, CutFrom
<1> QED  BY <1>2, <1>3, <1>4 DEF Beginnings

(* What is whole is a beginning of itself. *)
LEMMA WholeIsCut == \A c : CutFrom(c, c)
BY DEF CutFrom

(* Without an error, a boot activates the key it has read. *)
LEMMA BootActivates ==
  ASSUME NEW c \in Config, NEW ready \in BOOLEAN
  PROVE  LET k == IF ready THEN ActiveKey(c.psk) ELSE NoKey
         IN  /\ k \in {NoKey, c.psk} /\ k \in Keys \cup {NoKey}
             /\ (~ready \/ c.psk = BadKey) \/ k = c.psk
BY DEF Config, ActiveKey

LEMMA InitPair == Init => PairInv
<1> SUFFICES ASSUME Init PROVE PairInv
  OBVIOUS
<1> USE DEF Init
<1>1. file \in {None} \cup Pairings /\ cfg \in Config
  BY CodesArePairings, LoadedIsConfig
<1>2. /\ psk \in {NoKey, cfg.psk} /\ psk \in Keys \cup {NoKey}
      /\ configError \/ psk = cfg.psk
  BY <1>1, BootActivates
<1>3. Flags
  BY DEF Flags
<1>4. TypeOK
  <2>1. given \subseteq Config
    BY CodesArePairings, FallbacksAreConfigs DEF Pairings
  <2> QED  BY <1>1, <1>2, <1>3, <2>1, NothingDecoded, SpecialValues, Bounds DEF TypeOK, Flags
<1>5. ScanInv
  BY NothingDecoded DEF ScanInv, Saving
<1>6. KeyInv
  BY <1>2 DEF KeyInv, Saving
<1>7. ProbeInv
  BY DEF ProbeInv
<1>8. GivenInv
  BY WholeIsCut DEF GivenInv, Loaded, Saving
<1> QED  BY <1>4, <1>5, <1>6, <1>7, <1>8 DEF PairInv

(* The worker touches only what it holds and what it hands over. *)
LEMMA WorkerStep == ASSUME PairInv, Worker PROVE PairInv'
<1> USE DEF PairInv, cardVars, hostVars, pairVars, bootVars, loopVars
<1>1. ASSUME NEW code \in Codes \cup {Junk}, WorkerDecodes(code) PROVE PairInv'
  <2> USE <1>1 DEF WorkerDecodes
  <2>1. TypeOK'
    BY DEF TypeOK, Payload
  <2>2. ScanInv' /\ KeyInv' /\ ProbeInv' /\ GivenInv'
    BY DEF ScanInv, KeyInv, ProbeInv, GivenInv, Saving
  <2> QED  BY <2>1, <2>2
<1>2. CASE WorkerHandsOver
  <2> USE <1>2 DEF WorkerHandsOver
  <2>1. TypeOK'
    BY NothingDecoded DEF TypeOK
  <2>2. ScanInv' /\ KeyInv' /\ ProbeInv' /\ GivenInv'
    BY DEF ScanInv, KeyInv, ProbeInv, GivenInv, Saving
  <2> QED  BY <2>1, <2>2
<1>3. CASE WorkerLosesCamera \/ WorkerStops
  <2> USE <1>3 DEF WorkerLosesCamera, WorkerStops
  <2>1. TypeOK'
    BY DEF TypeOK
  <2>2. ScanInv' /\ KeyInv' /\ ProbeInv' /\ GivenInv'
    BY DEF ScanInv, KeyInv, ProbeInv, GivenInv, Saving
  <2> QED  BY <2>1, <2>2
<1> QED  BY <1>1, <1>2, <1>3 DEF Worker

(* The scan screen, up to the copy of a decoded pairing. *)
ScanScreen == \/ StartScan \/ CancelScan \/ SeesResult \/ NoScanInput
              \/ CopyResult \/ Join \/ OnlineFrame

LEMMA ScanStep == ASSUME PairInv, ScanScreen PROVE PairInv'
<1> USE DEF PairInv, cardVars, hostVars, pairVars, bootVars, scanVars, ScanAllowed, StopThen, NoResult
<1>1. CASE StartScan
  <2> USE <1>1 DEF StartScan, CamStart
  <2>1. Flags' /\ held' \in Payload
    BY DEF TypeOK, Payload, Flags
  <2>2. TypeOK'
    BY <2>1, NothingDecoded DEF TypeOK, Flags
  <2>3. ScanInv' /\ KeyInv' /\ ProbeInv' /\ GivenInv'
    BY NothingDecoded DEF ScanInv, KeyInv, ProbeInv, GivenInv, Saving
  <2> QED  BY <2>2, <2>3
<1>2. CASE CancelScan \/ SeesResult \/ NoScanInput \/ OnlineFrame
  <2> USE <1>2 DEF CancelScan, SeesResult, NoScanInput, OnlineFrame
  <2>1. TypeOK'
    BY DEF TypeOK
  <2>2. ScanInv' /\ KeyInv' /\ ProbeInv' /\ GivenInv'
    BY DEF ScanInv, KeyInv, ProbeInv, GivenInv, Saving
  <2> QED  BY <2>1, <2>2
<1>3. CASE CopyResult
  <2> USE <1>3 DEF CopyResult
  <2>1. payload.code \in Codes \cup {Junk}
    BY DEF TypeOK, Payload
  <2>2. given' \subseteq Config /\ given \subseteq given'
    BY <2>1, CodesArePairings DEF TypeOK, Pairings
  <2>4. TypeOK'
    BY <2>2, NothingDecoded DEF TypeOK
  <2>3. ScanInv' /\ KeyInv' /\ ProbeInv' /\ GivenInv'
    BY <2>1, <2>2, NothingDecoded DEF ScanInv, KeyInv, ProbeInv, GivenInv, Saving
  <2> QED  BY <2>3, <2>4
<1>4. CASE Join
  <2> USE <1>4 DEF Join, CamStopped
  <2>1. TypeOK'
    BY NothingDecoded DEF TypeOK, ScanInv
  <2>2. ScanInv' /\ KeyInv' /\ ProbeInv' /\ GivenInv'
    BY NothingDecoded DEF ScanInv, KeyInv, ProbeInv, GivenInv, Saving, TypeOK
  <2> QED  BY <2>1, <2>2
<1> QED  BY <1>1, <1>2, <1>3, <1>4 DEF ScanScreen

(* Saving and applying: nothing is connected meanwhile, so the new key     *)
(* comes into force before anything is opened under it.                    *)
SavesPairing == OpenFile \/ WriteFile \/ Apply

LEMMA SaveStep == ASSUME PairInv, SavesPairing PROVE PairInv'
<1> USE DEF PairInv, cardVars, hostVars, bootVars, scanVars
<1>1. Saving => uri.code \in Codes
  BY DEF ScanInv
<1>2. CASE OpenFile \/ WriteFile
  <2> USE <1>2 DEF OpenFile, WriteFile, pairVars
  <2>1. Saving
    BY DEF Saving
  <2>2. /\ file' \in {None, Torn} \cup Pairings
        /\ file' \in {file, Torn} \/ CutFrom(file', uri.code)
    BY <1>1, <2>1, CodesArePairings, BeginningsAreCuts DEF Written, TypeOK
  <2>3. TypeOK'
    BY <2>2 DEF TypeOK
  <2>4. ScanInv' /\ KeyInv' /\ ProbeInv' /\ GivenInv'
    BY <2>1, <2>2 DEF ScanInv, KeyInv, ProbeInv, GivenInv, Saving
  <2> QED  BY <2>3, <2>4
<1>3. CASE Apply
  <2> USE <1>3 DEF Apply
  <2>1. Saving
    BY DEF Saving
  <2>2. cfg' \in Config /\ psk' \in Keys /\ psk' = cfg'.psk
    BY <1>1, <2>1, CodesArePairings DEF Pairings, Config, ActiveKey
  <2>3. Flags'
    BY DEF TypeOK, Flags
  <2>4. TypeOK'
    BY <2>2, <2>3, NothingDecoded, Bounds DEF TypeOK, Flags
  <2>5. link' = None
    BY <2>1 DEF KeyInv
  <2>6. ScanInv' /\ KeyInv' /\ ProbeInv' /\ GivenInv'
    BY <2>1, <2>2, <2>5 DEF ScanInv, KeyInv, ProbeInv, GivenInv, Saving
  <2> QED  BY <2>4, <2>6
<1> QED  BY <1>2, <1>3 DEF SavesPairing

(* After a probe, nothing in the air is fresh. *)
LEMMA StaleReplies ==
  ASSUME air \subseteq Reply, ProbeOver
  PROVE  air' \subseteq Reply /\ \A r \in air' : ~r.fresh
BY DEF ProbeOver, Reply

(* Looking for the host and connecting. *)
Connecting == \/ WaitToRetry \/ ShowError \/ Probe \/ ReplyTaken \/ FallBack
              \/ Connects \/ DialFails \/ AttachFails \/ Poll

LEMMA ConnectStep == ASSUME PairInv, Connecting PROVE PairInv'
<1> USE DEF PairInv, cardVars, hostVars, pairVars, bootVars, scanVars, Retries, ProbeOver
<1>1. CASE WaitToRetry \/ ShowError \/ DialFails \/ AttachFails \/ Poll
  <2> USE <1>1 DEF WaitToRetry, ShowError, DialFails, AttachFails, Poll
  <2>1. TypeOK'
    BY Bounds DEF TypeOK
  <2>2. ScanInv' /\ KeyInv' /\ ProbeInv' /\ GivenInv'
    BY DEF ScanInv, KeyInv, ProbeInv, GivenInv, Saving
  <2> QED  BY <2>1, <2>2
<1>2. CASE Probe
  <2> USE <1>2 DEF Probe
  <2>1. TypeOK'
    BY DEF TypeOK
  <2>2. ScanInv' /\ KeyInv' /\ ProbeInv' /\ GivenInv'
    BY DEF ScanInv, KeyInv, ProbeInv, GivenInv, Saving
  <2> QED  BY <2>1, <2>2
<1>3. CASE ReplyTaken
  <2> USE <1>3 DEF ReplyTaken, Accepts
  <2>1. /\ target' \in since /\ since \subseteq Addrs
        /\ air' \subseteq Reply /\ \A r \in air' : ~r.fresh
    BY StaleReplies DEF ProbeInv, TypeOK
  <2>2. TypeOK'
    BY <2>1 DEF TypeOK
  <2>3. ScanInv' /\ KeyInv' /\ ProbeInv' /\ GivenInv'
    BY <2>1 DEF ScanInv, KeyInv, ProbeInv, GivenInv, Saving
  <2> QED  BY <2>2, <2>3
<1>4. CASE FallBack
  <2> USE <1>4 DEF FallBack
  <2>1. /\ cfg.addr \in Addrs \cup {NoAddr}
        /\ air' \subseteq Reply /\ \A r \in air' : ~r.fresh
    BY StaleReplies DEF TypeOK, Config
  <2>2. TypeOK'
    BY <2>1, Bounds DEF TypeOK
  <2>3. ScanInv' /\ KeyInv' /\ ProbeInv' /\ GivenInv'
    BY <2>1 DEF ScanInv, KeyInv, ProbeInv, GivenInv, Saving
  <2> QED  BY <2>2, <2>3
<1>5. CASE Connects
  <2> USE <1>5 DEF Connects
  <2>1. TypeOK'
    BY DEF TypeOK
  <2>2. ScanInv' /\ KeyInv' /\ ProbeInv' /\ GivenInv'
    BY DEF ScanInv, KeyInv, ProbeInv, GivenInv, Saving
  <2> QED  BY <2>1, <2>2
<1> QED  BY <1>1, <1>2, <1>3, <1>4, <1>5 DEF Connecting

(* The host answers from where it listens, and moves. *)
LEMMA HostStep ==
  ASSUME PairInv, HostReplies \/ \E a \in Addrs : HostMoves(a)
  PROVE  PairInv'
<1> USE DEF PairInv, cardVars, pairVars, bootVars, scanVars, loopVars
<1>1. CASE HostReplies
  <2> USE <1>1 DEF HostReplies
  <2> DEFINE reply == [key |-> hostKey, addr |-> hostAddr, fresh |-> TRUE]
  <2>1. hostKey \in Keys /\ hostAddr \in Addrs /\ air \subseteq Reply
    BY DEF TypeOK
  <2>2. reply \in Reply
    BY <2>1 DEF Reply
  <2>3. air' = air \cup {reply}
    OBVIOUS
  <2>4. TypeOK'
    BY <2>1, <2>2, <2>3 DEF TypeOK
  <2>5. ScanInv' /\ KeyInv' /\ GivenInv'
    BY DEF ScanInv, KeyInv, GivenInv, Saving
  <2>6. ProbeInv'
    BY DEF ProbeInv
  <2> QED  BY <2>4, <2>5, <2>6
<1>2. ASSUME NEW a \in Addrs, HostMoves(a) PROVE PairInv'
  <2> USE <1>2 DEF HostMoves
  <2>1. TypeOK'
    BY Bounds DEF TypeOK
  <2>2. ScanInv' /\ KeyInv' /\ GivenInv'
    BY DEF ScanInv, KeyInv, GivenInv, Saving
  <2>3. ProbeInv'
    BY DEF ProbeInv
  <2> QED  BY <2>1, <2>2, <2>3
<1> QED  BY <1>1, <1>2

(* A restart keeps the file and nothing else of the device. *)
LEMMA CrashStep == ASSUME PairInv, Crash PROVE PairInv'
<1> USE DEF PairInv, cardVars, Crash, NoResult
<1>1. PICK ready \in BOOLEAN : Booted(file, ready)
  OBVIOUS
<1>2. /\ built \in Fallbacks /\ file \in {None, Torn} \cup Pairings
      /\ air' \subseteq Reply /\ \A r \in air' : ~r.fresh
  BY StaleReplies DEF TypeOK
<1>3. cfg' \in Config
  BY <1>1, <1>2, LoadedIsConfig DEF Booted
<1>4. /\ psk' \in {NoKey, cfg'.psk} /\ psk' \in Keys \cup {NoKey}
      /\ configError' \/ psk' = cfg'.psk
  BY <1>1, <1>3, BootActivates DEF Booted
<1>5. Flags'
  BY <1>1 DEF TypeOK, Booted, Flags
<1>6. TypeOK'
  BY <1>1, <1>2, <1>3, <1>4, <1>5, NothingDecoded, Bounds DEF TypeOK, Booted, Flags
<1>7. ScanInv'
  BY NothingDecoded DEF ScanInv, Saving
<1>8. KeyInv' /\ ProbeInv'
  BY <1>2, <1>4 DEF KeyInv, ProbeInv, Saving
<1>9. GivenInv'
  BY <1>1 DEF GivenInv, Booted, Loaded, Saving
<1> QED  BY <1>6, <1>7, <1>8, <1>9

-----------------------------------------------------------------------------
(* Every step of the two threads, the host and the power switch keeps the  *)
(* invariant.                                                              *)
THEOREM PairInductive == Spec => []PairInv
<1>1. ASSUME PairInv, [Next]_vars PROVE PairInv'
  <2>1. CASE Next
    BY <1>1, <2>1, WorkerStep, ScanStep, SaveStep, ConnectStep, HostStep, CrashStep
       DEF Next, Loop, ScanScreen, SavesPairing, Connecting
  <2>2. CASE UNCHANGED vars
    <3> USE <1>1, <2>2 DEF vars, cardVars, hostVars, pairVars, bootVars, scanVars, loopVars, PairInv
    <3>1. TypeOK'
      BY DEF TypeOK
    <3>2. ScanInv' /\ KeyInv' /\ ProbeInv' /\ GivenInv'
      BY DEF ScanInv, KeyInv, ProbeInv, GivenInv, Saving
    <3> QED  BY <3>1, <3>2
  <2> QED  BY <1>1, <2>1, <2>2
<1> QED  BY InitPair, <1>1, PTL DEF Spec

(* Every variable of the pairing keeps its type. *)
THEOREM PairingTypeCorrect == Spec => []TypeOK
BY PairInductive, PTL DEF PairInv

(* What is saved and applied was decoded on this scan screen, whatever a   *)
(* cancelled scan left behind, and no worker outlives it.                  *)
THEOREM AppliedIsScanned == Spec => []ScanIsFresh
<1>1. PairInv => ScanIsFresh
  BY DEF PairInv, ScanInv, ScanIsFresh, Saving
<1> QED  BY PairInductive, <1>1, PTL

(* A connection is open under the key of the configuration in force only,  *)
(* what is dialled is its address or a place the host has listened at      *)
(* since the probe, and that configuration is one the device was given, or *)
(* the head of one that a cut save left on the card.                       *)
THEOREM ConnectedAsPaired == Spec => []LinkIsPaired
<1>1. PairInv => LinkIsPaired
  <2> SUFFICES ASSUME PairInv PROVE LinkIsPaired
    OBVIOUS
  <2>1. link # None => link = cfg.psk /\ ~configError
    BY DEF PairInv, KeyInv
  <2>2. pc = "dial" => psk = cfg.psk /\ target \in since \cup {cfg.addr}
    BY DEF PairInv, KeyInv, ProbeInv
  <2>3. /\ cfg \in given \/ \E c \in given : CutFrom(cfg, c)
        /\ cfg \notin given /\ pc \notin {"write", "apply"} => file = cfg
    BY DEF PairInv, GivenInv
  <2> QED  BY <2>1, <2>2, <2>3 DEF LinkIsPaired
<1> QED  BY PairInductive, <1>1, PTL
===============================================================================
