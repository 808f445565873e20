------------------------ MODULE MCDerivativePlayback ------------------------
(* Small instances of DerivativeCache and of PlaybackSessions. Sessions write *)
(* below a directory of their own and share no state with the cleaners, so a  *)
(* behaviour has work for one of them, and the other one is at rest.          *)
EXTENDS MCDerivativeCache, PlaybackSessions

VARIABLE busy
all == <<vars, playVars, busy>>

SessionSymmetry ==
  Permutations(Worker) \cup Permutations(Session) \cup Permutations(Lease) \cup Permutations(Key)

(* A cache in which nobody has anything to do. *)
AtRest ==
  /\ item = "included" /\ revision = 1 /\ used = MaxEvents
  /\ row = [p \in Path |-> "none"] /\ current = {} /\ outbox = {}
  /\ job = [p \in Path |-> "none"]
  /\ owner = [p \in Path |-> Nobody] /\ expired = {}
  /\ file = [p \in Path |-> 0] /\ aside = [p \in Path |-> 0] /\ old = {}
  /\ phase = [w \in Worker |-> "idle"] /\ target = [w \in Worker |-> Nobody]
  /\ step = [c \in Cleaner |-> "idle"] /\ entry = [c \in Cleaner |-> Nobody]
  /\ reason = [c \in Cleaner |-> "ORPHAN"] /\ seen = [c \in Cleaner |-> 0]

PlayInit ==
  /\ PlaybackInit
  /\ \/ busy = "cache" /\ Init
     \/ busy = "playback" /\ AtRest
PlayNext ==
  \/ busy = "cache" /\ Next /\ UNCHANGED <<playVars, busy>>
  \/ busy = "playback" /\ PlaybackNext /\ UNCHANGED <<vars, busy>>
PlaySpec == PlayInit /\ [][PlayNext]_all

PlayFairSpec == PlaySpec /\ CacheFairness /\ PlaybackFairness
==============================================================================
