--------------------------- MODULE PlaybackSessions ---------------------------
(***************************************************************************)
(* Progressive playback (videoplayback/manager.go): sessions that encode a *)
(* video into segments, the leases of their viewers, requests that wait    *)
(* for a segment and make the session seek, the monitor that ends sessions *)
(* nobody watches, the one transcode slot, and the end of the service.     *)
(*                                                                         *)
(* Goroutines are the run and the generate of each session, the monitor,   *)
(* the requests and Close.  They share the manager's mutex, the contexts,  *)
(* the seek channel of a session and its directory.  What one of them does *)
(* while it holds the mutex is one action, but for start, whose check of   *)
(* the service's context and whose insertion are two: that context is      *)
(* cancelled without the mutex.  A viewer has at most one request for a    *)
(* segment at a time.                                                      *)
(***************************************************************************)
EXTENDS Integers, FiniteSets

CONSTANTS
  Session,      \* session objects and their directories, each used once
  Key,          \* owner, item, revision and profile
  Lease,        \* lease tokens, each used once
  Nothing,      \* no session, no segment, no holder
  Job,          \* a worker of the processing queue that transcodes
  Last,         \* the last segment of a video; the first is 0
  Ahead,        \* segments past the encoder that a request waits for
  MaxSessions,  \* the limit of start
  MaxVisits,    \* bound: starts, requests, releases and incidents in a behaviour
  MaxIncidents  \* bound: incidents, which are failures, other transcodes, withdrawals
                \* and ends of the service

Segment == 0..Last

ASSUME PlaybackAssumption ==
  /\ IsFiniteSet(Session) /\ Nothing \notin Session \cup Lease \cup Key \cup Segment
  /\ Job # Nothing /\ Job \notin Session
  /\ Last \in Nat /\ Ahead \in Nat /\ MaxSessions \in Nat \ {0}
  /\ MaxVisits \in Nat /\ MaxIncidents \in Nat

VARIABLES
  service,    \* "open"; "stopping", "swept", "closed" after each step of Close
  starting,   \* the lease of a start that holds the mutex past its check
  watching,   \* the monitor is there
  verdict,    \* the session it has found idle and not cancelled yet
  run,        \* where run is
  keyOf,      \* key of a session
  next,       \* the segment run goes to
  cancelled,  \* sessions whose context is cancelled
  seek,       \* the seek channel: a segment or Nothing
  start, produced,  \* what requests compare with
  failed,     \* sessions whose status is ERROR
  fallback,   \* fallbackLevel
  segments,   \* segment files in the directory
  gen, pos,   \* where generate is, and the segment the encoder is at
  result,     \* what generate has returned
  slot,       \* playbackSlot: who transcodes
  sessionOf,  \* the session a lease was given for
  known,      \* Manager.leases
  held,       \* session.leases, of all sessions
  stale,      \* leases that nobody has used for idleTimeout
  want, at,   \* the segment a viewer waits for, and where its request is
  visits, incidents

manager == <<service, starting, watching, verdict>>
runs == <<run, keyOf, next, fallback>>
views == <<start, produced, failed>>
encoders == <<gen, pos, result, slot>>
leases == <<sessionOf, known, held, stale>>
requests == <<want, at>>
playVars == <<manager, runs, cancelled, seek, views, segments, encoders, leases, requests,
              visits, incidents>>

InMap == {"top", "generating", "draining", "stopping", "settled", "ending"}
Registered == {s \in Session : run[s] \in InMap}

PlaybackTypeOK ==
  /\ service \in {"open", "stopping", "swept", "closed"} /\ watching \in BOOLEAN
  /\ starting \in Lease \cup {Nothing} /\ verdict \in Session \cup {Nothing}
  /\ run \in [Session -> InMap \cup {"none", "removing", "gone"}]
  /\ keyOf \in [Session -> Key \cup {Nothing}]
  /\ next \in [Session -> Segment] /\ start \in [Session -> Segment]
  /\ produced \in [Session -> 0..Last + 1] /\ pos \in [Session -> 0..Last + 1]
  /\ seek \in [Session -> Segment \cup {Nothing}] /\ fallback \in [Session -> 0..2]
  /\ cancelled \subseteq Session /\ failed \subseteq Session
  /\ segments \in [Session -> SUBSET Segment]
  /\ gen \in [Session -> {"none", "slot", "encoding", "done"}]
  /\ result \in [Session -> {"none", "ok", "error", "hardware"}]
  /\ slot \in Session \cup {Job, Nothing}
  /\ sessionOf \in [Lease -> Session \cup {Nothing}]
  /\ known \subseteq Lease /\ held \subseteq Lease /\ stale \subseteq Lease
  /\ want \in [Lease -> Segment \cup {Nothing}] /\ at \in [Lease -> {"idle", "poll", "push"}]
  /\ visits \in 0..MaxVisits /\ incidents \in 0..MaxIncidents
  /\ Cardinality(Registered) <= MaxSessions
  \* the slot is the encoder's that works
  /\ \A s \in Session : slot = s <=> gen[s] = "encoding"

PlaybackInit ==
  /\ service = "open" /\ starting = Nothing /\ watching = TRUE /\ verdict = Nothing
  /\ run = [s \in Session |-> "none"] /\ keyOf = [s \in Session |-> Nothing]
  /\ next = [s \in Session |-> 0] /\ fallback = [s \in Session |-> 0]
  /\ cancelled = {} /\ seek = [s \in Session |-> Nothing]
  /\ start = [s \in Session |-> 0] /\ produced = [s \in Session |-> 0] /\ failed = {}
  /\ segments = [s \in Session |-> {}]
  /\ gen = [s \in Session |-> "none"] /\ pos = [s \in Session |-> 0]
  /\ result = [s \in Session |-> "none"] /\ slot = Nothing
  /\ sessionOf = [t \in Lease |-> Nothing] /\ known = {} /\ held = {} /\ stale = {}
  /\ want = [t \in Lease |-> Nothing] /\ at = [t \in Lease |-> "idle"]
  /\ visits = 0 /\ incidents = 0

Visit == visits < MaxVisits /\ visits' = visits + 1 /\ UNCHANGED incidents
Incident ==
  /\ visits < MaxVisits /\ visits' = visits + 1
  /\ incidents < MaxIncidents /\ incidents' = incidents + 1
Uncounted == UNCHANGED <<visits, incidents>>

\* Nobody else holds the mutex.
Unlocked == starting = Nothing

------------------------------------------------------------------------------
\* Requests of viewers.

\* start, up to its check of the service's context.
BeginStart(t) ==
  /\ Visit /\ Unlocked
  /\ service = "open"
  /\ sessionOf[t] = Nothing
  /\ starting' = t
  /\ UNCHANGED <<service, watching, verdict, runs, cancelled, seek, views, segments, encoders,
                 leases, requests>>

Gives(t, s) ==
  /\ sessionOf' = [sessionOf EXCEPT ![t] = s]
  /\ known' = known \cup {t} /\ held' = held \cup {t}
  /\ UNCHANGED stale

\* Its rest: a lease of the session that is there, or of a new one.
Of(k) == {s \in Registered : keyOf[s] = k}
Join(k) ==
  /\ \E s \in Of(k) \ cancelled : Gives(starting, s)
  /\ UNCHANGED <<runs, cancelled>>
Create(k) ==
  /\ Of(k) = {} /\ Cardinality(Registered) < MaxSessions
  /\ \E s \in Session :
       /\ run[s] = "none"
       /\ run' = [run EXCEPT ![s] = "top"]
       /\ keyOf' = [keyOf EXCEPT ![s] = k]
       /\ Gives(starting, s)
       \* the session's context is a child of the service's
       /\ cancelled' = IF service = "open" THEN cancelled ELSE cancelled \cup {s}
  /\ UNCHANGED <<next, fallback>>
\* It is closing, all places are taken, or a new directory cannot be made.
Refuse(k) ==
  /\ Of(k) \subseteq cancelled
  /\ UNCHANGED <<runs, cancelled, leases>>
EndStart ==
  /\ starting # Nothing
  /\ \E k \in Key : Join(k) \/ Create(k) \/ Refuse(k)
  /\ starting' = Nothing
  /\ UNCHANGED <<service, watching, verdict, seek, views, segments, encoders, requests>>
  /\ Uncounted

\* A request for a segment: the lease is looked up and refreshed.
Ask(t, i) ==
  /\ Visit /\ Unlocked
  /\ t \in known /\ want[t] = Nothing
  /\ stale' = stale \ {t}
  /\ want' = [want EXCEPT ![t] = i]
  /\ at' = [at EXCEPT ![t] = "poll"]
  /\ UNCHANGED <<manager, runs, cancelled, seek, views, segments, encoders, sessionOf, known, held>>

Answered(t) ==
  /\ want' = [want EXCEPT ![t] = Nothing]
  /\ at' = [at EXCEPT ![t] = "idle"]

\* The file is there and is served.
Serve(t) ==
  /\ at[t] = "poll" /\ want[t] \in segments[sessionOf[t]]
  /\ Answered(t)
  /\ UNCHANGED <<manager, runs, cancelled, seek, views, segments, encoders, leases>>
  /\ Uncounted

\* It is not: the status, start and produced are read under the mutex, and what was
\* read decides about the seek that is sent without it.
\* Faulty variant: what the encoder has passed is waited for.
OnlyTooFar(s, i) == i > produced[s] + Ahead
OutOfReach(s, i) == i < start[s] \/ i > produced[s] + Ahead
Poll(t) ==
  LET s == sessionOf[t] IN
  /\ at[t] = "poll" /\ want[t] \notin segments[s] /\ Unlocked
  /\ \/ s \in failed /\ Answered(t)
     \/ /\ s \notin failed /\ OutOfReach(s, want[t])
        /\ at' = [at EXCEPT ![t] = "push"] /\ UNCHANGED want
  /\ UNCHANGED <<manager, runs, cancelled, seek, views, segments, encoders, leases>>
  /\ Uncounted

\* The seek is sent, if there was one to send; the channel has room for one. Then
\* the select: the next tick, the end of the session's context, segmentWaitTimeout
\* or a viewer who goes away.
Send(t) ==
  LET s == sessionOf[t] IN
  seek' = IF at[t] = "push" /\ seek[s] = Nothing THEN [seek EXCEPT ![s] = want[t]] ELSE seek
Ticks(t) ==
  /\ at[t] = "push" /\ Send(t)
  /\ at' = [at EXCEPT ![t] = "poll"]
  /\ UNCHANGED <<manager, runs, cancelled, views, segments, encoders, leases, want>>
  /\ Uncounted
GivesUp(t) ==
  /\ at[t] # "idle" /\ Send(t)
  /\ Answered(t)
  /\ UNCHANGED <<manager, runs, cancelled, views, segments, encoders, leases>>
  /\ Uncounted
SeesEnd(t) == sessionOf[t] \in cancelled /\ GivesUp(t)

LastEnds(t) ==
  LET s == sessionOf[t] IN
  cancelled' = IF \E u \in held \ {t} : sessionOf[u] = s THEN cancelled ELSE cancelled \cup {s}
Release(t) ==
  /\ Visit /\ Unlocked
  /\ t \in known
  /\ known' = known \ {t} /\ held' = held \ {t}
  /\ stale' = stale \ {t}
  /\ LastEnds(t)
  /\ UNCHANGED <<manager, runs, seek, views, segments, encoders, sessionOf, requests>>

\* A lease that nobody uses for 45 s; a request has been answered after 30 s.
GoesStale(t) ==
  /\ t \in known \ stale /\ want[t] = Nothing
  /\ stale' = stale \cup {t}
  /\ UNCHANGED <<manager, runs, cancelled, seek, views, segments, encoders, sessionOf, known, held,
                 requests>>
  /\ Uncounted

------------------------------------------------------------------------------
\* run: the life of a session.

\* The top of the loop: the position is set and generate is started.
Launch(s) ==
  /\ run[s] = "top" /\ Unlocked
  /\ start' = [start EXCEPT ![s] = next[s]]
  /\ produced' = [produced EXCEPT ![s] = next[s]]
  /\ failed' = failed \ {s}
  /\ gen' = [gen EXCEPT ![s] = "slot"]
  /\ pos' = [pos EXCEPT ![s] = next[s]]
  /\ run' = [run EXCEPT ![s] = "generating"]
  /\ UNCHANGED <<manager, keyOf, next, fallback, cancelled, seek, segments, result, slot, leases,
                 requests>>
  /\ Uncounted

\* A seek is taken; a generate under way is cancelled and awaited.
TakeSeek(s) ==
  /\ run[s] \in {"generating", "settled"} /\ seek[s] # Nothing
  /\ next' = [next EXCEPT ![s] = seek[s]]
  /\ seek' = [seek EXCEPT ![s] = Nothing]
  /\ run' = [run EXCEPT ![s] = IF @ = "generating" THEN "draining" ELSE "top"]
  /\ UNCHANGED <<manager, keyOf, fallback, cancelled, views, segments, encoders, leases, requests>>
  /\ Uncounted

NoticeEnd(s) ==
  /\ run[s] \in {"generating", "settled"} /\ s \in cancelled
  /\ run' = [run EXCEPT ![s] = IF @ = "generating" THEN "stopping" ELSE "ending"]
  /\ UNCHANGED <<manager, keyOf, next, fallback, cancelled, seek, views, segments, encoders,
                 leases, requests>>
  /\ Uncounted

Drained(s) ==
  /\ run[s] \in {"draining", "stopping"} /\ gen[s] = "done"
  /\ run' = [run EXCEPT ![s] = IF @ = "draining" THEN "top" ELSE "ending"]
  /\ gen' = [gen EXCEPT ![s] = "none"] /\ result' = [result EXCEPT ![s] = "none"]
  /\ UNCHANGED <<manager, keyOf, next, fallback, cancelled, seek, views, segments, pos, slot,
                 leases, requests>>
  /\ Uncounted

\* generate has returned: a hardware failure clears the directory and tries again
\* with another backend, from the same position, if that is allowed and works.
FallsBack(s) == result[s] = "hardware" /\ fallback[s] < 2
Judge(s) ==
  /\ run[s] = "generating" /\ gen[s] = "done" /\ Unlocked
  /\ gen' = [gen EXCEPT ![s] = "none"] /\ result' = [result EXCEPT ![s] = "none"]
  /\ \/ /\ FallsBack(s)
        /\ segments' = [segments EXCEPT ![s] = {}]
        /\ \E level \in fallback[s] + 1..2 : fallback' = [fallback EXCEPT ![s] = level]
        /\ run' = [run EXCEPT ![s] = "top"]
        /\ UNCHANGED failed
     \/ /\ failed' = IF result[s] = "ok" THEN failed \ {s} ELSE failed \cup {s}
        /\ run' = [run EXCEPT ![s] = "settled"]
        /\ UNCHANGED <<segments, fallback>>
  /\ UNCHANGED <<manager, keyOf, next, cancelled, seek, start, produced, pos, slot, leases, requests>>
  /\ Uncounted

\* The deferred end: the session and its leases leave the tables ...
\* Faulty variant: only the session does.
ForgetSession(s) == UNCHANGED known
ForgetLeases(s) == known' = known \ {t \in held : sessionOf[t] = s}
Leave(s) ==
  /\ run[s] = "ending" /\ Unlocked
  /\ ForgetLeases(s)
  /\ run' = [run EXCEPT ![s] = "removing"]
  /\ UNCHANGED <<manager, keyOf, next, fallback, cancelled, seek, views, segments, encoders,
                 sessionOf, held, stale, requests>>
  /\ Uncounted

\* ... and then its directory is removed.
RemoveAll(s) ==
  /\ run[s] = "removing"
  /\ segments' = [segments EXCEPT ![s] = {}]
  /\ run' = [run EXCEPT ![s] = "gone"]
  /\ UNCHANGED <<manager, keyOf, next, fallback, cancelled, seek, views, encoders, leases, requests>>
  /\ Uncounted

------------------------------------------------------------------------------
\* generate: one encoder run, and the jobs that share its slot.

Interrupted(s) == s \in cancelled \/ run[s] \in {"draining", "stopping"}

Acquire(s) ==
  /\ gen[s] = "slot" /\ slot = Nothing
  /\ slot' = s
  /\ gen' = [gen EXCEPT ![s] = "encoding"]
  /\ UNCHANGED <<manager, runs, cancelled, seek, views, segments, pos, result, leases, requests>>
  /\ Uncounted

Encode(s) ==
  /\ gen[s] = "encoding" /\ pos[s] <= Last
  /\ segments' = [segments EXCEPT ![s] = @ \cup {pos[s]}]
  /\ pos' = [pos EXCEPT ![s] = @ + 1]
  /\ UNCHANGED <<manager, runs, cancelled, seek, views, gen, result, slot, leases, requests>>
  /\ Uncounted

\* The progress that the encoder reports, some time after it has been made.
Report(s) ==
  /\ gen[s] = "encoding" /\ Unlocked
  /\ \E p \in produced[s] + 1..pos[s] : produced' = [produced EXCEPT ![s] = p]
  /\ UNCHANGED <<manager, runs, cancelled, seek, start, failed, segments, encoders, leases, requests>>
  /\ Uncounted

\* The deferred release of the slot is part of every return.
\* Faulty variant: only an encoder that comes to its end gives it back.
ReturnsHolding(s, what) ==
  /\ gen' = [gen EXCEPT ![s] = "done"] /\ result' = [result EXCEPT ![s] = what]
  /\ slot' = IF slot = s /\ what = "ok" THEN Nothing ELSE slot
  /\ UNCHANGED <<manager, runs, cancelled, seek, views, segments, pos, leases, requests>>
Returns(s, what) ==
  /\ gen' = [gen EXCEPT ![s] = "done"] /\ result' = [result EXCEPT ![s] = what]
  /\ slot' = IF slot = s THEN Nothing ELSE slot
  /\ UNCHANGED <<manager, runs, cancelled, seek, views, segments, pos, leases, requests>>
Finish(s) == gen[s] = "encoding" /\ pos[s] > Last /\ Returns(s, "ok") /\ Uncounted
Interrupt(s) ==
  /\ gen[s] \in {"slot", "encoding"} /\ Interrupted(s)
  /\ Returns(s, "error") /\ Uncounted
Break(s) ==
  /\ gen[s] = "encoding" /\ ~Interrupted(s)
  /\ Incident
  /\ Returns(s, "error") \/ Returns(s, "hardware")

\* VideoPlaybackGenerator, for a complete file.
JobTranscodes ==
  /\ slot = Nothing /\ slot' = Job
  /\ UNCHANGED <<manager, runs, cancelled, seek, views, segments, gen, pos, result, leases, requests>>
  /\ Incident
JobReturns ==
  /\ slot = Job /\ slot' = Nothing
  /\ UNCHANGED <<manager, runs, cancelled, seek, views, segments, gen, pos, result, leases, requests>>
  /\ Uncounted

------------------------------------------------------------------------------
\* The monitor and the end of the service.

\* Leases that are too old are dropped, and whether any is left is seen under the
\* mutex; the session is cancelled after it has been given back. (A review without
\* effect, and one of a session that has left the table meanwhile, change nothing.)
\* Faulty variant: only a release takes a lease away.
NoneTooOld(s) == {}
TooOld(s) == {t \in held \cap stale : sessionOf[t] = s}
Review(s) ==
  LET idle == \A t \in held \ TooOld(s) : sessionOf[t] # s
  IN /\ watching /\ verdict = Nothing /\ Unlocked
     /\ s \in Registered
     /\ TooOld(s) # {} \/ (idle /\ s \notin cancelled)
     /\ known' = known \ TooOld(s) /\ held' = held \ TooOld(s) /\ stale' = stale \ TooOld(s)
     /\ verdict' = IF idle THEN s ELSE Nothing
     /\ UNCHANGED <<service, starting, watching, runs, cancelled, seek, views, segments, encoders,
                    sessionOf, requests>>
     /\ Uncounted
CancelIdle ==
  /\ watching /\ verdict # Nothing
  /\ cancelled' = cancelled \cup {verdict} /\ verdict' = Nothing
  /\ UNCHANGED <<service, starting, watching, runs, seek, views, segments, encoders, leases, requests>>
  /\ Uncounted

\* 30 minutes are over, a check of authorization, maintenance or content fails, or
\* the cache is full.
Withdraw(s) ==
  /\ s \in Registered \ cancelled
  /\ cancelled' = cancelled \cup {s}
  /\ UNCHANGED <<manager, runs, seek, views, segments, encoders, leases, requests>>
  /\ Incident

\* Close: the service's context, and with it every session's, is cancelled without
\* the mutex; CancelAll takes it, behind a start that is under way; then Close waits.
Stop ==
  /\ service = "open"
  /\ service' = "stopping" /\ cancelled' = cancelled \cup Registered
  /\ UNCHANGED <<starting, watching, verdict, runs, seek, views, segments, encoders, leases, requests>>
  /\ Incident
\* Faulty variant: CancelAll does without the mutex.
SweepAtOnce ==
  /\ service = "stopping"
  /\ service' = "swept" /\ cancelled' = cancelled \cup Registered
  /\ UNCHANGED <<starting, watching, verdict, runs, seek, views, segments, encoders, leases, requests>>
  /\ Uncounted
Sweep ==
  /\ service = "stopping" /\ Unlocked
  /\ service' = "swept" /\ cancelled' = cancelled \cup Registered
  /\ UNCHANGED <<starting, watching, verdict, runs, seek, views, segments, encoders, leases, requests>>
  /\ Uncounted
MonitorEnds ==
  /\ watching /\ service # "open" /\ verdict = Nothing
  /\ watching' = FALSE
  /\ UNCHANGED <<service, starting, verdict, runs, cancelled, seek, views, segments, encoders, leases,
                 requests>>
  /\ Uncounted
Awaited ==
  /\ service = "swept"
  /\ ~watching /\ \A s \in Session : run[s] \in {"none", "gone"}
  /\ service' = "closed"
  /\ UNCHANGED <<starting, watching, verdict, runs, cancelled, seek, views, segments, encoders, leases,
                 requests>>
  /\ Uncounted

------------------------------------------------------------------------------
Viewer(t) ==
  \/ BeginStart(t) \/ (\E i \in Segment : Ask(t, i)) \/ Release(t) \/ GivesUp(t) \/ GoesStale(t)
Requests(t) == Serve(t) \/ Poll(t) \/ Ticks(t)
Runs(s) ==
  Launch(s) \/ TakeSeek(s) \/ NoticeEnd(s) \/ Drained(s) \/ Judge(s) \/ Leave(s) \/ RemoveAll(s)
Generates(s) == Acquire(s) \/ Encode(s) \/ Finish(s) \/ Interrupt(s)
Monitor == (\E s \in Session : Review(s)) \/ CancelIdle \/ MonitorEnds
Close == Sweep \/ Awaited
PlaybackNext ==
  \/ \E t \in Lease : Viewer(t) \/ Requests(t)
  \/ EndStart
  \/ \E s \in Session : Runs(s) \/ Generates(s) \/ Report(s) \/ Break(s) \/ Withdraw(s)
  \/ Monitor \/ JobTranscodes \/ JobReturns
  \/ Stop \/ Close
PlaybackSpec == PlaybackInit /\ [][PlaybackNext]_playVars

\* Another viewer of the same session waits as well.
Contended(t) ==
  \E u \in Lease \ {t} : want[u] # Nothing /\ sessionOf[u] = sessionOf[t]

\* Every goroutine goes on: requests, starts, run and generate of each session, the
\* monitor, Close and the jobs. A select takes the end of a context sooner or later, and
\* leases age. That requests give up is assumed only where another viewer of the session
\* waits. Weak fairness is enough: tokens and visits are limited, so nobody finds the
\* mutex or the slot taken again and again.
PlaybackFairness ==
  /\ \A t \in Lease : /\ WF_playVars(Requests(t)) /\ WF_playVars(GoesStale(t))
                      /\ WF_playVars(SeesEnd(t)) /\ WF_playVars(GivesUp(t) /\ Contended(t))
  /\ \A s \in Session : WF_playVars(Runs(s)) /\ WF_playVars(Generates(s))
  /\ WF_playVars(EndStart) /\ WF_playVars(Monitor) /\ WF_playVars(Close)
  /\ WF_playVars(JobReturns)
PlaybackFairSpec == PlaybackSpec /\ PlaybackFairness

------------------------------------------------------------------------------
\* Properties.

\* A lease that answers leads to a session that is there and counts it, and a lease
\* that a session counts answers: the monitor judges by the leases that viewers use,
\* and no token outlives its session.
LeasesLead ==
  /\ \A t \in known : t \in held /\ sessionOf[t] \in Registered
  /\ \A t \in held : sessionOf[t] \in Registered => t \in known

\* Once Close has returned nothing of the service is left, although its context is
\* cancelled while a start may be past the check of it: no session, no encoder, no
\* lease and none to come.
ClosedIsEmpty ==
  service = "closed" => /\ Registered = {} /\ known = {} /\ starting = Nothing
                        /\ \A s \in Session : gen[s] = "none" /\ slot # s

\* Every session ends and removes its directory once its viewers have gone, whether
\* they release their leases or not, whatever fails and wherever it is: encoding,
\* seeking, waiting for the slot or settled.
SessionsEnd == \A s \in Session : run[s] # "none" ~> run[s] = "gone"

\* A request for a segment does not depend on its timeout: the session seeks to it
\* and encodes it, fails or ends, although seeks are dropped while one is under way
\* and a seek may be sent by what start and produced were before. Two viewers who
\* wait at different places of one session may keep each other from it.
RequestsAreAnswered ==
  \A t \in Lease : want[t] # Nothing ~> want[t] = Nothing \/ Contended(t)
==============================================================================
