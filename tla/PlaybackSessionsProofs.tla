------------------------ MODULE PlaybackSessionsProofs ------------------------
(***************************************************************************)
(* Theorems about PlaybackSessions, for any sessions, viewers, segments,   *)
(* limits and numbers of visits and incidents.                             *)
(***************************************************************************)
EXTENDS PlaybackSessions, FiniteSetTheorems, TLAPS

(* The parts of PlaybackTypeOK.                                             *)

ManagerTypes ==
  /\ service \in {"open", "stopping", "swept", "closed"} /\ watching \in BOOLEAN
  /\ starting \in Lease \cup {Nothing} /\ verdict \in Session \cup {Nothing}
  /\ slot \in Session \cup {Job, Nothing}
  /\ visits \in 0..MaxVisits /\ incidents \in 0..MaxIncidents
RunTypes ==
  /\ run \in [Session -> InMap \cup {"none", "removing", "gone"}]
  /\ keyOf \in [Session -> Key \cup {Nothing}]
  /\ next \in [Session -> Segment] /\ fallback \in [Session -> 0..2]
  /\ cancelled \subseteq Session /\ failed \subseteq Session
  /\ seek \in [Session -> Segment \cup {Nothing}]
EncoderTypes ==
  /\ start \in [Session -> Segment] /\ produced \in [Session -> 0..Last + 1]
  /\ pos \in [Session -> 0..Last + 1] /\ segments \in [Session -> SUBSET Segment]
  /\ gen \in [Session -> {"none", "slot", "encoding", "done"}]
  /\ result \in [Session -> {"none", "ok", "error", "hardware"}]
LeaseTypes ==
  /\ sessionOf \in [Lease -> Session \cup {Nothing}]
  /\ known \subseteq Lease /\ held \subseteq Lease /\ stale \subseteq Lease
  /\ want \in [Lease -> Segment \cup {Nothing}] /\ at \in [Lease -> {"idle", "poll", "push"}]
Places == Cardinality(Registered) <= MaxSessions
SlotIsUsed == \A s \in Session : slot = s <=> gen[s] = "encoding"

(* What they rest on.                                                       *)

\* There is a generate only while run waits for it.
GenerateIsAwaited == \A s \in Session : gen[s] # "none" => run[s] \in {"generating", "draining", "stopping"}
\* A request that waits wants a segment.
WaitsForSegment == \A t \in Lease : at[t] # "idle" => want[t] \in Segment
\* A lease was given for a session that had begun.
LeaseOfBegun == \A t \in Lease : sessionOf[t] \in Session => run[sessionOf[t]] # "none"
\* CancelAll waits for the mutex, so no start is past its check afterwards.
SweptIsShut == service \in {"swept", "closed"} => starting = Nothing

PlayInv ==
  /\ ManagerTypes /\ RunTypes /\ EncoderTypes /\ LeaseTypes /\ Places /\ SlotIsUsed
  /\ GenerateIsAwaited /\ WaitsForSegment /\ LeaseOfBegun /\ LeasesLead
  /\ SweptIsShut /\ ClosedIsEmpty

\* The parts are all of it.
LEMMA TypeParts ==
  PlaybackTypeOK <=> ManagerTypes /\ RunTypes /\ EncoderTypes /\ LeaseTypes /\ Places /\ SlotIsUsed
BY DEF PlaybackTypeOK, ManagerTypes, RunTypes, EncoderTypes, LeaseTypes, Places, SlotIsUsed

(* One lemma for each part of the invariant.                                *)

\* A start gives a lease of a session that is there, or of one that begins, or none.
LEMMA StartGives ==
  ASSUME PlayInv, EndStart
  PROVE  \/ UNCHANGED <<run, leases>>
         \/ \E s \in Session :
              /\ starting \in Lease /\ Gives(starting, s)
              /\ \/ s \in Registered /\ UNCHANGED run
                 \/ run[s] = "none" /\ run' = [run EXCEPT ![s] = "top"]
<1>1. PICK k \in Key : Join(k) \/ Create(k) \/ Refuse(k)
  BY DEF EndStart
<1>2. starting \in Lease
  BY DEF EndStart, PlayInv, ManagerTypes
<1>3. CASE Join(k)
  BY <1>2, <1>3 DEF Join, Of, Registered, runs
<1>4. CASE Create(k)
  BY <1>2, <1>4 DEF Create
<1>5. CASE Refuse(k)
  BY <1>5 DEF Refuse, runs
<1> QED BY <1>1, <1>3, <1>4, <1>5

\* Service, monitor, slot and counters.
LEMMA ManagerTypesStep == PlayInv /\ [PlaybackNext]_playVars => ManagerTypes'
<1> SUFFICES ASSUME PlayInv, [PlaybackNext]_playVars PROVE ManagerTypes'
  OBVIOUS
<1> USE PlaybackAssumption DEF PlayInv, ManagerTypes, Unlocked, Visit, Incident, Uncounted, manager, runs,
      views, encoders, leases, requests
<1>1. ASSUME NEW t \in Lease, Viewer(t) \/ Requests(t) PROVE ManagerTypes'
  BY <1>1 DEF Viewer, Requests, BeginStart, Ask, Release, LastEnds, GivesUp, Send, Answered, GoesStale, Serve,
     Poll, Ticks
<1>2. ASSUME EndStart PROVE ManagerTypes'
  BY <1>2 DEF EndStart, Join, Create, Refuse, Gives, Of
<1>3. ASSUME NEW s \in Session, Runs(s) PROVE ManagerTypes'
  BY <1>3 DEF Runs, Launch, TakeSeek, NoticeEnd, Drained, Judge, FallsBack, Leave, ForgetLeases, RemoveAll
<1>4. ASSUME NEW s \in Session, Generates(s) \/ Report(s) \/ Break(s) \/ Withdraw(s) PROVE ManagerTypes'
  BY <1>4 DEF Generates, Acquire, Encode, Finish, Returns, Interrupt, Report, Break, Withdraw
<1>5. ASSUME Monitor \/ JobTranscodes \/ JobReturns \/ Stop \/ Close \/ UNCHANGED playVars PROVE ManagerTypes'
  <2>1. CASE \E s \in Session : Review(s)
    BY <2>1 DEF Review, TooOld
  <2>2. CASE CancelIdle
    BY <2>2 DEF CancelIdle
  <2>3. CASE JobTranscodes
    BY <2>3 DEF JobTranscodes
  <2>4. CASE JobReturns
    BY <2>4 DEF JobReturns
  <2>5. CASE Stop
    BY <2>5 DEF Stop
  <2>6. CASE MonitorEnds \/ Sweep \/ Awaited \/ UNCHANGED playVars
    BY <2>6 DEF MonitorEnds, Sweep, Awaited, playVars
  <2> QED BY <1>5, <2>1, <2>2, <2>3, <2>4, <2>5, <2>6 DEF Monitor, Close
<1> QED BY <1>1, <1>2, <1>3, <1>4, <1>5 DEF PlaybackNext

\* What run and the requests keep of a session.
LEMMA RunTypesStep == PlayInv /\ [PlaybackNext]_playVars => RunTypes'
<1> SUFFICES ASSUME PlayInv, [PlaybackNext]_playVars PROVE RunTypes'
  OBVIOUS
<1> USE PlaybackAssumption DEF PlayInv, RunTypes, InMap, Registered, manager, runs, views, encoders, leases,
      requests
<1>1. ASSUME NEW t \in Lease, Viewer(t) \/ Requests(t) PROVE RunTypes'
  <2>1. CASE Release(t)
    BY <2>1 DEF Release, LastEnds, LeaseTypes, LeasesLead
  <2>2. CASE GivesUp(t)
    BY <2>2 DEF GivesUp, Send, Answered, WaitsForSegment
  <2>3. CASE Ticks(t)
    BY <2>3 DEF Ticks, Send, WaitsForSegment
  <2>4. CASE BeginStart(t) \/ (\E i \in Segment : Ask(t, i)) \/ GoesStale(t) \/ Serve(t) \/ Poll(t)
    BY <2>4 DEF BeginStart, Ask, GoesStale, Serve, Answered, Poll
  <2> QED BY <1>1, <2>1, <2>2, <2>3, <2>4 DEF Viewer, Requests
<1>2. ASSUME EndStart PROVE RunTypes'
  BY <1>2 DEF EndStart, Join, Create, Refuse, Gives, Of
<1>3. ASSUME NEW s \in Session, Runs(s) PROVE RunTypes'
  BY <1>3 DEF Runs, Launch, TakeSeek, NoticeEnd, Drained, Judge, FallsBack, Leave, ForgetLeases, RemoveAll
<1>4. ASSUME NEW s \in Session, Generates(s) \/ Report(s) \/ Break(s) \/ Withdraw(s) PROVE RunTypes'
  BY <1>4 DEF Generates, Acquire, Encode, Finish, Returns, Interrupt, Report, Break, Withdraw
<1>5. ASSUME Monitor \/ JobTranscodes \/ JobReturns \/ Stop \/ Close \/ UNCHANGED playVars PROVE RunTypes'
  <2>1. CASE CancelIdle
    BY <2>1 DEF CancelIdle, ManagerTypes
  <2>2. CASE (\E s \in Session : Review(s)) \/ MonitorEnds \/ JobTranscodes \/ JobReturns \/ Stop \/ Sweep \/
        Awaited \/ UNCHANGED playVars
    BY <2>2 DEF Review, TooOld, MonitorEnds, JobTranscodes, JobReturns, Stop, Sweep, Awaited, playVars
  <2> QED BY <1>5, <2>1, <2>2 DEF Monitor, Close
<1> QED BY <1>1, <1>2, <1>3, <1>4, <1>5 DEF PlaybackNext

\* What generate keeps of a session, in a video that ends after Last.
LEMMA EncoderTypesStep == PlayInv /\ [PlaybackNext]_playVars => EncoderTypes'
<1> SUFFICES ASSUME PlayInv, [PlaybackNext]_playVars PROVE EncoderTypes'
  OBVIOUS
<1> USE PlaybackAssumption DEF PlayInv, EncoderTypes, Segment, manager, runs, views, encoders, leases, requests
<1>1. ASSUME NEW t \in Lease, Viewer(t) \/ Requests(t) PROVE EncoderTypes'
  BY <1>1 DEF Viewer, Requests, BeginStart, Ask, Release, LastEnds, GivesUp, Send, Answered, GoesStale, Serve,
     Poll, Ticks
<1>2. ASSUME EndStart PROVE EncoderTypes'
  BY <1>2 DEF EndStart, Join, Create, Refuse, Gives, Of
<1>3. ASSUME NEW s \in Session, Runs(s) PROVE EncoderTypes'
  BY <1>3 DEF Runs, Launch, TakeSeek, NoticeEnd, Drained, Judge, FallsBack, Leave, ForgetLeases, RemoveAll,
     RunTypes
<1>4. ASSUME NEW s \in Session, Generates(s) \/ Report(s) \/ Break(s) \/ Withdraw(s) PROVE EncoderTypes'
  BY <1>4 DEF Generates, Acquire, Encode, Finish, Returns, Interrupt, Report, Break, Withdraw
<1>5. ASSUME Monitor \/ JobTranscodes \/ JobReturns \/ Stop \/ Close \/ UNCHANGED playVars PROVE EncoderTypes'
  BY <1>5 DEF Monitor, Close, Review, TooOld, CancelIdle, MonitorEnds, JobTranscodes, JobReturns, Stop, Sweep,
     Awaited, playVars
<1> QED BY <1>1, <1>2, <1>3, <1>4, <1>5 DEF PlaybackNext

\* Leases and requests.
LEMMA LeaseTypesStep == PlayInv /\ [PlaybackNext]_playVars => LeaseTypes'
<1> SUFFICES ASSUME PlayInv, [PlaybackNext]_playVars PROVE LeaseTypes'
  OBVIOUS
<1> USE PlaybackAssumption DEF PlayInv, LeaseTypes, manager, runs, views, encoders, leases, requests
<1>1. ASSUME NEW t \in Lease, Viewer(t) \/ Requests(t) PROVE LeaseTypes'
  BY <1>1 DEF Viewer, Requests, BeginStart, Ask, Release, LastEnds, GivesUp, Send, Answered, GoesStale, Serve,
     Poll, Ticks
<1>2. ASSUME EndStart PROVE LeaseTypes'
  BY <1>2, StartGives DEF Gives, EndStart
<1>3. ASSUME NEW s \in Session, Runs(s) PROVE LeaseTypes'
  BY <1>3 DEF Runs, Launch, TakeSeek, NoticeEnd, Drained, Judge, FallsBack, Leave, ForgetLeases, RemoveAll
<1>4. ASSUME NEW s \in Session, Generates(s) \/ Report(s) \/ Break(s) \/ Withdraw(s) PROVE LeaseTypes'
  BY <1>4 DEF Generates, Acquire, Encode, Finish, Returns, Interrupt, Report, Break, Withdraw
<1>5. ASSUME Monitor \/ JobTranscodes \/ JobReturns \/ Stop \/ Close \/ UNCHANGED playVars PROVE LeaseTypes'
  BY <1>5 DEF Monitor, Close, Review, TooOld, CancelIdle, MonitorEnds, JobTranscodes, JobReturns, Stop, Sweep,
     Awaited, playVars
<1> QED BY <1>1, <1>2, <1>3, <1>4, <1>5 DEF PlaybackNext

\* The slot goes to one encoder and comes back when it returns.
LEMMA SlotStep == PlayInv /\ [PlaybackNext]_playVars => SlotIsUsed'
<1> SUFFICES ASSUME PlayInv, [PlaybackNext]_playVars PROVE SlotIsUsed'
  OBVIOUS
<1> USE PlaybackAssumption DEF PlayInv, SlotIsUsed, manager, runs, views, encoders, leases, requests
<1>1. ASSUME NEW t \in Lease, Viewer(t) \/ Requests(t) PROVE SlotIsUsed'
  BY <1>1 DEF Viewer, Requests, BeginStart, Ask, Release, LastEnds, GivesUp, Send, Answered, GoesStale, Serve,
     Poll, Ticks
<1>2. ASSUME EndStart PROVE SlotIsUsed'
  BY <1>2 DEF EndStart, Join, Create, Refuse, Gives, Of
<1>3. ASSUME NEW s \in Session, Runs(s) PROVE SlotIsUsed'
  BY <1>3 DEF Runs, Launch, TakeSeek, NoticeEnd, Drained, Judge, FallsBack, Leave, ForgetLeases, RemoveAll,
     EncoderTypes, GenerateIsAwaited, InMap
<1>4. ASSUME NEW s \in Session, Generates(s) \/ Report(s) \/ Break(s) \/ Withdraw(s) PROVE SlotIsUsed'
  BY <1>4 DEF Generates, Acquire, Encode, Finish, Returns, Interrupt, Report, Break, Withdraw, EncoderTypes
<1>5. ASSUME Monitor \/ JobTranscodes \/ JobReturns \/ Stop \/ Close \/ UNCHANGED playVars PROVE SlotIsUsed'
  BY <1>5 DEF Monitor, Close, Review, TooOld, CancelIdle, MonitorEnds, JobTranscodes, JobReturns, Stop, Sweep,
     Awaited, playVars, EncoderTypes
<1> QED BY <1>1, <1>2, <1>3, <1>4, <1>5 DEF PlaybackNext

\* run launches a generate after it has taken the result of the one before.
LEMMA AwaitedStep == PlayInv /\ [PlaybackNext]_playVars => GenerateIsAwaited'
<1> SUFFICES ASSUME PlayInv, [PlaybackNext]_playVars PROVE GenerateIsAwaited'
  OBVIOUS
<1> USE PlaybackAssumption DEF PlayInv, GenerateIsAwaited, manager, runs, views, encoders, leases, requests
<1>1. ASSUME NEW t \in Lease, Viewer(t) \/ Requests(t) PROVE GenerateIsAwaited'
  BY <1>1 DEF Viewer, Requests, BeginStart, Ask, Release, LastEnds, GivesUp, Send, Answered, GoesStale, Serve,
     Poll, Ticks
<1>2. ASSUME EndStart PROVE GenerateIsAwaited'
  BY <1>2 DEF EndStart, Join, Create, Refuse, Gives, Of, RunTypes
<1>3. ASSUME NEW s \in Session, Runs(s) PROVE GenerateIsAwaited'
  BY <1>3 DEF Runs, Launch, TakeSeek, NoticeEnd, Drained, Judge, FallsBack, Leave, ForgetLeases, RemoveAll,
     RunTypes, EncoderTypes
<1>4. ASSUME NEW s \in Session, Generates(s) \/ Report(s) \/ Break(s) \/ Withdraw(s) PROVE GenerateIsAwaited'
  BY <1>4 DEF Generates, Acquire, Encode, Finish, Returns, Interrupt, Report, Break, Withdraw, EncoderTypes
<1>5. ASSUME Monitor \/ JobTranscodes \/ JobReturns \/ Stop \/ Close \/ UNCHANGED playVars
      PROVE GenerateIsAwaited'
  BY <1>5 DEF Monitor, Close, Review, TooOld, CancelIdle, MonitorEnds, JobTranscodes, JobReturns, Stop, Sweep,
     Awaited, playVars
<1> QED BY <1>1, <1>2, <1>3, <1>4, <1>5 DEF PlaybackNext

\* A request waits for the segment it was asked for.
LEMMA WaitsStep == PlayInv /\ [PlaybackNext]_playVars => WaitsForSegment'
<1> SUFFICES ASSUME PlayInv, [PlaybackNext]_playVars PROVE WaitsForSegment'
  OBVIOUS
<1> USE PlaybackAssumption DEF PlayInv, WaitsForSegment, manager, runs, views, encoders, leases, requests
<1>1. ASSUME NEW t \in Lease, Viewer(t) \/ Requests(t) PROVE WaitsForSegment'
  BY <1>1 DEF Viewer, Requests, BeginStart, Ask, Release, LastEnds, GivesUp, Send, Answered, GoesStale, Serve,
     Poll, Ticks, LeaseTypes
<1>2. ASSUME EndStart PROVE WaitsForSegment'
  BY <1>2 DEF EndStart, Join, Create, Refuse, Gives, Of
<1>3. ASSUME NEW s \in Session, Runs(s) PROVE WaitsForSegment'
  BY <1>3 DEF Runs, Launch, TakeSeek, NoticeEnd, Drained, Judge, FallsBack, Leave, ForgetLeases, RemoveAll
<1>4. ASSUME NEW s \in Session, Generates(s) \/ Report(s) \/ Break(s) \/ Withdraw(s) PROVE WaitsForSegment'
  BY <1>4 DEF Generates, Acquire, Encode, Finish, Returns, Interrupt, Report, Break, Withdraw
<1>5. ASSUME Monitor \/ JobTranscodes \/ JobReturns \/ Stop \/ Close \/ UNCHANGED playVars
      PROVE WaitsForSegment'
  BY <1>5 DEF Monitor, Close, Review, TooOld, CancelIdle, MonitorEnds, JobTranscodes, JobReturns, Stop, Sweep,
     Awaited, playVars
<1> QED BY <1>1, <1>2, <1>3, <1>4, <1>5 DEF PlaybackNext

\* No session goes back to where it has not begun.
LEMMA BegunStep == PlayInv /\ [PlaybackNext]_playVars => LeaseOfBegun'
<1> SUFFICES ASSUME PlayInv, [PlaybackNext]_playVars PROVE LeaseOfBegun'
  OBVIOUS
<1> USE PlaybackAssumption DEF PlayInv, LeaseOfBegun, manager, runs, views, encoders, leases, requests
<1>1. ASSUME NEW t \in Lease, Viewer(t) \/ Requests(t) PROVE LeaseOfBegun'
  BY <1>1 DEF Viewer, Requests, BeginStart, Ask, Release, LastEnds, GivesUp, Send, Answered, GoesStale, Serve,
     Poll, Ticks
<1>2. ASSUME EndStart PROVE LeaseOfBegun'
  BY <1>2, StartGives DEF Gives, EndStart, RunTypes, LeaseTypes, Registered, InMap
<1>3. ASSUME NEW s \in Session, Runs(s) PROVE LeaseOfBegun'
  BY <1>3 DEF Runs, Launch, TakeSeek, NoticeEnd, Drained, Judge, FallsBack, Leave, ForgetLeases, RemoveAll,
     RunTypes, LeaseTypes
<1>4. ASSUME NEW s \in Session, Generates(s) \/ Report(s) \/ Break(s) \/ Withdraw(s) PROVE LeaseOfBegun'
  BY <1>4 DEF Generates, Acquire, Encode, Finish, Returns, Interrupt, Report, Break, Withdraw
<1>5. ASSUME Monitor \/ JobTranscodes \/ JobReturns \/ Stop \/ Close \/ UNCHANGED playVars PROVE LeaseOfBegun'
  BY <1>5 DEF Monitor, Close, Review, TooOld, CancelIdle, MonitorEnds, JobTranscodes, JobReturns, Stop, Sweep,
     Awaited, playVars
<1> QED BY <1>1, <1>2, <1>3, <1>4, <1>5 DEF PlaybackNext

\* Leases and sessions enter and leave the tables together.
LEMMA LeadStep == PlayInv /\ [PlaybackNext]_playVars => LeasesLead'
<1> SUFFICES ASSUME PlayInv, [PlaybackNext]_playVars PROVE LeasesLead'
  OBVIOUS
<1> USE PlaybackAssumption DEF PlayInv, LeasesLead, Registered, InMap, manager, runs, views, encoders, leases,
      requests
<1>1. ASSUME NEW t \in Lease, Viewer(t) \/ Requests(t) PROVE LeasesLead'
  BY <1>1 DEF Viewer, Requests, BeginStart, Ask, Release, LastEnds, GivesUp, Send, Answered, GoesStale, Serve,
     Poll, Ticks, LeaseTypes
<1>2. ASSUME EndStart PROVE LeasesLead'
  <2>1. CASE UNCHANGED <<run, leases>>
    BY <2>1
  <2>2. ASSUME NEW s \in Session, starting \in Lease, Gives(starting, s),
               \/ s \in Registered /\ UNCHANGED run
               \/ run[s] = "none" /\ run' = [run EXCEPT ![s] = "top"]
        PROVE  LeasesLead'
    <3>1. /\ sessionOf' = [sessionOf EXCEPT ![starting] = s]
          /\ known' = known \cup {starting} /\ held' = held \cup {starting}
      BY <2>2 DEF Gives
    <3>2. s \in Registered' /\ \A r \in Session : r # s => (r \in Registered' <=> r \in Registered)
      BY <2>2 DEF RunTypes
    <3>3. \A t \in held : sessionOf[t] = s => t \in known
      BY <2>2 DEF LeaseOfBegun, LeaseTypes
    <3>4. sessionOf'[starting] = s /\ \A t \in Lease : t # starting => sessionOf'[t] = sessionOf[t]
      BY <2>2, <3>1 DEF LeaseTypes
    <3>5. \A t \in known' : t \in held' /\ sessionOf'[t] \in Registered'
      BY <3>1, <3>2, <3>4 DEF LeaseTypes
    <3>6. \A t \in held' : sessionOf'[t] \in Registered' => t \in known'
      BY <3>1, <3>2, <3>3, <3>4 DEF LeaseTypes
    <3> QED BY <3>5, <3>6
  <2> QED BY <1>2, StartGives, <2>1, <2>2
<1>3. ASSUME NEW s \in Session, Runs(s) PROVE LeasesLead'
  BY <1>3 DEF Runs, Launch, TakeSeek, NoticeEnd, Drained, Judge, FallsBack, Leave, ForgetLeases, RemoveAll,
     RunTypes, LeaseTypes
<1>4. ASSUME NEW s \in Session, Generates(s) \/ Report(s) \/ Break(s) \/ Withdraw(s) PROVE LeasesLead'
  BY <1>4 DEF Generates, Acquire, Encode, Finish, Returns, Interrupt, Report, Break, Withdraw
<1>5. ASSUME Monitor \/ JobTranscodes \/ JobReturns \/ Stop \/ Close \/ UNCHANGED playVars PROVE LeasesLead'
  BY <1>5 DEF Monitor, Close, Review, TooOld, CancelIdle, MonitorEnds, JobTranscodes, JobReturns, Stop, Sweep,
     Awaited, playVars
<1> QED BY <1>1, <1>2, <1>3, <1>4, <1>5 DEF PlaybackNext

\* A start begins only while the service is open.
LEMMA ShutStep == PlayInv /\ [PlaybackNext]_playVars => SweptIsShut'
<1> SUFFICES ASSUME PlayInv, [PlaybackNext]_playVars PROVE SweptIsShut'
  OBVIOUS
<1> USE PlaybackAssumption DEF PlayInv, SweptIsShut, Unlocked, manager, runs, views, encoders, leases, requests
<1>1. ASSUME NEW t \in Lease, Viewer(t) \/ Requests(t) PROVE SweptIsShut'
  BY <1>1 DEF Viewer, Requests, BeginStart, Ask, Release, LastEnds, GivesUp, Send, Answered, GoesStale, Serve,
     Poll, Ticks
<1>2. ASSUME EndStart PROVE SweptIsShut'
  BY <1>2 DEF EndStart, Join, Create, Refuse, Gives, Of
<1>3. ASSUME NEW s \in Session, Runs(s) PROVE SweptIsShut'
  BY <1>3 DEF Runs, Launch, TakeSeek, NoticeEnd, Drained, Judge, FallsBack, Leave, ForgetLeases, RemoveAll
<1>4. ASSUME NEW s \in Session, Generates(s) \/ Report(s) \/ Break(s) \/ Withdraw(s) PROVE SweptIsShut'
  BY <1>4 DEF Generates, Acquire, Encode, Finish, Returns, Interrupt, Report, Break, Withdraw
<1>5. ASSUME Monitor \/ JobTranscodes \/ JobReturns \/ Stop \/ Close \/ UNCHANGED playVars PROVE SweptIsShut'
  BY <1>5 DEF Monitor, Close, Review, TooOld, CancelIdle, MonitorEnds, JobTranscodes, JobReturns, Stop, Sweep,
     Awaited, playVars
<1> QED BY <1>1, <1>2, <1>3, <1>4, <1>5 DEF PlaybackNext

\* Nothing begins after Close.
LEMMA ClosedStep == PlayInv /\ [PlaybackNext]_playVars => ClosedIsEmpty'
<1> SUFFICES ASSUME PlayInv, [PlaybackNext]_playVars PROVE ClosedIsEmpty'
  OBVIOUS
<1> USE PlaybackAssumption DEF PlayInv, ClosedIsEmpty, Registered, InMap, manager, runs, views, encoders,
      leases, requests
<1>1. ASSUME NEW t \in Lease, Viewer(t) \/ Requests(t) PROVE ClosedIsEmpty'
  BY <1>1 DEF Viewer, Requests, BeginStart, Ask, Release, LastEnds, GivesUp, Send, Answered, GoesStale, Serve,
     Poll, Ticks
<1>2. ASSUME EndStart PROVE ClosedIsEmpty'
  BY <1>2 DEF EndStart, Join, Create, Refuse, Gives, Of, SweptIsShut
<1>3. ASSUME NEW s \in Session, Runs(s) PROVE ClosedIsEmpty'
  BY <1>3 DEF Runs, Launch, TakeSeek, NoticeEnd, Drained, Judge, FallsBack, Leave, ForgetLeases, RemoveAll,
     RunTypes, EncoderTypes
<1>4. ASSUME NEW s \in Session, Generates(s) \/ Report(s) \/ Break(s) \/ Withdraw(s) PROVE ClosedIsEmpty'
  BY <1>4 DEF Generates, Acquire, Encode, Finish, Returns, Interrupt, Report, Break, Withdraw, EncoderTypes
<1>5. ASSUME Monitor \/ JobTranscodes \/ JobReturns \/ Stop \/ Close \/ UNCHANGED playVars PROVE ClosedIsEmpty'
  BY <1>5 DEF Monitor, Close, Review, TooOld, CancelIdle, MonitorEnds, JobTranscodes, JobReturns, Stop, Sweep,
     Awaited, playVars, RunTypes, LeasesLead, LeaseTypes, GenerateIsAwaited, SlotIsUsed, SweptIsShut
<1> QED BY <1>1, <1>2, <1>3, <1>4, <1>5 DEF PlaybackNext

\* No step but a start adds a session to the table, and it has counted those that are there.
LEMMA PlacesStep == PlayInv /\ [PlaybackNext]_playVars => Places'
<1> SUFFICES ASSUME PlayInv, [PlaybackNext]_playVars PROVE Places'
  OBVIOUS
<1>1. IsFiniteSet(Registered) /\ Registered \subseteq Session
  BY PlaybackAssumption, FS_Subset DEF Registered
<1>2. ASSUME Registered' \subseteq Registered PROVE Places'
  <2>1. Cardinality(Registered') <= Cardinality(Registered) /\ Cardinality(Registered') \in Nat
    BY <1>1, <1>2, FS_Subset, FS_CardinalityType
  <2> QED BY <1>1, <2>1, FS_CardinalityType, PlaybackAssumption DEF PlayInv, Places
<1>3. ASSUME NEW s \in Session, Cardinality(Registered) < MaxSessions, Registered' = Registered \cup {s}
      PROVE Places'
  <2>1. Cardinality(Registered \cup {s}) = IF s \in Registered THEN Cardinality(Registered) ELSE Cardinality(Registered) + 1
    BY <1>1, FS_AddElement
  <2>2. Cardinality(Registered) \in Nat
    BY <1>1, FS_CardinalityType
  <2> QED BY <1>3, <2>1, <2>2, PlaybackAssumption DEF Places
<1> USE DEF PlayInv, RunTypes, manager, runs, views, encoders, leases, requests
<1>4. CASE EndStart
  <2>1. PICK k \in Key : Join(k) \/ Create(k) \/ Refuse(k)
    BY <1>4 DEF EndStart
  <2>2. CASE Create(k)
    <3>1. PICK s \in Session : run' = [run EXCEPT ![s] = "top"]
      BY <2>2 DEF Create
    <3>2. Registered' = Registered \cup {s}
      BY <3>1 DEF Registered, InMap
    <3> QED BY <1>3, <2>2, <3>2 DEF Create
  <2>3. CASE Join(k) \/ Refuse(k)
    BY <1>2, <2>3 DEF Join, Refuse, Registered
  <2> QED BY <2>1, <2>2, <2>3
<1>5. ASSUME NEW s \in Session, Runs(s) PROVE Registered' \subseteq Registered
  BY <1>5 DEF Runs, Launch, TakeSeek, NoticeEnd, Drained, Judge, Leave, RemoveAll, Registered, InMap
<1>6. ASSUME \/ \E t \in Lease : Viewer(t) \/ Requests(t)
             \/ \E s \in Session : Generates(s) \/ Report(s) \/ Break(s) \/ Withdraw(s)
             \/ Monitor \/ JobTranscodes \/ JobReturns \/ Stop \/ Close \/ UNCHANGED playVars
      PROVE  Registered' = Registered
  <2>1. CASE \E t \in Lease : Viewer(t) \/ Requests(t)
    BY <2>1 DEF Viewer, Requests, BeginStart, Ask, Release, GivesUp, GoesStale, Serve, Poll, Ticks, Registered
  <2>2. CASE \E s \in Session : Generates(s) \/ Report(s) \/ Break(s) \/ Withdraw(s)
    BY <2>2 DEF Generates, Acquire, Encode, Finish, Interrupt, Report, Break, Withdraw, Returns, Registered
  <2>3. CASE Monitor \/ JobTranscodes \/ JobReturns \/ Stop \/ Close \/ UNCHANGED playVars
    BY <2>3 DEF Monitor, Close, Review, CancelIdle, MonitorEnds, JobTranscodes, JobReturns, Stop, Sweep,
          Awaited,
       playVars, Registered
  <2> QED BY <1>6, <2>1, <2>2, <2>3
<1> QED BY <1>2, <1>4, <1>5, <1>6 DEF PlaybackNext

------------------------------------------------------------------------------
(* The theorems.                                                            *)

\* The service opens without a session, a lease or an encoder.
LEMMA PlayInit == PlaybackInit => PlayInv
<1> SUFFICES ASSUME PlaybackInit PROVE PlayInv
  OBVIOUS
<1> USE PlaybackAssumption DEF PlaybackInit
<1>1. ManagerTypes /\ RunTypes /\ LeaseTypes
  BY DEF ManagerTypes, RunTypes, LeaseTypes, Segment
<1>2. EncoderTypes
  BY DEF EncoderTypes, Segment
<1>3. Places
  <2>1. Registered = {}
    BY DEF Registered, InMap
  <2> QED BY <2>1, FS_EmptySet DEF Places
<1>4. SlotIsUsed /\ GenerateIsAwaited /\ WaitsForSegment /\ LeaseOfBegun
  BY DEF SlotIsUsed, GenerateIsAwaited, WaitsForSegment, LeaseOfBegun
<1>5. LeasesLead /\ SweptIsShut /\ ClosedIsEmpty
  BY DEF LeasesLead, SweptIsShut, ClosedIsEmpty
<1> QED BY <1>1, <1>2, <1>3, <1>4, <1>5 DEF PlayInv

\* The strengthening is inductive.
LEMMA PlayAlways == PlaybackSpec => []PlayInv
<1>1. PlayInv /\ [PlaybackNext]_playVars => PlayInv'
  BY ManagerTypesStep, RunTypesStep, EncoderTypesStep, LeaseTypesStep, PlacesStep, SlotStep, AwaitedStep,
     WaitsStep, BegunStep, LeadStep, ShutStep, ClosedStep DEF PlayInv
<1> QED BY PlayInit, <1>1, PTL DEF PlaybackSpec

\* Types; no more sessions than the limit of start, and one encoder in the slot, the one
\* that works.
THEOREM PlaybackTypeCorrect == PlaybackSpec => []PlaybackTypeOK
<1>1. PlayInv => PlaybackTypeOK
  BY TypeParts DEF PlayInv
<1> QED BY PlayAlways, <1>1, PTL

\* A lease answers exactly as long as a session that is there counts it, however starts,
\* releases, the monitor and ends of sessions interleave.
THEOREM LeasesLeadAlways == PlaybackSpec => []LeasesLead
<1>1. PlayInv => LeasesLead
  BY DEF PlayInv
<1> QED BY PlayAlways, <1>1, PTL

\* After Close nothing is left and nothing comes, with a start past its check at any time.
THEOREM ClosedEmptyAlways == PlaybackSpec => []ClosedIsEmpty
<1>1. PlayInv => ClosedIsEmpty
  BY DEF PlayInv
<1> QED BY PlayAlways, <1>1, PTL
==============================================================================
