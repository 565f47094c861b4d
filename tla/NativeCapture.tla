---------------------------- MODULE NativeCapture ----------------------------
(***************************************************************************)
(* Capture sessions of the native backend.  Any thread may call            *)
(* CaptureSession::start and end the session it got; any thread may emit.  *)
(* They share CAPTURE_ACTIVE, CATEGORY_FILTER and the Perfetto SDK, which  *)
(* is external: a session of it records what is emitted while it runs.     *)
(* A step is one access to shared state, so a call is several steps.       *)
(***************************************************************************)
EXTENDS Naturals, FiniteSets

CONSTANTS
    Owners,      \* threads that run sessions
    Emitters,    \* threads that emit
    Categories,
    AllowLists,  \* enabled_categories of the configurations; {} allows all
    MaxSessions, \* bound: sessions the SDK has started
    None

ASSUME NativeAssumption ==
    /\ AllowLists \subseteq SUBSET Categories
    /\ MaxSessions \in Nat
    /\ None \notin Nat /\ None \notin Categories
    /\ \A S \in SUBSET Categories : None # S

VARIABLES
    active,    \* CAPTURE_ACTIVE
    filter,    \* CATEGORY_FILTER, None while every category passes
    sdk,       \* number of the running SDK session, or None
    sessions,  \* SDK sessions started so far
    owner,     \* where each owner is in start, finish or drop
    config,    \* the allow-list of the session each owner runs
    emitter,   \* where each emitter is in its call
    call,      \* the category of the call, None for uncategorised records
    allowed,   \* history: session -> its allow-list
    captured,  \* history: the categorised events the sessions recorded
    checked,   \* history: the emitters whose call passed the filter after it was
               \* last written for a session
    crossed    \* history: the sessions claimed before another's filter was reset

control == <<active, filter, sdk, sessions, owner, config, allowed, crossed>>
emission == <<emitter, call, captured>>
vars == <<control, emission, checked>>

Selected(allow) == IF allow = {} THEN None ELSE allow

Init ==
    /\ active = FALSE /\ filter = None /\ sdk = None /\ sessions = 0
    /\ owner = [o \in Owners |-> "idle"] /\ config = [o \in Owners |-> {}]
    /\ emitter = [e \in Emitters |-> "idle"]
    /\ call = [e \in Emitters |-> None]
    /\ allowed = <<>> /\ captured = {} /\ checked = {} /\ crossed = {}

(***************************************************************************)
(* CaptureSession::start.  A call that loses the exchange returns          *)
(* CaptureAlreadyActive and changes nothing.                               *)
(***************************************************************************)
At(o, from, to) == owner[o] = from /\ owner' = [owner EXCEPT ![o] = to]

\* A thread has released its session and has yet to reset the filter.
ResetPending == \E o \in Owners : owner[o] = "released"

Claim(o) ==
    /\ At(o, "idle", "filter")
    /\ ~active /\ sessions < MaxSessions
    /\ active' = TRUE
    /\ \E allow \in AllowLists : config' = [config EXCEPT ![o] = allow]
    /\ crossed' = IF ResetPending THEN crossed \union {sessions + 1} ELSE crossed \ {sessions + 1}
    /\ UNCHANGED <<filter, sdk, sessions, allowed, emission, checked>>

\* Mutant of WriteFilter: an empty allow-list leaves the filter as it was.
WriteFilterIfAny(o) ==
    /\ At(o, "filter", "starting")
    /\ filter' = IF config[o] = {} THEN filter ELSE config[o]
    /\ checked' = {}
    /\ UNCHANGED <<active, sdk, sessions, config, allowed, crossed, emission>>

WriteFilter(o) ==
    /\ At(o, "filter", "starting")
    /\ filter' = Selected(config[o])
    /\ checked' = {}
    /\ UNCHANGED <<active, sdk, sessions, config, allowed, crossed, emission>>

\* Registering a track or creating the SDK session can fail.
StartFails(o) ==
    /\ At(o, "starting", "failing")
    /\ UNCHANGED <<active, filter, sdk, sessions, config, allowed, crossed, emission, checked>>

StartSdk(o) ==
    /\ At(o, "starting", "open")
    /\ sessions' = sessions + 1
    /\ sdk' = sessions + 1
    /\ allowed' = [s \in 1..sessions + 1 |->
                     IF s <= sessions THEN allowed[s] ELSE config[o]]
    /\ UNCHANGED <<active, filter, config, crossed, emission, checked>>

\* Mutant of Unclaim: the early return keeps the claim.
UnclaimForgotten(o) ==
    /\ At(o, "failing", "idle")
    /\ UNCHANGED <<active, filter, sdk, sessions, config, allowed, crossed, emission, checked>>

\* The failed start gives the claim back and leaves the filter it wrote.
Unclaim(o) ==
    /\ At(o, "failing", "idle")
    /\ active' = FALSE
    /\ UNCHANGED <<filter, sdk, sessions, config, allowed, crossed, emission, checked>>

(***************************************************************************)
(* CaptureSession::finish and Drop: stop the SDK session (finish then      *)
(* reads the trace, and may fail, which drops the session), clear          *)
(* CAPTURE_ACTIVE, and only then reset the filter.                         *)
(***************************************************************************)
\* Mutants of StopSdk and Release: the SDK goes on, the claim stays.
StopSdkForgotten(o) ==
    /\ At(o, "open", "stopped")
    /\ UNCHANGED <<active, sdk, filter, sessions, config, allowed, crossed, emission, checked>>
ReleaseForgotten(o) ==
    /\ At(o, "stopped", "released")
    /\ UNCHANGED <<active, filter, sdk, sessions, config, allowed, crossed, emission, checked>>

StopSdk(o) ==
    /\ At(o, "open", "stopped")
    /\ sdk' = None
    /\ UNCHANGED <<active, filter, sessions, config, allowed, crossed, emission, checked>>

Release(o) ==
    /\ At(o, "stopped", "released")
    /\ active' = FALSE
    /\ UNCHANGED <<filter, sdk, sessions, config, allowed, crossed, emission, checked>>

ResetFilter(o) ==
    /\ At(o, "released", "idle")
    /\ filter' = None
    /\ UNCHANGED <<active, sdk, sessions, config, allowed, crossed, emission, checked>>

(***************************************************************************)
(* Emission.  span_begin and event load CAPTURE_ACTIVE and then read the   *)
(* filter; span_end, log and counters only load CAPTURE_ACTIVE.  A call    *)
(* that ends Disabled is back where it was.                                *)
(***************************************************************************)
Begin(e, c) ==
    /\ emitter[e] = "idle" /\ active
    /\ emitter' = [emitter EXCEPT ![e] = IF c = None THEN "emit" ELSE "select"]
    /\ call' = [call EXCEPT ![e] = c]
    /\ UNCHANGED <<control, captured, checked>>

CategorySelected(c) == filter = None \/ c \in filter

Return(e) ==
    /\ emitter' = [emitter EXCEPT ![e] = "idle"]
    /\ call' = [call EXCEPT ![e] = None]

Select(e) ==
    /\ emitter[e] = "select"
    /\ IF CategorySelected(call[e])
       THEN /\ emitter' = [emitter EXCEPT ![e] = "emit"] /\ UNCHANGED call
            /\ checked' = checked \union {e}
       ELSE Return(e) /\ UNCHANGED checked
    /\ UNCHANGED <<control, captured>>

\* track_event!: recorded by the session that runs now, if one does.
Emit(e) ==
    /\ emitter[e] = "emit" /\ Return(e)
    /\ captured' = IF sdk # None /\ call[e] # None
                   THEN captured \union {[session |-> sdk, thread |-> e, category |-> call[e],
                                          checked |-> e \in checked]}
                   ELSE captured
    /\ checked' = checked \ {e}
    /\ UNCHANGED control

Session(o) == \/ Claim(o) \/ WriteFilter(o) \/ StartFails(o) \/ StartSdk(o)
              \/ Unclaim(o) \/ StopSdk(o) \/ Release(o) \/ ResetFilter(o)
Emission(e) == \/ \E c \in Categories \union {None} : Begin(e, c)
               \/ Select(e) \/ Emit(e)

Next == \/ \E o \in Owners : Session(o)
        \/ \E e \in Emitters : Emission(e)
Spec == Init /\ [][Next]_vars

\* Threads run; nobody is obliged to start or to end a session.
FairSpec ==
    /\ Spec
    /\ \A o \in Owners :
         WF_vars(\/ WriteFilter(o) \/ StartFails(o) \/ StartSdk(o) \/ Unclaim(o)
                 \/ Release(o) \/ ResetFilter(o))

-----------------------------------------------------------------------------
Holding == {"filter", "starting", "failing", "open", "stopped"}
Holders == {o \in Owners : owner[o] \in Holding}

\* Types; the session the SDK runs is one that was started.
TypeOK ==
    /\ active \in BOOLEAN
    /\ filter = None \/ filter \subseteq Categories
    /\ sessions \in 0..MaxSessions
    /\ sdk = None \/ sdk \in 1..sessions
    /\ owner \in [Owners -> Holding \union {"idle", "released"}]
    /\ config \in [Owners -> AllowLists \union {{}}]
    /\ emitter \in [Emitters -> {"idle", "select", "emit"}]
    /\ call \in [Emitters -> Categories \union {None}]
    /\ checked \subseteq Emitters /\ crossed \subseteq 1..MaxSessions

\* "Only one application-owned CaptureSession is accepted at a time, while any
\* number of sessions may run sequentially": at most one thread is between its
\* claim and its release, and CAPTURE_ACTIVE is set exactly while one is, so no
\* failed start, failed read or drop leaves the claim behind.
OneHolder ==
    /\ \A o, p \in Holders : o = p
    /\ active <=> Holders # {}

\* The SDK runs a session exactly while its owner has it open, and what a
\* session records it records while it is the only one.
SdkFollowsOwner ==
    /\ sdk # None <=> \E o \in Owners : owner[o] = "open"
    /\ sdk # None => sdk = sessions

Admitted(r) == allowed[r.session] = {} \/ r.category \in allowed[r.session]

\* "CaptureConfig controls the category allow-list": an event whose category was
\* looked up in the filter after the session had written it, and that the
\* session recorded, is on the session's allow-list.
AllowListHonoured == \A r \in captured : r.checked => Admitted(r)

\* A session's allow-list is its filter for as long as it is open, and it holds
\* back every event but two kinds, however failed starts and emissions fall.
\* The session was claimed between another's release and its reset of the
\* filter; or the call had passed the filter before the session wrote its own
\* -- in an earlier session, in a start that failed, or after this session's
\* claim.  Of the second kind each thread has at most one event in a session.
HonouredUnlessCrossed ==
    /\ \A o \in Owners : owner[o] = "open" => sdk \in crossed \/ filter = Selected(config[o])
    /\ \A r \in captured : r.session \in crossed \/ ~r.checked \/ Admitted(r)
    /\ \A q, r \in captured :
         q.session = r.session /\ q.thread = r.thread /\ ~q.checked /\ ~r.checked => q = r

\* A start that failed and a session that was stopped, by finish, by a failing
\* finish or by drop, make room for the next session.
ClaimReturned ==
    \A o \in Owners : owner[o] \in {"failing", "stopped"} ~> ~active
=============================================================================
