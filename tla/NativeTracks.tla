----------------------------- MODULE NativeTracks -----------------------------
(***************************************************************************)
(* The lanes of a native trace: every thread's own track, and the explicit *)
(* tracks that the registry of perfetto-everywhere-native creates on first *)
(* use.  The SDK is external: registering a track may fail, and a slice is *)
(* recorded only while a session of it runs, although the backend answers  *)
(* Recorded whenever CAPTURE_ACTIVE is set.  The phases of a session are   *)
(* those of NativeCapture, for one thread that runs sessions.              *)
(***************************************************************************)
EXTENDS Naturals, FiniteSets, SequencesExt

CONSTANTS
    Threads,
    Tracks,      \* explicit tracks
    CURRENT,     \* TrackId::CURRENT
    Configured,  \* CaptureConfig.tracks
    MaxSessions, \* bound: SDK sessions
    Unbegun      \* the lane of a begin that is in no trace

ASSUME TracksAssumption ==
    /\ Threads \intersect Tracks = {} /\ {CURRENT, Unbegun} \intersect (Threads \union Tracks) = {}
    /\ CURRENT # Unbegun /\ Configured \subseteq Tracks /\ MaxSessions \in Nat

Lanes == Threads \union Tracks

VARIABLES
    named,     \* TrackRegistry.named
    phase,     \* of the session: CAPTURE_ACTIVE is set unless it is "off"
    filtering, \* CATEGORY_FILTER holds the capture's categories
    sessions,  \* SDK sessions started so far
    slices,    \* lane -> the slices open on it, the last one begun last
    unmatched, \* ends on a lane without an open slice
    swapped,   \* an end closed another's slice on a thread's own lane
    causes     \* history: why an end is not on its begin's lane, or missing

session == <<phase, filtering, sessions>>
trace == <<slices, unmatched, swapped, causes>>

TracksInit ==
    /\ named = {} /\ phase = "off" /\ filtering = FALSE /\ sessions = 0
    /\ slices = [l \in Lanes |-> <<>>]
    /\ unmatched = 0 /\ swapped = FALSE /\ causes = {}

-----------------------------------------------------------------------------
\* explicit_track, where it finds or registers the track; and where it does
\* not, the event stays on the lane of its thread.
OnLane(t, track, lane) ==
    \/ track = CURRENT /\ lane = t /\ UNCHANGED named
    \/ track \in named /\ lane = track /\ UNCHANGED named
    \/ track \in Tracks \ named /\ lane = track /\ named' = named \union {track}
    \/ track \in Tracks \ named /\ lane = t /\ UNCHANGED named

\* A scope: whose begin it was, its track, the backend's answer, and (history)
\* the session and the lane its begin was recorded in.
Scope(by, span, track, recorded, began, lane) ==
    [by |-> by, span |-> span, track |-> track, recorded |-> recorded,
     began |-> began, lane |-> lane]

\* emit_named and add_common: recorded by the session that runs.
RecordBegin(t, by, span, track, scope) ==
    \E lane \in Lanes :
        /\ OnLane(t, track, lane)
        /\ scope = Scope(by, span, track, TRUE, sessions, lane)
        /\ slices' = [slices EXCEPT ![lane] = Append(@, <<by, span>>)]

SpanBegin(t, by, span, track, scope) ==
    \/ phase = "running" /\ RecordBegin(t, by, span, track, scope)
    \/ phase # "running" /\ scope = Scope(by, span, track, TRUE, 0, Unbegun)
         /\ UNCHANGED <<named, slices>>

Cause(scope, lane) ==
    CASE ~scope.recorded -> "taken"
      [] scope.began = 0 -> "window"
      [] scope.began < sessions -> "outlived"
      [] OTHER -> "lane"

Stray(scope, lane) == scope.began # sessions \/ scope.lane # lane

RecordEnd(t, scope) ==
    \E lane \in Lanes :
        /\ OnLane(t, scope.track, lane)
        /\ causes' = IF Stray(scope, lane) THEN causes \union {Cause(scope, lane)} ELSE causes
        /\ IF slices[lane] = <<>>
           THEN unmatched' = unmatched + 1 /\ UNCHANGED <<slices, swapped>>
           ELSE /\ slices' = [slices EXCEPT ![lane] = Front(@)]
                /\ swapped' = (swapped \/ (lane \in Threads /\ Last(slices[lane]) # <<scope.by, scope.span>>))
                /\ UNCHANGED unmatched

\* span_end, which asks for a capture only.
SpanEnd(t, scope) ==
    IF phase = "running" THEN RecordEnd(t, scope) ELSE UNCHANGED <<named, trace>>

-----------------------------------------------------------------------------
(***************************************************************************)
(* CaptureSession::start, finish and drop.                                 *)
(***************************************************************************)
Phase(from, to) == phase = from /\ phase' = to

Claim ==
    /\ Phase("off", "claimed") /\ sessions < MaxSessions
    /\ UNCHANGED <<named, filtering, sessions, trace>>

WriteFilter ==
    /\ Phase("claimed", "starting") /\ filtering' = TRUE
    /\ UNCHANGED <<named, sessions, trace>>

\* The configured tracks are registered before the SDK session is created; a
\* failure ends the call, and what is registered, and the filter, stay.
StartFails ==
    /\ Phase("starting", "off")
    /\ \E registered \in SUBSET Configured : named' = named \union registered
    /\ UNCHANGED <<filtering, sessions, trace>>

\* A session starts with an empty trace.
StartSdk ==
    /\ Phase("starting", "running")
    /\ sessions' = sessions + 1 /\ named' = named \union Configured
    /\ slices' = [l \in Lanes |-> <<>>]
    /\ unmatched' = 0 /\ swapped' = FALSE /\ causes' = {}
    /\ UNCHANGED filtering

StopSdk == Phase("running", "stopped") /\ UNCHANGED <<named, filtering, sessions, trace>>

Release ==
    /\ Phase("stopped", "off") /\ filtering' = FALSE
    /\ UNCHANGED <<named, sessions, trace>>

Session == Claim \/ WriteFilter \/ StartFails \/ StartSdk \/ StopSdk \/ Release
=============================================================================
