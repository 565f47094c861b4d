---------------------------- MODULE TracingLayer ----------------------------
(***************************************************************************)
(* PerfettoLayer of perfetto-everywhere-tracing and Tracer's span guards   *)
(* over the native backend.  Threads enter and exit tracing spans, which   *)
(* the layer maps to slices on the thread's lane (TrackId::CURRENT), and   *)
(* hold guards, whose track may be an explicit one.  Scopes are lexical: a *)
(* thread leaves what it entered last, and a guard is not Send.            *)
(* A callback holds the span's extensions from reading active_enters to    *)
(* the backend's answer, so on_enter and on_exit are single steps.         *)
(***************************************************************************)
EXTENDS NativeTracks

CONSTANTS
    Spans,      \* tracing spans; a guard has the category of one
    Filtered,   \* spans whose category the capture does not select
    MaxDepth,   \* bound: scopes of a thread
    MaxEntries  \* bound: scopes entered

ASSUME LayerAssumption ==
    /\ IsFiniteSet(Threads)
    /\ Filtered \subseteq Spans /\ MaxDepth \in Nat /\ MaxEntries \in Nat

VARIABLES
    activeEnters, \* SpanState.active_enters of every span
    scopes,       \* the scopes a thread is in, the last one entered last
    poisoned,     \* the mutex of SharedBackend
    shared,       \* history: a span was entered while it was already entered
    entries       \* scopes entered so far, for the bound

layer == <<activeEnters, scopes, poisoned, shared, entries>>
vars == <<named, session, trace, layer>>

Init ==
    /\ TracksInit
    /\ activeEnters = [s \in Spans |-> 0]
    /\ scopes = [t \in Threads |-> <<>>]
    /\ poisoned = FALSE /\ shared = FALSE /\ entries = 0

-----------------------------------------------------------------------------
ScopesOf(s) ==
    {p \in Threads \X (1..MaxDepth) :
        /\ p[2] \in DOMAIN scopes[p[1]]
        /\ scopes[p[1]][p[2]].by = "layer" /\ scopes[p[1]][p[2]].span = s}

Push(t, scope) ==
    /\ Len(scopes[t]) < MaxDepth /\ entries < MaxEntries
    /\ entries' = entries + 1
    /\ scopes' = [scopes EXCEPT ![t] = Append(@, scope)]

\* category_selected: the flag is set before the filter is written, an absent
\* filter selects every category, and that of a failed start is still there.
Selected(s) == phase # "off" /\ (filtering => s \notin Filtered)

\* Mutant of Counted: entries that were not recorded are counted as well.
CountedAlways(scope) == TRUE
\* on_enter counts an entry whose begin was answered Recorded.
Counted(scope) == scope.recorded

Disabled(by, s, track) == Scope(by, s, track, FALSE, 0, Unbegun)

\* The lane and the session of a begin, or Disabled.
Begin(t, by, s, track, available, scope) ==
    IF available /\ Selected(s)
    THEN SpanBegin(t, by, s, track, scope)
    ELSE scope = Disabled(by, s, track) /\ UNCHANGED <<named, slices>>

Begun(t, by, s, track) ==
    {Disabled(by, s, track), Scope(by, s, track, TRUE, 0, Unbegun)}
      \union {Scope(by, s, track, TRUE, sessions, lane) : lane \in {t, track} \ {CURRENT}}

\* on_enter.
Enter(t, s) ==
    \E scope \in Begun(t, "layer", s, CURRENT) :
        /\ Begin(t, "layer", s, CURRENT, ~poisoned, scope)
        /\ Push(t, scope)
        /\ activeEnters' = [activeEnters EXCEPT ![s] = IF Counted(scope) THEN @ + 1 ELSE @]
        /\ shared' = (shared \/ ScopesOf(s) # {})
        /\ UNCHANGED <<session, unmatched, swapped, causes, poisoned>>

\* Tracer::span_on of a tracer of the native backend itself.
Guard(t, s, track) ==
    \E scope \in Begun(t, "guard", s, track) :
        /\ Begin(t, "guard", s, track, TRUE, scope)
        /\ Push(t, scope)
        /\ UNCHANGED <<session, unmatched, swapped, causes, activeEnters, poisoned, shared>>

\* Mutant of Remaining: a span is entered or not, however often.
RemainingNone(n) == 0
\* Mutant of Remaining: the entry is forgotten only when a capture is open.
RemainingCapturing(n) == IF phase = "off" THEN n ELSE n - 1
Remaining(n) == n - 1

\* A poisoned backend answers Unsupported: the end is missing from the trace.
EndSwallowed ==
    /\ causes' = IF phase = "running" THEN causes \union {"poisoned"} ELSE causes
    /\ UNCHANGED <<named, slices, unmatched, swapped>>

\* on_exit: an end for as long as entries are counted.
LeaveSpan(t, scope) ==
    IF activeEnters[scope.span] > 0
    THEN /\ activeEnters' = [activeEnters EXCEPT ![scope.span] = Remaining(@)]
         /\ IF poisoned THEN EndSwallowed ELSE SpanEnd(t, scope)
    ELSE UNCHANGED <<activeEnters, named, trace>>

\* SpanGuard::drop.
DropGuard(t, scope) ==
    /\ IF scope.recorded THEN SpanEnd(t, scope) ELSE UNCHANGED <<named, trace>>
    /\ UNCHANGED activeEnters

Leave(t) ==
    /\ scopes[t] # <<>>
    /\ scopes' = [scopes EXCEPT ![t] = Front(@)]
    /\ LET scope == Last(scopes[t])
       IN IF scope.by = "layer" THEN LeaveSpan(t, scope) ELSE DropGuard(t, scope)
    /\ UNCHANGED <<session, poisoned, shared, entries>>

\* An operation of SharedBackend::with panics with the mutex locked.
Poison == ~poisoned /\ poisoned' = TRUE /\ UNCHANGED <<named, session, trace, activeEnters, scopes, shared, entries>>

Next ==
    \/ \E t \in Threads, s \in Spans :
         \/ Enter(t, s)
         \/ \E track \in Tracks \union {CURRENT} : Guard(t, s, track)
    \/ \E t \in Threads : Leave(t)
    \/ Poison
    \/ Session /\ UNCHANGED layer

Spec == Init /\ [][Next]_vars

-----------------------------------------------------------------------------
\* The layer never counts more entries of a span than there are scopes in it:
\* once the last scope is left nothing stale remains that would end a slice of
\* a later entry, whatever captures started and ended in between.
NoStaleEntry == \A s \in Spans : activeEnters[s] <= Cardinality(ScopesOf(s))

\* An end closes the slice that its own scope began, on its own lane, unless it
\* is one of these: the span outlived its session, its begin was answered
\* Recorded while no session was running, its track could be registered at only
\* one of its ends, or another's entry was taken, which needs a span that is
\* entered twice at a time; or a poisoned backend has swallowed an end.
EndsOwnSlice ==
    /\ causes = {} => unmatched = 0 /\ ~swapped
    /\ "taken" \in causes => shared

\* The scopes of a thread whose slice is on the lane in this session's trace.
BegunIn(t, lane) ==
    {i \in DOMAIN scopes[t] : scopes[t][i].began = sessions /\ scopes[t][i].lane = lane}

\* A running session has open exactly the slices of the scopes that threads are
\* in: on a thread's own lane the same ones in the same order, on an explicit
\* track, where threads meet, as many.  An end that is missing or astray for one
\* of the reasons above is excepted.
OpenSlicesMatch ==
    phase = "running" /\ causes = {} =>
        /\ \A t \in Threads :
             LET begun == BegunIn(t, t)
             IN /\ Len(slices[t]) = Cardinality(begun)
                /\ \A i \in begun :
                     slices[t][Cardinality(begun \intersect (1..i))]
                       = <<scopes[t][i].by, scopes[t][i].span>>
        /\ \A k \in Tracks :
             Len(slices[k]) = Cardinality({p \in Threads \X (1..MaxDepth) : p[2] \in BegunIn(p[1], k)})

\* "Disabled/filtered span begins do not emit unmatched ends."
NoUnmatchedEnd == "taken" \in causes => unmatched = 0
=============================================================================
