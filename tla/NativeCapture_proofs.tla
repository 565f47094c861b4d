------------------------ MODULE NativeCapture_proofs ------------------------
(***************************************************************************)
(* For any number of threads, sessions and categories: one session at a    *)
(* time, the SDK runs a session exactly while its owner has it open, and   *)
(* what gets past a session's allow-list was claimed across a reset or     *)
(* had passed the filter before the session wrote it.                      *)
(***************************************************************************)
EXTENDS NativeCapture, TLAPS

\* The part of TypeOK that the claim is about.
OwnerType ==
    /\ active \in BOOLEAN
    /\ sessions \in Nat
    /\ owner \in [Owners -> Holding \union {"idle", "released"}]

\* The claim is exclusive, and only its holder starts and stops the SDK.
Exclusive == OwnerType /\ OneHolder /\ SdkFollowsOwner

\* No thread holds the claim at first.
LEMMA InitExclusive == Init => Exclusive
<1> SUFFICES ASSUME Init PROVE Exclusive
  OBVIOUS
<1>1. OwnerType
  BY DEF Init, OwnerType, Holding
<1>2. \A o \in Owners : owner[o] = "idle"
  BY DEF Init
<1>3. Holders = {}
  BY <1>2 DEF Holders, Holding
<1>4. OneHolder
  BY <1>3 DEF Init, OneHolder
<1>5. SdkFollowsOwner
  BY <1>2 DEF Init, SdkFollowsOwner
<1>6. QED
  BY <1>1, <1>4, <1>5 DEF Exclusive

\* Emitting threads read the flag and leave it.
LEMMA EmissionExclusive ==
    ASSUME Exclusive, NEW e \in Emitters, Emission(e)
    PROVE  Exclusive'
  BY DEF Emission, Begin, Select, Emit, control, Exclusive, OwnerType, OneHolder,
         SdkFollowsOwner, Holders, Holding

\* A thread takes the claim while nobody holds it, and only the thread that
\* holds it gives it up.
LEMMA SessionExclusive ==
    ASSUME Exclusive, NEW o \in Owners, Session(o)
    PROVE  Exclusive'
<1> USE NativeAssumption
        DEF Exclusive, OwnerType, OneHolder, SdkFollowsOwner, Holders, Holding, At
<1>1. CASE Claim(o)
  BY <1>1 DEF Claim
<1>2. CASE WriteFilter(o)
  BY <1>2 DEF WriteFilter
<1>3. CASE StartFails(o)
  BY <1>3 DEF StartFails
<1>4. CASE StartSdk(o)
  BY <1>4 DEF StartSdk
<1>5. CASE Unclaim(o)
  <2>1. o \in Holders /\ owner'[o] = "idle"
    BY <1>5 DEF Unclaim
  <2>2. \A p \in Owners : p # o => owner'[p] = owner[p]
    BY <1>5 DEF Unclaim
  <2>3. Holders' = {}
    BY <2>1, <2>2
  <2>4. OwnerType'
    BY <1>5 DEF Unclaim
  <2>5. SdkFollowsOwner'
    BY <1>5, <2>1, <2>2 DEF Unclaim
  <2>6. QED
    BY <1>5, <2>3, <2>4, <2>5 DEF Unclaim
<1>6. CASE StopSdk(o)
  BY <1>6 DEF StopSdk
<1>7. CASE Release(o)
  <2>1. o \in Holders /\ owner'[o] = "released"
    BY <1>7 DEF Release
  <2>2. \A p \in Owners : p # o => owner'[p] = owner[p]
    BY <1>7 DEF Release
  <2>3. Holders' = {}
    BY <2>1, <2>2
  <2>4. OwnerType'
    BY <1>7 DEF Release
  <2>5. SdkFollowsOwner'
    BY <1>7, <2>1, <2>2 DEF Release
  <2>6. QED
    BY <1>7, <2>3, <2>4, <2>5 DEF Release
<1>8. CASE ResetFilter(o)
  BY <1>8 DEF ResetFilter
<1>9. QED
  BY <1>1, <1>2, <1>3, <1>4, <1>5, <1>6, <1>7, <1>8 DEF Session

\* Every step, and every stutter.
LEMMA StepExclusive == Exclusive /\ [Next]_vars => Exclusive'
<1> SUFFICES ASSUME Exclusive, [Next]_vars PROVE Exclusive'
  OBVIOUS
<1>1. CASE UNCHANGED vars
  BY <1>1 DEF vars, control, Exclusive, OwnerType, OneHolder, SdkFollowsOwner, Holders
<1>2. CASE Next
  BY <1>2, SessionExclusive, EmissionExclusive DEF Next
<1>3. QED
  BY <1>1, <1>2

\* "Only one application-owned CaptureSession is accepted at a time": no two
\* threads ever hold the claim of CaptureSession::start, and CAPTURE_ACTIVE is
\* never left set without a holder nor cleared under one.
THEOREM OneHolderAlways == Spec => []OneHolder
<1>1. Exclusive => OneHolder
  BY DEF Exclusive
<1>2. QED
  BY InitExclusive, StepExclusive, <1>1, PTL DEF Spec

\* An SDK session runs exactly while its owner is between a successful start
\* and its stop, and it is the last one started.
THEOREM SdkFollowsOwnerAlways == Spec => []SdkFollowsOwner
<1>1. Exclusive => SdkFollowsOwner
  BY DEF Exclusive
<1>2. QED
  BY InitExclusive, StepExclusive, <1>1, PTL DEF Spec

-----------------------------------------------------------------------------
\* What the allow-list's argument needs of the types beside those of TypeOK.
Typed ==
    /\ TypeOK
    /\ \A o \in Owners : owner[o] \in {"filter", "starting"} => sessions < MaxSessions
    /\ DOMAIN allowed = 1..sessions
    /\ \A r \in captured : r.session \in 1..sessions /\ r.thread \in Emitters

\* The running session's allow-list is the one its owner asked for.
OwnersList == \A o \in Owners : owner[o] = "open" => sdk # None /\ allowed[sdk] = config[o]

\* The session that o starts or runs was not claimed across a reset.
Number(o) == IF owner[o] = "open" THEN sessions ELSE sessions + 1
Uncrossed(o) == owner[o] \in {"filter", "starting", "open"} /\ Number(o) \notin crossed
Wrote(o) == owner[o] \in {"starting", "open"}

\* No reset is pending under such a session, and the filter is the one it wrote.
Settled ==
    \A o \in Owners : Uncrossed(o) =>
        ~ResetPending /\ (Wrote(o) => filter = Selected(config[o]))

\* A call that has passed the filter since then may be recorded.
Passed ==
    \A o \in Owners, e \in Emitters :
        Uncrossed(o) /\ Wrote(o) /\ emitter[e] = "emit" /\ call[e] # None /\ e \in checked =>
            config[o] = {} \/ call[e] \in config[o]

\* A thread that has had its early event has no other on its way.
Spent ==
    \A r \in captured : ~r.checked /\ r.session = sdk =>
        ~(emitter[r.thread] = "emit" /\ call[r.thread] # None /\ r.thread \notin checked)

Recorded == \A r \in captured : r.session \in crossed \/ ~r.checked \/ Admitted(r)

Once ==
    \A q, r \in captured :
        q.session = r.session /\ q.thread = r.thread /\ ~q.checked /\ ~r.checked => q = r

Honoured == Typed /\ OwnersList /\ Settled /\ Passed /\ Spent /\ Recorded /\ Once

LEMMA InitHonoured == Init => Honoured
<1> SUFFICES ASSUME Init PROVE Honoured
  OBVIOUS
<1> USE NativeAssumption DEF Init
<1>1. \A o \in Owners : owner[o] = "idle"
  OBVIOUS
<1>2. 1..sessions = {}
  OBVIOUS
<1>3. Typed
  <2>1. sessions \in 0..MaxSessions /\ DOMAIN allowed = 1..sessions
    BY <1>2
  <2>2. owner \in [Owners -> Holding \union {"idle", "released"}]
        /\ config \in [Owners -> AllowLists \union {{}}]
    BY DEF Holding
  <2>3. /\ emitter \in [Emitters -> {"idle", "select", "emit"}]
        /\ call \in [Emitters -> Categories \union {None}]
    OBVIOUS
  <2>4. QED
    BY <1>1, <2>1, <2>2, <2>3 DEF Typed, TypeOK
<1>4. OwnersList /\ Settled /\ Passed
  BY <1>1 DEF OwnersList, Settled, Passed, Uncrossed, Wrote
<1>5. Spent /\ Recorded /\ Once
  BY DEF Spent, Recorded, Once
<1>6. QED
  BY <1>3, <1>4, <1>5 DEF Honoured

-----------------------------------------------------------------------------
\* A session's steps.  First what is typed, then the filter, then what is
\* recorded.
LEMMA SessionTyped ==
    ASSUME Typed, Exclusive, NEW o \in Owners, Session(o)
    PROVE  Typed'
<1> USE NativeAssumption DEF Typed, TypeOK, Holding, At
<1>1. CASE Claim(o)
  <2>1. /\ sessions' = sessions /\ sessions < MaxSessions
        /\ crossed' \subseteq crossed \union {sessions + 1}
        /\ UNCHANGED <<filter, sdk, allowed, emitter, call, captured, checked>> /\ active' = TRUE
    BY <1>1 DEF Claim, emission
  <2>2. owner' = [owner EXCEPT ![o] = "filter"]
        /\ \E allow \in AllowLists : config' = [config EXCEPT ![o] = allow]
    BY <1>1 DEF Claim
  <2>3. sessions + 1 \in 1..MaxSessions
    BY <2>1
  <2>4. crossed' \subseteq 1..MaxSessions
    BY <2>1, <2>3
  <2>5. QED
    BY <2>1, <2>2, <2>4
<1>2. CASE WriteFilter(o)
  BY <1>2 DEF WriteFilter, emission, Selected
<1>3. CASE StartFails(o)
  BY <1>3 DEF StartFails, emission
<1>4. CASE StartSdk(o)
  <2>1. \A p \in Owners : p # o => owner[p] \notin {"filter", "starting"}
    BY <1>4 DEF StartSdk, Exclusive, OneHolder, Holders
  <2>2. sessions \in Nat /\ sessions < MaxSessions /\ sessions' = sessions + 1 /\ sdk' = sessions'
        /\ DOMAIN allowed' = 1..sessions' /\ owner' = [owner EXCEPT ![o] = "open"]
        /\ UNCHANGED <<active, filter, config, crossed, emitter, call, captured, checked>>
    BY <1>4 DEF StartSdk, emission
  <2>3. 1..sessions \subseteq 1..sessions' /\ sessions' \in 0..MaxSessions /\ sdk' \in 1..sessions'
    BY <2>2
  <2>4. \A p \in Owners : owner'[p] \notin {"filter", "starting"}
    BY <2>1, <2>2
  <2>5. TypeOK'
    BY <2>2, <2>3
  <2>6. \A r \in captured' : r.session \in 1..sessions' /\ r.thread \in Emitters
    BY <2>2, <2>3
  <2>7. QED
    BY <2>2, <2>4, <2>5, <2>6
<1>5. CASE Unclaim(o)
  BY <1>5 DEF Unclaim, emission
<1>6. CASE StopSdk(o)
  BY <1>6 DEF StopSdk, emission
<1>7. CASE Release(o)
  BY <1>7 DEF Release, emission
<1>8. CASE ResetFilter(o)
  BY <1>8 DEF ResetFilter, emission
<1>9. QED
  BY <1>1, <1>2, <1>3, <1>4, <1>5, <1>6, <1>7, <1>8 DEF Session

\* A step of one owner takes its own place from one state to another.
LEMMA OthersStay ==
    ASSUME Exclusive, NEW o \in Owners, NEW from, NEW to, At(o, from, to)
    PROVE  owner[o] = from /\ owner'[o] = to /\ \A p \in Owners \ {o} : owner'[p] = owner[p]
  BY DEF At, Exclusive, OwnerType

LEMMA SessionSettled ==
    ASSUME Typed, Exclusive, OwnersList, Settled, Passed, NEW o \in Owners, Session(o)
    PROVE  OwnersList' /\ Settled' /\ Passed'
<1> USE DEF Exclusive, OneHolder, OwnersList, Settled, Passed, Uncrossed, Wrote, Number,
            ResetPending, Holders, Holding
<1>0. config \in [Owners -> AllowLists \union {{}}] /\ sessions \in Nat
  BY NativeAssumption DEF Typed, TypeOK
<1>1. CASE Claim(o)
  <2>1. owner[o] = "idle" /\ owner'[o] = "filter" /\ \A p \in Owners \ {o} : owner'[p] = owner[p]
    BY <1>1, OthersStay DEF Claim
  <2>2. ~active /\ UNCHANGED <<sdk, sessions>>
        /\ (ResetPending => sessions + 1 \in crossed')
    BY <1>1 DEF Claim
  <2>3. \A p \in Owners \ {o} : owner'[p] \notin {"filter", "starting", "open"}
    BY <2>1, <2>2
  <2>4. Uncrossed(o)' => ~ResetPending'
    BY <2>1, <2>2, ZenonT(40)
  <2>5. QED
    BY <2>1, <2>3, <2>4
<1>2. CASE WriteFilter(o)
  <2>1. owner[o] = "filter" /\ owner'[o] = "starting" /\ \A p \in Owners \ {o} : owner'[p] = owner[p]
    BY <1>2, OthersStay DEF WriteFilter
  <2>2. filter' = Selected(config[o]) /\ checked' = {}
        /\ UNCHANGED <<sdk, sessions, allowed, config, crossed>>
    BY <1>2 DEF WriteFilter
  <2>3. QED
    BY <2>1, <2>2
<1>3. CASE StartFails(o)
  <2>1. owner[o] = "starting" /\ owner'[o] = "failing" /\ \A p \in Owners \ {o} : owner'[p] = owner[p]
    BY <1>3, OthersStay DEF StartFails
  <2>2. \A p \in Owners : owner'[p] \notin {"filter", "starting", "open"}
    BY <2>1
  <2>3. QED
    BY <2>2
<1>4. CASE StartSdk(o)
  <2>1. owner[o] = "starting" /\ owner'[o] = "open" /\ \A p \in Owners \ {o} : owner'[p] = owner[p]
    BY <1>4, OthersStay DEF StartSdk
  <2>2. sdk' = sessions + 1 /\ sessions' = sessions + 1 /\ allowed'[sdk'] = config[o] /\ sdk' # None
        /\ UNCHANGED <<filter, config, crossed, emitter, call, checked>>
    BY <1>0, <1>4, NativeAssumption DEF StartSdk, emission
  <2>3. \A p \in Owners \ {o} : owner'[p] \notin {"filter", "starting", "open"}
    BY <2>1
  <2>4. Uncrossed(o)' => Uncrossed(o)
    BY <2>1, <2>2
  <2>5. OwnersList'
    BY <2>1, <2>2, <2>3
  <2>6. Settled'
    BY <2>1, <2>2, <2>3, <2>4
  <2>7. Passed'
    BY <2>1, <2>2, <2>3, <2>4
  <2>8. QED
    BY <2>5, <2>6, <2>7
<1>5. CASE Unclaim(o)
  <2>1. owner[o] = "failing" /\ owner'[o] = "idle" /\ \A p \in Owners \ {o} : owner'[p] = owner[p]
    BY <1>5, OthersStay DEF Unclaim
  <2>2. \A p \in Owners : owner'[p] \notin {"filter", "starting", "open"}
    BY <2>1
  <2>3. QED
    BY <2>2
<1>6. CASE StopSdk(o)
  <2>1. owner[o] = "open" /\ owner'[o] = "stopped" /\ \A p \in Owners \ {o} : owner'[p] = owner[p]
    BY <1>6, OthersStay DEF StopSdk
  <2>2. \A p \in Owners : owner'[p] \notin {"filter", "starting", "open"}
    BY <2>1
  <2>3. QED
    BY <2>2
<1>7. CASE Release(o)
  <2>1. owner[o] = "stopped" /\ owner'[o] = "released" /\ \A p \in Owners \ {o} : owner'[p] = owner[p]
    BY <1>7, OthersStay DEF Release
  <2>2. \A p \in Owners : owner'[p] \notin {"filter", "starting", "open"}
    BY <2>1
  <2>3. QED
    BY <2>2
<1>8. CASE ResetFilter(o)
  <2>1. owner[o] = "released" /\ owner'[o] = "idle" /\ \A p \in Owners \ {o} : owner'[p] = owner[p]
    BY <1>8, OthersStay DEF ResetFilter
  <2>2. UNCHANGED <<sdk, sessions, allowed, config, crossed, emitter, call, checked>>
    BY <1>8 DEF ResetFilter, emission
  <2>3. \A p \in Owners : ~Uncrossed(p)
    BY <2>1
  <2>4. \A p \in Owners : ~Uncrossed(p)'
    BY <2>1, <2>2, <2>3
  <2>5. OwnersList'
    BY <2>1, <2>2
  <2>6. QED
    BY <2>4, <2>5
<1>9. QED
  BY <1>1, <1>2, <1>3, <1>4, <1>5, <1>6, <1>7, <1>8 DEF Session

LEMMA SessionRecorded ==
    ASSUME Typed, Exclusive, Spent, Recorded, Once, NEW o \in Owners, Session(o)
    PROVE  Spent' /\ Recorded' /\ Once'
<1> USE DEF Spent, Recorded, Once, Admitted
<1>0. \A r \in captured : r.session \in 1..sessions /\ r.session # sessions + 1 /\ r.session # None
  BY NativeAssumption DEF Typed, TypeOK
<1>1. CASE StartSdk(o)
  <2>1. sdk' = sessions + 1 /\ UNCHANGED <<crossed, emitter, call, captured, checked>>
    BY <1>1 DEF StartSdk, emission
  <2>2. \A s \in 1..sessions : allowed'[s] = allowed[s]
    BY <1>1 DEF StartSdk, Typed, TypeOK
  <2>3. Spent'
    BY <1>0, <2>1
  <2>4. Recorded'
    BY <1>0, <2>1, <2>2
  <2>5. QED
    BY <2>1, <2>3, <2>4
<1>2. CASE WriteFilter(o)
  <2>1. UNCHANGED <<allowed, sdk, crossed, captured>>
    BY <1>2 DEF WriteFilter, emission
  <2>2. owner[o] = "filter" /\ \A p \in Owners : owner[p] # "open"
    BY <1>2 DEF WriteFilter, At, Exclusive, OneHolder, Holders, Holding
  <2>3. sdk' = None
    BY <2>1, <2>2 DEF Exclusive, SdkFollowsOwner
  <2>4. QED
    BY <1>0, <2>1, <2>3
<1>3. CASE Claim(o)
  <2>1. UNCHANGED <<allowed, sdk, emitter, call, captured, checked>>
    BY <1>3 DEF Claim, emission
  <2>2. \A r \in captured : r.session \in crossed => r.session \in crossed'
    BY <1>0, <1>3 DEF Claim
  <2>3. QED
    BY <2>1, <2>2
<1>4. CASE StartFails(o) \/ Unclaim(o) \/ StopSdk(o) \/ Release(o) \/ ResetFilter(o)
  <2>1. UNCHANGED <<allowed, crossed, emitter, call, captured, checked>> /\ (sdk' = sdk \/ sdk' = None)
    <3> USE DEF emission
    <3>1. CASE StartFails(o)
      BY <3>1 DEF StartFails
    <3>2. CASE Unclaim(o)
      BY <3>2 DEF Unclaim
    <3>3. CASE StopSdk(o)
      BY <3>3 DEF StopSdk
    <3>4. CASE Release(o)
      BY <3>4 DEF Release
    <3>5. CASE ResetFilter(o)
      BY <3>5 DEF ResetFilter
    <3>6. QED
      BY <1>4, <3>1, <3>2, <3>3, <3>4, <3>5
  <2>2. QED
    BY <1>0, <2>1
<1>5. QED
  BY <1>1, <1>2, <1>3, <1>4 DEF Session

-----------------------------------------------------------------------------
\* A call's steps.
LEMMA EmissionHonoured ==
    ASSUME Honoured, Exclusive, NEW e \in Emitters, Emission(e)
    PROVE  Honoured'
<1> USE DEF Honoured
<1>0. /\ emitter \in [Emitters -> {"idle", "select", "emit"}]
      /\ call \in [Emitters -> Categories \union {None}]
      /\ checked \subseteq Emitters
      /\ sdk = None \/ sdk \in 1..sessions
  BY DEF Typed, TypeOK
<1>1. UNCHANGED control
  BY DEF Emission, Begin, Select, Emit
<1>2. OwnersList' /\ Settled'
  BY <1>1 DEF control, OwnersList, Settled, ResetPending, Uncrossed, Wrote, Number
<1>3. \A o \in Owners : Uncrossed(o)' = Uncrossed(o) /\ Wrote(o)' = Wrote(o)
  BY <1>1 DEF control, Uncrossed, Wrote, Number
<1>4. CASE \E c \in Categories \union {None} : Begin(e, c)
  <2>1. PICK c \in Categories \union {None} : Begin(e, c)
    BY <1>4
  <2>2. /\ emitter' \in [Emitters -> {"idle", "select", "emit"}]
        /\ call' \in [Emitters -> Categories \union {None}]
        /\ emitter'[e] = "emit" => call'[e] = None
        /\ \A f \in Emitters \ {e} : emitter'[f] = emitter[f] /\ call'[f] = call[f]
        /\ captured' = captured /\ checked' = checked
    BY <1>0, <2>1 DEF Begin
  <2>3. Typed'
    BY <1>1, <2>2 DEF control, Typed, TypeOK
  <2>4. Passed'
    BY <1>1, <1>3, <2>2 DEF control, Passed
  <2>5. Spent'
    <3>1. ASSUME NEW f \in Emitters, emitter'[f] = "emit", call'[f] # None
          PROVE  f # e /\ emitter[f] = "emit" /\ call[f] # None
      BY <2>2, <3>1
    <3>2. QED
      BY <1>1, <2>2, <3>1 DEF control, Spent, Typed
  <2>6. Recorded' /\ Once'
    BY <1>1, <2>2 DEF control, Recorded, Admitted, Once
  <2>7. QED
    BY <1>2, <2>3, <2>4, <2>5, <2>6
<1>5. CASE Select(e) /\ ~CategorySelected(call[e])
  <2>1. emitter' = [emitter EXCEPT ![e] = "idle"] /\ call' = [call EXCEPT ![e] = None]
        /\ captured' = captured /\ checked' = checked
    BY <1>5 DEF Select, Return
  <2>2. Typed'
    BY <1>0, <1>1, <2>1 DEF control, Typed, TypeOK
  <2>3. Passed'
    BY <1>0, <1>1, <1>3, <2>1 DEF control, Passed
  <2>4. Spent'
    BY <1>0, <1>1, <2>1 DEF control, Spent, Typed
  <2>5. Recorded' /\ Once'
    BY <1>1, <2>1 DEF control, Recorded, Admitted, Once
  <2>6. QED
    BY <1>2, <2>2, <2>3, <2>4, <2>5
<1>6. CASE Select(e) /\ CategorySelected(call[e])
  <2>1. emitter' = [emitter EXCEPT ![e] = "emit"] /\ call' = call
        /\ captured' = captured /\ checked' = checked \union {e}
    BY <1>6 DEF Select
  <2>2. Typed'
    BY <1>0, <1>1, <2>1 DEF control, Typed, TypeOK
  <2>3. ASSUME NEW o \in Owners, Uncrossed(o), Wrote(o), call[e] # None
        PROVE  config[o] = {} \/ call[e] \in config[o]
    <3>1. filter = Selected(config[o])
      BY <2>3 DEF Settled
    <3>2. config[o] \in SUBSET Categories
      BY NativeAssumption DEF Typed, TypeOK
    <3>3. QED
      BY <1>6, <3>1, <3>2, NativeAssumption DEF Selected, CategorySelected
  <2>4. Passed'
    BY <1>0, <1>1, <1>3, <2>1, <2>3 DEF control, Passed
  <2>5. Spent'
    BY <1>0, <1>1, <2>1 DEF control, Spent, Typed
  <2>6. Recorded' /\ Once'
    BY <1>1, <2>1 DEF control, Recorded, Admitted, Once
  <2>7. QED
    BY <1>2, <2>2, <2>4, <2>5, <2>6
<1>7. CASE Emit(e)
  <2> DEFINE new == [session |-> sdk, thread |-> e, category |-> call[e], checked |-> e \in checked]
  <2>1. /\ emitter[e] = "emit"
        /\ emitter' = [emitter EXCEPT ![e] = "idle"] /\ call' = [call EXCEPT ![e] = None]
        /\ checked' = checked \ {e}
        /\ captured' = IF sdk # None /\ call[e] # None THEN captured \union {new} ELSE captured
    BY <1>7 DEF Emit, Return
  <2>2. new.session = sdk /\ new.thread = e /\ new.category = call[e] /\ new.checked = (e \in checked)
    OBVIOUS
  <2> HIDE DEF new
  <2>3. Typed'
    BY <1>0, <1>1, <2>1, <2>2 DEF control, Typed, TypeOK
  <2>4. Passed'
    BY <1>0, <1>1, <1>3, <2>1 DEF control, Passed
  <2>5. Spent'
    <3>1. \A f \in Emitters : ~(emitter'[f] = "emit" /\ call'[f] # None /\ f \notin checked')
            \/ (f # e /\ emitter[f] = "emit" /\ call[f] # None /\ f \notin checked)
      BY <1>0, <2>1
    <3>2. \A r \in captured' : r \in captured \/ r.thread = e
      BY <2>1, <2>2
    <3>3. QED
      BY <1>1, <2>3, <3>1, <3>2 DEF control, Spent, Typed
  <2>6. Recorded'
    <3>1. ASSUME sdk # None, call[e] # None, sdk \notin crossed, e \in checked
          PROVE  allowed[sdk] = {} \/ call[e] \in allowed[sdk]
      <4>1. PICK o \in Owners : owner[o] = "open"
        BY <3>1 DEF Exclusive, SdkFollowsOwner
      <4>2. allowed[sdk] = config[o] /\ sdk = sessions
        BY <3>1, <4>1 DEF OwnersList, Exclusive, SdkFollowsOwner
      <4>3. Uncrossed(o) /\ Wrote(o)
        BY <3>1, <4>1, <4>2 DEF Uncrossed, Wrote, Number
      <4>4. QED
        BY <2>1, <3>1, <4>2, <4>3 DEF Passed
    <3>2. QED
      BY <1>1, <2>1, <2>2, <3>1 DEF control, Recorded, Admitted
  <2>7. Once'
    <3>1. CASE sdk # None /\ call[e] # None
      <4>1. captured' = captured \union {new}
        BY <2>1, <3>1
      <4>2. ASSUME NEW r \in captured, r.session = sdk, r.thread = e, ~r.checked, ~new.checked
            PROVE  FALSE
        BY <2>1, <2>2, <3>1, <4>2 DEF Spent
      <4>3. QED
        BY <2>2, <4>1, <4>2 DEF Once
    <3>2. CASE ~(sdk # None /\ call[e] # None)
      BY <2>1, <3>2 DEF Once
    <3>3. QED
      BY <3>1, <3>2
  <2>8. QED
    BY <1>2, <2>3, <2>4, <2>5, <2>6, <2>7
<1>8. QED
  BY <1>4, <1>5, <1>6, <1>7 DEF Emission

LEMMA StepHonoured == Exclusive /\ Honoured /\ [Next]_vars => Honoured'
<1> SUFFICES ASSUME Exclusive, Honoured, [Next]_vars PROVE Honoured'
  OBVIOUS
<1>1. CASE UNCHANGED vars
  BY <1>1 DEF vars, control, emission, Honoured, Typed, TypeOK, OwnersList, Settled, Passed,
              Spent, Recorded, Once, Admitted, Uncrossed, Wrote, Number, ResetPending
<1>2. ASSUME NEW o \in Owners, Session(o) PROVE Honoured'
  BY <1>2, SessionTyped, SessionSettled, SessionRecorded DEF Honoured
<1>3. CASE Next
  BY <1>2, <1>3, EmissionHonoured DEF Next
<1>4. QED
  BY <1>1, <1>3

\* The types of every variable, for any number of threads and sessions.
THEOREM NativeTypes == Spec => []TypeOK
<1>1. Honoured => TypeOK
  BY DEF Honoured, Typed
<1>2. QED
  BY InitExclusive, StepExclusive, InitHonoured, StepHonoured, <1>1, PTL DEF Spec

\* "CaptureConfig controls the category allow-list": for any number of threads
\* that start, fail and end sessions and of threads that emit, an event outside
\* the list is in a session that was claimed between another's release and its
\* reset of the filter, or its call had passed the filter before the session
\* wrote its own, and then it is the only such event of its thread.
THEOREM AllowListUnlessCrossed == Spec => []HonouredUnlessCrossed
<1>1. ASSUME Exclusive, Honoured, NEW o \in Owners, owner[o] = "open", sdk \notin crossed
      PROVE  filter = Selected(config[o])
  <2>1. sdk = sessions
    BY <1>1 DEF Honoured, OwnersList, Exclusive, SdkFollowsOwner
  <2>2. QED
    BY <1>1, <2>1 DEF Honoured, Settled, Uncrossed, Wrote, Number
<1>2. Exclusive /\ Honoured => HonouredUnlessCrossed
  BY <1>1 DEF Honoured, Recorded, Once, HonouredUnlessCrossed
<1>3. QED
  BY InitExclusive, StepExclusive, InitHonoured, StepHonoured, <1>2, PTL DEF Spec
=============================================================================
