--------------------------- MODULE ChunkTransport ---------------------------
(***************************************************************************)
(* The worklet's chunk transport with any page at the other end of the     *)
(* port: one that takes its messages, gives back the buffers it holds, and *)
(* sends commands and stray messages whenever it likes.                    *)
(***************************************************************************)
EXTENDS TransportWorklet

ASSUME MailAssumption == MaxMail \in Nat

VARIABLE
    held           \* tokens of the buffers the page side holds

vars == <<worklet, held>>

Init == WorkletInit /\ held = {}

(***************************************************************************)
(* The page, as little of it as the transport relies on: it takes messages *)
(* in order, and the buffers it gives back are buffers it holds.           *)
(***************************************************************************)
MailBound == rejected + Len(toWorklet) < MaxMail

Take ==
    /\ toMain # <<>>
    /\ toMain' = Tail(toMain)
    /\ held' = IF Head(toMain).type = "trace-chunk"
               THEN held \union {Head(toMain).poolToken} ELSE held
    /\ UNCHANGED <<producer, pool, starvation, life, sequence, shipped, toWorklet,
                   rejected, pc>>

Post(m) ==
    /\ MailBound
    /\ toWorklet' = Append(toWorklet, m)
    /\ UNCHANGED <<producer, pool, starvation, life, port, rejected, pc>>

\* A held buffer returns, whole or replaced by one of another length; a
\* message of another capture names any token, an invalid one names no buffer.
GiveBack(token, buffer) ==
    /\ Post(Recycled(token, TRUE, buffer)) /\ held' = held \ {token}
Stray ==
    /\ UNCHANGED held
    /\ \/ \E token \in Tokens : Post(Recycled(token, FALSE, TRUE))
       \/ Post(Recycled(None, TRUE, TRUE))
Command ==
    /\ UNCHANGED held
    /\ \E m \in Commands : Post(m)

Page == \/ Take \/ Stray \/ Command
        \/ \E token \in held, buffer \in BOOLEAN : GiveBack(token, buffer)

Next == \/ (Callback \/ Loop \/ Handler) /\ UNCHANGED held
        \/ Page

Spec == Init /\ [][Next]_vars

\* A callback that has entered drain() runs on.
FairSpec == Spec /\ WF_vars(Loop /\ UNCHANGED held)

-----------------------------------------------------------------------------
\* A buffer that is away is in one place: in a chunk on its way out, held by the
\* page, or on its way back, so two chunks never share a buffer.
BufferInOnePlace ==
    LET Out(t) == {i \in Chunks : toMain[i].poolToken = t}
        Back(t) == {i \in 1..Len(toWorklet) :
                      /\ toWorklet[i].type = "recycle" /\ toWorklet[i].current
                      /\ toWorklet[i].poolToken = t}
    IN \A t \in Tokens :
         /\ Cardinality(Out(t)) + Cardinality(Back(t))
              + (IF t \in held THEN 1 ELSE 0) <= 1
         /\ (Out(t) # {} \/ t \in held) => t \in inFlight

\* drain() returns: the loop of a callback never spins on a group that no chunk
\* can hold (the constructor's check of chunkBytes), so audio is not blocked.
DrainReturns == pc # "idle" ~> pc = "idle"
=============================================================================
