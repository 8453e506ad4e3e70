--------------------------- MODULE TranscodeProofs ---------------------------
(***************************************************************************)
(* Theorems about TranscodeSessions, for any handlers, sessions, limits    *)
(* and ceiling.                                                            *)
(***************************************************************************)
EXTENDS TranscodeSessions, FiniteSetTheorems, TLAPS

\* What a handler has in hand where it stands: a request while it looks for a
\* session, a used session from its insert on.
Calling == {"lookup", "own", "other", "reserve", "start", "insert", "file", "endlist"}
Holding == {"insert", "serving", "file", "endlist", "segment"}
HandOK ==
  \A h \in Handlers :
    /\ pc[h] \in Calling => call[h] \in Requests
    /\ pc[h] \in Holding => held[h] \in Sessions /\ info[held[h]] \in Infos

\* The table holds used sessions only.
TableOK == \A s \in listed : info[s] \in Infos

TypeInv == TypeOK /\ HandOK /\ TableOK

\* A request has an owner, and the session started for it a well-formed entry.
LEMMA RequestShape ==
  ASSUME NEW r \in Requests
  PROVE  /\ InfoOf(r) \in Infos
         /\ r.owner \in Owners \cup {Anon}
         /\ r.kind \in AllKinds
  BY ModelAssumption DEF Requests, InfoOf, Infos, OutputOf, OwnerOf, AllKinds

LEMMA InitTypeInv == Init => TypeInv
  BY DEF Init, TypeInv, TypeOK, HandOK, TableOK, Calling, Holding, Pcs, Phases

LEMMA BeginTypeInv ==
  ASSUME TypeInv, NEW h \in Handlers, NEW r \in Requests, Begin(h, r)
  PROVE  TypeInv'
  BY RequestShape DEF TypeInv, TypeOK, HandOK, TableOK, Calling, Holding, Pcs,
     Begin, Goto, AllKinds, FirstStep

LEMMA StepTypeInv ==
  ASSUME TypeInv, NEW h \in Handlers, Step(h)
  PROVE  TypeInv'
<1> USE DEF TypeInv, TypeOK, HandOK, TableOK, Calling, Holding, Pcs, At, Goto, Hold,
        Return, Delist, Touch, tableVars, processVars, callVars
<1>1. CASE Reuse(h)
  BY <1>1 DEF Reuse, Reusable
<1>2. CASE LookupMiss(h)
  BY <1>2 DEF LookupMiss
<1>3. CASE SupersedeOwn(h)
  BY <1>3 DEF SupersedeOwn, Superseded, Stoppers
<1>4. CASE SupersedeOther(h)
  BY <1>4 DEF SupersedeOther, Superseded, Stoppers
<1>5. CASE ReserveFree(h)
  BY <1>5 DEF ReserveFree
<1>6. CASE ReserveEvict(h)
  BY <1>6 DEF ReserveEvict, Evictable, Stoppers
<1>7. CASE ReserveRefuse(h)
  BY <1>7 DEF ReserveRefuse
<1>8. CASE Start(h)
  BY <1>8, RequestShape DEF Start, Unused
<1>9. CASE StartFails(h)
  BY <1>9 DEF StartFails
<1>10. CASE Insert(h)
  BY <1>10 DEF Insert
<1>11. CASE PlaylistReady(h)
  BY <1>11, RequestShape DEF PlaylistReady, Answer
<1>12. CASE HoldForEndlist(h)
  BY <1>12 DEF HoldForEndlist
<1>13. CASE EndlistOver(h)
  BY <1>13, RequestShape DEF EndlistOver, Answer
<1>14. CASE GiveUp(h)
  BY <1>14 DEF GiveUp
<1>15. CASE SegmentServed(h)
  BY <1>15 DEF SegmentServed
<1>16. CASE Read(h)
  BY <1>16 DEF Read
<1>17. CASE Close(h)
  BY <1>17 DEF Close, Stoppers
<1> QED
  BY <1>1, <1>2, <1>3, <1>4, <1>5, <1>6, <1>7, <1>8, <1>9, <1>10, <1>11, <1>12,
     <1>13, <1>14, <1>15, <1>16, <1>17 DEF Step

LEMMA OtherTypeInv ==
  ASSUME TypeInv, Next, ~\E h \in Handlers : Step(h),
         ~\E h \in Handlers, r \in Requests : Begin(h, r)
  PROVE  TypeInv'
<1> USE DEF TypeInv, TypeOK, HandOK, TableOK, Calling, Holding, Pcs, Goto, Hold,
        Delist, Touch, tableVars, processVars, callVars
<1>1. ASSUME NEW h \in Handlers, NEW w \in watching, SegmentRequest(h, w)
      PROVE  TypeInv'
  BY <1>1 DEF SegmentRequest, SegmentCalls
<1>2. ASSUME NEW p \in Stoppers, NEW s \in Sessions, StopOne(p, s)
      PROVE  TypeInv'
  BY <1>2 DEF StopOne
<1>3. CASE Reap
  BY <1>3 DEF Reap, Stoppers
<1>4. ASSUME NEW s \in Sessions, StopSession(s) \/ Write(s) \/ Finish(s) \/ Fail(s)
      PROVE  TypeInv'
  BY <1>4 DEF StopSession, Write, Finish, Fail, Stoppers
<1>5. ASSUME NEW c \in Channels, StopLive(c)
      PROVE  TypeInv'
  BY <1>5 DEF StopLive, Stoppers
<1>6. CASE ReaperStopAll \/ ReaperCleared \/ MainStopAll \/ Exit
  BY <1>6 DEF ReaperStopAll, ReaperCleared, MainStopAll, Exit, Stoppers, Phases
<1>7. CASE Tick
  BY <1>7 DEF Tick
<1> QED
  BY <1>1, <1>2, <1>3, <1>4, <1>5, <1>6, <1>7 DEF Next

LEMMA StutterTypeInv ==
  ASSUME TypeInv, UNCHANGED vars
  PROVE  TypeInv'
  BY DEF TypeInv, TypeOK, HandOK, TableOK, vars

LEMMA TypeInvariance == Spec => []TypeInv
<1>1. TypeInv /\ [Next]_vars => TypeInv'
  BY BeginTypeInv, StepTypeInv, OtherTypeInv, StutterTypeInv
<1> QED
  BY <1>1, InitTypeInv, PTL DEF Spec

\* Every variable keeps its type, whatever the handlers, the reaper, ffmpeg and
\* the clock do: in particular a handler never loses the session in its hand.
THEOREM TypeCorrect == Spec => []TypeOK
<1>1. TypeInv => TypeOK
  BY DEF TypeInv
<1> QED
  BY <1>1, TypeInvariance, PTL

-----------------------------------------------------------------------------
(* No ffmpeg is lost.                                                      *)

LEMMA StepNoOrphan ==
  ASSUME TypeInv, NoOrphan, NEW h \in Handlers, Step(h)
  PROVE  NoOrphan'
<1> USE DEF TypeInv, TypeOK, HandOK, Calling, Holding, NoOrphan, At, Goto, Hold,
        Return, Delist, Stoppers, tableVars, processVars, callVars
<1>1. CASE Reuse(h) \/ LookupMiss(h)
  BY <1>1 DEF Reuse, LookupMiss
<1>2. CASE SupersedeOwn(h) \/ SupersedeOther(h)
  <2>1. PICK gone : Delist(h, gone)
    BY <1>2 DEF SupersedeOwn, SupersedeOther
  <2>2. /\ pc[h] # "insert" /\ \A k \in Handlers \ {h} : pc'[k] = pc[k]
        /\ UNCHANGED <<ff, held>>
    BY <1>2 DEF SupersedeOwn, SupersedeOther
  <2> QED
    BY <2>1, <2>2
<1>3. CASE ReserveFree(h) \/ ReserveEvict(h) \/ ReserveRefuse(h)
  BY <1>3 DEF ReserveFree, ReserveEvict, ReserveRefuse
<1>4. CASE Start(h)
  BY <1>4 DEF Start, Unused
<1>5. CASE StartFails(h)
  BY <1>5 DEF StartFails
<1>6. CASE Insert(h)
  BY <1>6 DEF Insert
<1>7. CASE PlaylistReady(h) \/ HoldForEndlist(h) \/ EndlistOver(h)
  BY <1>7 DEF PlaylistReady, HoldForEndlist, EndlistOver, Answer, Touch
<1>8. CASE GiveUp(h) \/ SegmentServed(h) \/ Read(h)
  BY <1>8 DEF GiveUp, SegmentServed, Read
<1>9. CASE Close(h)
  BY <1>9 DEF Close
<1> QED
  BY <1>1, <1>2, <1>3, <1>4, <1>5, <1>6, <1>7, <1>8, <1>9 DEF Step

LEMMA OtherNoOrphan ==
  ASSUME TypeInv, NoOrphan, Next, ~\E h \in Handlers : Step(h)
  PROVE  NoOrphan'
<1> USE DEF TypeInv, TypeOK, NoOrphan, Goto, Hold, Delist, Stoppers,
        tableVars, processVars, callVars
<1>1. ASSUME NEW h \in Handlers, NEW r \in Requests, Begin(h, r)
      PROVE  NoOrphan'
  BY <1>1 DEF Begin
<1>2. ASSUME NEW h \in Handlers, NEW w \in watching, SegmentRequest(h, w)
      PROVE  NoOrphan'
  BY <1>2 DEF SegmentRequest
<1>3. ASSUME NEW p \in Stoppers, NEW s \in Sessions, StopOne(p, s)
      PROVE  NoOrphan'
  BY <1>3 DEF StopOne
<1>4. CASE Reap
  BY <1>4 DEF Reap
<1>5. ASSUME NEW s \in Sessions, StopSession(s) \/ Write(s) \/ Finish(s) \/ Fail(s)
      PROVE  NoOrphan'
  BY <1>5 DEF StopSession, Write, Finish, Fail
<1>6. ASSUME NEW c \in Channels, StopLive(c)
      PROVE  NoOrphan'
  BY <1>6 DEF StopLive
<1>7. CASE ReaperStopAll \/ ReaperCleared \/ MainStopAll \/ Exit
  BY <1>7 DEF ReaperStopAll, ReaperCleared, MainStopAll, Exit
<1>8. CASE Tick
  BY <1>8 DEF Tick
<1> QED
  BY <1>1, <1>2, <1>3, <1>4, <1>5, <1>6, <1>7, <1>8 DEF Next

\* A running ffmpeg is always in the table, in the hand of the handler that is
\* about to list it, or owed a Stop by whoever delisted it, for any number of
\* handlers and sessions and through the exit (NoOrphan is inductive given
\* TypeInv, which says what a handler holds at each program counter).
THEOREM NothingOrphaned == Spec => []NoOrphan
<1>1. Init => NoOrphan
  BY DEF Init, NoOrphan
<1>2. TypeInv /\ NoOrphan /\ [Next]_vars => NoOrphan'
  <2>1. ASSUME TypeInv, NoOrphan, UNCHANGED vars PROVE NoOrphan'
    BY <2>1 DEF NoOrphan, vars
  <2> QED
    BY <2>1, StepNoOrphan, OtherNoOrphan
<1> QED
  BY <1>1, <1>2, TypeInvariance, PTL DEF Spec

-----------------------------------------------------------------------------
(* How far the ceiling can be passed.                                      *)

LEMMA Finite ==
  ASSUME TypeOK
  PROVE  /\ IsFiniteSet(listed) /\ Cardinality(listed) \in Nat
         /\ IsFiniteSet(InFlight) /\ Cardinality(InFlight) \in Nat
         /\ IsFiniteSet(Handlers) /\ Cardinality(Handlers) \in Nat
         /\ Cardinality(InFlight) <= Cardinality(Handlers)
<1>1. IsFiniteSet(Handlers) /\ IsFiniteSet(Sessions)
  BY ModelAssumption
<1>2. listed \subseteq Sessions /\ InFlight \subseteq Handlers
  BY DEF TypeOK, InFlight
<1> QED
  BY <1>1, <1>2, FS_Subset, FS_CardinalityType

\* A step that lists nothing and lets no call past reserve keeps the bound.
LEMMA NoMore ==
  ASSUME TypeOK, TypeOK', CeilingOvershoot,
         listed' \subseteq listed, InFlight' \subseteq InFlight
  PROVE  CeilingOvershoot'
<1>1. Cardinality(listed') <= Cardinality(listed)
  BY Finite, FS_Subset
<1>2. Cardinality(InFlight') <= Cardinality(InFlight)
  BY Finite, FS_Subset
<1>3. /\ Cardinality(listed') \in Nat /\ Cardinality(InFlight') \in Nat
      /\ MaxSessions \in Nat
  <2>1. /\ IsFiniteSet(listed') /\ IsFiniteSet(InFlight')
    BY Finite, FS_Subset
  <2> QED
    BY <2>1, FS_CardinalityType, ModelAssumption
<1> QED
  BY <1>1, <1>2, <1>3, Finite DEF CeilingOvershoot

\* A call passes reserve with a slot free: it is one of the handlers, and was
\* not yet among those in flight.
LEMMA FreeBound ==
  ASSUME TypeOK, TypeOK', CeilingOvershoot, NEW h \in Handlers, ReserveFree(h)
  PROVE  CeilingOvershoot'
<1>1. listed' = listed /\ Cardinality(listed) < MaxSessions
  BY DEF ReserveFree, tableVars
<1>2. InFlight' \subseteq Handlers
  BY DEF InFlight
<1>3. Cardinality(InFlight') <= Cardinality(Handlers)
  BY <1>2, Finite, FS_Subset
<1>4. Cardinality(InFlight') \in Nat /\ MaxSessions \in Nat
  BY <1>2, Finite, FS_Subset, FS_CardinalityType, ModelAssumption
<1> QED
  BY <1>1, <1>3, <1>4, Finite DEF CeilingOvershoot

\* An eviction gives up one listed session for one call in flight.
LEMMA EvictBound ==
  ASSUME TypeOK, TypeOK', CeilingOvershoot, NEW h \in Handlers, ReserveEvict(h)
  PROVE  CeilingOvershoot'
<1>1. PICK v \in listed : listed' = listed \ {v}
  BY DEF ReserveEvict, Evictable, Delist
<1>2. InFlight' = InFlight \cup {h} /\ h \notin InFlight
  BY DEF ReserveEvict, InFlight, Starting, At, Goto, TypeOK
<1>3. Cardinality(listed') = Cardinality(listed) - 1
  BY <1>1, Finite, FS_RemoveElement
<1>4. Cardinality(InFlight') = Cardinality(InFlight) + 1
  BY <1>2, Finite, FS_AddElement
<1> QED
  BY <1>3, <1>4, Finite, ModelAssumption DEF CeilingOvershoot

\* An insert turns a call in flight into a listed session.
LEMMA InsertBound ==
  ASSUME TypeOK, TypeOK', CeilingOvershoot, NEW h \in Handlers, Insert(h)
  PROVE  CeilingOvershoot'
<1>1. InFlight' = InFlight \ {h} /\ h \in InFlight
  BY DEF Insert, InFlight, Starting, At, Goto, TypeOK
<1>2. Cardinality(InFlight') = Cardinality(InFlight) - 1
  BY <1>1, Finite, FS_RemoveElement
<1>3. listed' = listed \cup {held[h]}
  BY DEF Insert
<1>4. Cardinality(listed') \in Nat /\ Cardinality(listed') <= Cardinality(listed) + 1
  <2>1. IsFiniteSet(listed) /\ Cardinality(listed) \in Nat
    BY Finite
  <2>2. CASE held[h] \in listed
    BY <1>3, <2>1, <2>2
  <2>3. CASE held[h] \notin listed
    <3>1. Cardinality(listed') = Cardinality(listed) + 1
      BY <1>3, <2>1, <2>3, FS_AddElement
    <3> QED
      BY <2>1, <3>1
  <2> QED
    BY <2>2, <2>3
<1> QED
  BY <1>2, <1>4, Finite, ModelAssumption DEF CeilingOvershoot

LEMMA StepOvershoot ==
  ASSUME TypeOK, TypeOK', CeilingOvershoot, NEW h \in Handlers, Step(h)
  PROVE  CeilingOvershoot'
<1> USE DEF InFlight, Starting, TypeOK, At, Goto, Hold, Return, Delist, tableVars
<1>1. CASE ReserveFree(h)
  BY <1>1, FreeBound
<1>2. CASE ReserveEvict(h)
  BY <1>2, EvictBound
<1>3. CASE Insert(h)
  BY <1>3, InsertBound
<1>4. CASE Reuse(h) \/ LookupMiss(h) \/ ReserveRefuse(h)
  BY <1>4, NoMore DEF Reuse, LookupMiss, ReserveRefuse
<1>5. CASE SupersedeOwn(h) \/ SupersedeOther(h)
  BY <1>5, NoMore DEF SupersedeOwn, SupersedeOther
<1>6. CASE Start(h) \/ StartFails(h)
  BY <1>6, NoMore DEF Start, StartFails
<1>7. CASE PlaylistReady(h) \/ HoldForEndlist(h) \/ EndlistOver(h)
  BY <1>7, NoMore DEF PlaylistReady, HoldForEndlist, EndlistOver, Answer
<1>8. CASE GiveUp(h) \/ SegmentServed(h) \/ Read(h) \/ Close(h)
  BY <1>8, NoMore DEF GiveUp, SegmentServed, Read, Close
<1> QED
  BY <1>1, <1>2, <1>3, <1>4, <1>5, <1>6, <1>7, <1>8 DEF Step

LEMMA OtherOvershoot ==
  ASSUME TypeInv, TypeOK', CeilingOvershoot, Next, ~\E h \in Handlers : Step(h)
  PROVE  CeilingOvershoot'
<1>1. listed' \subseteq listed
  BY DEF Next, Begin, SegmentRequest, StopOne, Reap, StopSession, Write, Finish, Fail,
     StopLive, ReaperStopAll, ReaperCleared, MainStopAll, Exit, Tick, Delist, tableVars
<1>2. \A k \in Handlers : pc'[k] # pc[k] => pc'[k] \in {"lookup", "own", "reserve", "segment"}
  <2>1. ASSUME NEW h \in Handlers, NEW r \in Requests, Begin(h, r)
        PROVE  \A k \in Handlers : pc'[k] # pc[k] => pc'[k] \in {"lookup", "own", "reserve"}
    BY <2>1, RequestShape DEF Begin, Goto, FirstStep, AllKinds, TypeInv, TypeOK
  <2>2. ASSUME NEW h \in Handlers, NEW w \in watching, SegmentRequest(h, w)
        PROVE  \A k \in Handlers : pc'[k] # pc[k] => pc'[k] = "segment"
    BY <2>2 DEF SegmentRequest, Goto, TypeInv, TypeOK
  <2> QED
    BY <2>1, <2>2 DEF Next, StopOne, Reap, StopSession, Write, Finish, Fail,
       StopLive, ReaperStopAll, ReaperCleared, MainStopAll, Exit, Tick
<1>3. InFlight' \subseteq InFlight
  BY <1>2 DEF InFlight, Starting
<1> QED
  BY <1>1, <1>3, NoMore DEF TypeInv

\* The table and the starts in flight together never exceed the ceiling by more
\* than the other requests there are at once: reserve counts what is listed, so
\* every call it lets through saw a free slot or gave one up.
THEOREM OvershootBounded == Spec => []CeilingOvershoot
<1>1. Init => CeilingOvershoot
  <2>1. ASSUME Init PROVE listed = {} /\ InFlight = {}
    BY <2>1 DEF Init, InFlight, Starting
  <2>2. Cardinality(Handlers) \in Nat /\ MaxSessions \in Nat /\ MaxSessions >= 1
    BY ModelAssumption, FS_CardinalityType
  <2>3. ASSUME Init PROVE CeilingOvershoot
    <3>1. Cardinality(listed) = 0 /\ Cardinality(InFlight) = 0
      BY <2>1, <2>3, FS_EmptySet
    <3> QED
      BY <3>1, <2>2 DEF CeilingOvershoot
  <2> QED
    BY <2>3
<1>2. TypeInv /\ TypeInv' /\ CeilingOvershoot /\ [Next]_vars => CeilingOvershoot'
  <2>1. ASSUME CeilingOvershoot, UNCHANGED vars PROVE CeilingOvershoot'
    BY <2>1 DEF CeilingOvershoot, InFlight, vars
  <2> QED
    BY <2>1, StepOvershoot, OtherOvershoot DEF TypeInv
<1> QED
  BY <1>1, <1>2, TypeInvariance, PTL DEF Spec

-----------------------------------------------------------------------------
(* A film being watched is kept.                                           *)

\* A session is touched when a segment of it is asked for, so it has been idle no
\* longer than the request has waited; and the clock waits for the request's
\* deadline.
WaitsInTime ==
  \A h \in Handlers :
    /\ pc[h] = "idle" => waited[h] = 0
    /\ pc[h] = "segment" => idle[held[h]] <= waited[h] /\ waited[h] <= SegWait

\* A step of one handler, that leaves the clock alone, and idleness but for a touch.
LEMMA TouchOnly ==
  ASSUME TypeInv, TypeInv', WaitsInTime, NEW h \in Handlers,
         \A k \in Handlers \ {h} :
           pc'[k] = pc[k] /\ waited'[k] = waited[k] /\ held'[k] = held[k],
         \A s \in Sessions : idle'[s] \in {0, idle[s]},
         \/ pc'[h] = "idle" /\ waited'[h] = 0
         \/ pc'[h] \notin {"idle", "segment"}
         \/ pc'[h] = "segment" /\ waited'[h] = 0 /\ idle'[held'[h]] = 0
         \/ pc'[h] = pc[h] /\ waited'[h] = waited[h] /\ held'[h] = held[h]
  PROVE  WaitsInTime'
<1>1. SegWait \in Nat
  BY ModelAssumption
<1>2. \A k \in Handlers : waited[k] \in Nat
  BY DEF TypeInv, TypeOK
<1>3. ASSUME NEW k \in Handlers, pc'[k] = pc[k], waited'[k] = waited[k], held'[k] = held[k]
      PROVE  /\ pc'[k] = "idle" => waited'[k] = 0
             /\ pc'[k] = "segment" => idle'[held'[k]] <= waited'[k] /\ waited'[k] <= SegWait
  <2>1. CASE pc[k] = "segment"
    <3>1. held[k] \in Sessions
      BY <2>1 DEF TypeInv, HandOK, Holding
    <3>2. idle'[held[k]] \in {0, idle[held[k]]}
      BY <3>1
    <3> QED BY <1>2, <1>3, <2>1, <3>2 DEF WaitsInTime
  <2>2. CASE pc[k] # "segment"
    BY <1>3, <2>2 DEF WaitsInTime
  <2> QED BY <2>1, <2>2
<1>4. /\ pc'[h] = "idle" => waited'[h] = 0
      /\ pc'[h] = "segment" => idle'[held'[h]] <= waited'[h] /\ waited'[h] <= SegWait
  <2>1. CASE pc'[h] = pc[h] /\ waited'[h] = waited[h] /\ held'[h] = held[h]
    BY <1>3, <2>1
  <2>2. CASE pc'[h] = "segment" /\ waited'[h] = 0 /\ idle'[held'[h]] = 0
    BY <1>1, <2>2
  <2> QED BY <2>1, <2>2
<1> QED BY <1>3, <1>4 DEF WaitsInTime

LEMMA StepInTime ==
  ASSUME TypeInv, TypeInv', WaitsInTime, NEW h \in Handlers, Step(h)
  PROVE  WaitsInTime'
<1> USE DEF TypeInv, TypeOK, At, Goto, Hold, Return, Touch, callVars
<1>1. CASE Reuse(h)
  <2>1. \A s \in Sessions : idle'[s] \in {0, idle[s]}
    BY <1>1 DEF Reuse
  <2>2. /\ pc'[h] = "file"
        /\ \A k \in Handlers \ {h} :
             pc'[k] = pc[k] /\ waited'[k] = waited[k] /\ held'[k] = held[k]
    BY <1>1 DEF Reuse
  <2> QED BY <2>1, <2>2, TouchOnly
<1>2. CASE LookupMiss(h) \/ SupersedeOwn(h) \/ SupersedeOther(h)
  <2>1. pc'[h] \in {"own", "other", "reserve"} /\ \A k \in Handlers \ {h} : pc'[k] = pc[k]
    BY <1>2 DEF LookupMiss, SupersedeOwn, SupersedeOther
  <2>2. UNCHANGED <<idle, waited, held>>
    BY <1>2 DEF LookupMiss, SupersedeOwn, SupersedeOther
  <2> QED BY <2>1, <2>2, TouchOnly
<1>3. CASE ReserveFree(h) \/ ReserveEvict(h)
  <2>1. pc'[h] = "start" /\ \A k \in Handlers \ {h} : pc'[k] = pc[k]
    BY <1>3 DEF ReserveFree, ReserveEvict
  <2>2. UNCHANGED <<idle, waited, held>>
    BY <1>3 DEF ReserveFree, ReserveEvict
  <2> QED BY <2>1, <2>2, TouchOnly
<1>4. CASE ReserveRefuse(h) \/ StartFails(h) \/ PlaylistReady(h) \/ EndlistOver(h) \/ GiveUp(h)
  <2>1. Return(h) /\ UNCHANGED idle
    BY <1>4 DEF ReserveRefuse, StartFails, PlaylistReady, EndlistOver, Answer, GiveUp
  <2> QED BY <2>1, TouchOnly
<1>5. CASE SegmentServed(h) \/ Close(h)
  <2>1. Return(h) /\ UNCHANGED idle
    BY <1>5 DEF SegmentServed, Close
  <2> QED BY <2>1, TouchOnly
<1>6. CASE Start(h) \/ Insert(h)
  <2>1. /\ pc'[h] \in {"insert", "file", "serving"} /\ UNCHANGED <<idle, waited>>
        /\ \A k \in Handlers \ {h} : pc'[k] = pc[k] /\ held'[k] = held[k]
    BY <1>6 DEF Start, Insert
  <2> QED BY <2>1, TouchOnly
<1>7. CASE HoldForEndlist(h) \/ Read(h)
  <2>1. /\ pc'[h] \in {"endlist", "serving"} /\ UNCHANGED <<waited, held>>
        /\ \A k \in Handlers \ {h} : pc'[k] = pc[k]
    BY <1>7 DEF HoldForEndlist, Read
  <2>2. \A s \in Sessions : idle'[s] \in {0, idle[s]}
    BY <1>7 DEF HoldForEndlist, Read
  <2> QED BY <2>1, <2>2, TouchOnly
<1> QED BY <1>1, <1>2, <1>3, <1>4, <1>5, <1>6, <1>7 DEF Step

LEMMA OtherInTime ==
  ASSUME TypeInv, TypeInv', WaitsInTime, Next, ~\E h \in Handlers : Step(h)
  PROVE  WaitsInTime'
<1> USE DEF TypeInv, TypeOK, Goto, Hold, Touch, callVars
<1>1. ASSUME NEW h \in Handlers, NEW r \in Requests, Begin(h, r) PROVE WaitsInTime'
  <2>1. pc'[h] \in {"lookup", "own", "reserve"} /\ \A k \in Handlers \ {h} : pc'[k] = pc[k]
    BY <1>1, RequestShape DEF Begin, FirstStep, AllKinds
  <2>2. UNCHANGED <<idle, waited, held>>
    BY <1>1 DEF Begin
  <2> QED BY <2>1, <2>2, TouchOnly
<1>2. ASSUME NEW h \in Handlers, NEW w \in watching, SegmentRequest(h, w) PROVE WaitsInTime'
  <2>1. w[2] \in Sessions /\ waited[h] = 0 /\ pc[h] = "idle"
    BY <1>2 DEF SegmentRequest, WaitsInTime
  <2>2. /\ \A k \in Handlers \ {h} :
             pc'[k] = pc[k] /\ waited'[k] = waited[k] /\ held'[k] = held[k]
        /\ \A s \in Sessions : idle'[s] \in {0, idle[s]}
    BY <1>2 DEF SegmentRequest
  <2>3. \/ pc'[h] = "segment" /\ waited'[h] = 0 /\ idle'[held'[h]] = 0
        \/ pc'[h] = "idle" /\ waited'[h] = 0
    BY <1>2, <2>1 DEF SegmentRequest
  <2> QED BY <2>2, <2>3, TouchOnly
<1>3. CASE Tick
  <2> SUFFICES ASSUME NEW h \in Handlers
               PROVE  /\ pc'[h] = "idle" => waited'[h] = 0
                      /\ pc'[h] = "segment" => idle'[held'[h]] <= waited'[h] /\ waited'[h] <= SegWait
    BY DEF WaitsInTime
  <2>1. /\ pc' = pc /\ held' = held /\ ~Overdue(h)
        /\ waited'[h] = waited[h] + (IF pc[h] \in {"file", "segment"} THEN 1 ELSE 0)
        /\ \A s \in Sessions : idle'[s] = idle[s] + (IF Ticks(s) THEN 1 ELSE 0)
    BY <1>3 DEF Tick
  <2>2. SegWait \in Nat /\ waited[h] \in Nat
    BY ModelAssumption
  <2>3. CASE pc[h] = "segment"
    <3>1. held[h] \in Sessions /\ idle[held[h]] \in Nat
      BY <2>3 DEF HandOK, Holding
    <3>2. waited'[h] = waited[h] + 1 /\ waited[h] < SegWait
      BY <2>1, <2>2, <2>3 DEF Overdue
    <3>3. idle'[held[h]] \in {idle[held[h]], idle[held[h]] + 1} /\ idle[held[h]] <= waited[h]
      BY <2>1, <2>3, <3>1 DEF WaitsInTime
    <3> QED BY <2>1, <2>2, <2>3, <3>1, <3>2, <3>3
  <2>4. CASE pc[h] # "segment"
    BY <2>1, <2>2, <2>4 DEF WaitsInTime
  <2> QED BY <2>3, <2>4
<1>4. ASSUME UNCHANGED <<pc, callVars, idle>> PROVE WaitsInTime'
  BY <1>4 DEF WaitsInTime
<1>5. CASE \/ Reap \/ ReaperStopAll \/ ReaperCleared \/ MainStopAll \/ Exit
           \/ \E c \in Channels : StopLive(c)
           \/ \E p \in Stoppers, s \in Sessions : StopOne(p, s)
           \/ \E s \in Sessions : StopSession(s) \/ Write(s) \/ Finish(s) \/ Fail(s)
  BY <1>4, <1>5 DEF Reap, ReaperStopAll, ReaperCleared, MainStopAll, Exit, StopLive, StopOne,
     StopSession, Write, Finish, Fail
<1> QED BY <1>1, <1>2, <1>3, <1>5 DEF Next

\* While a segment request waits on a film that has handed over picture, neither the
\* reaper nor another viewer's eviction takes its session, as long as a segment
\* is not waited for longer than a session may be idle.
THEOREM WatchedSessionKept ==
  ASSUME SegWait <= IdleTimeout, SegWait < Grace
  PROVE  Spec => PlayedSessionKept
<1>1. Init => WaitsInTime
  BY DEF Init, WaitsInTime
<1>2. TypeInv /\ TypeInv' /\ WaitsInTime /\ [Next]_vars => WaitsInTime'
  <2>1. ASSUME WaitsInTime, UNCHANGED vars PROVE WaitsInTime'
    BY <2>1 DEF WaitsInTime, vars, callVars
  <2> QED BY <2>1, StepInTime, OtherInTime
<1>3. ASSUME TypeInv, WaitsInTime, NEW s \in listed, NEW h \in Handlers,
             pc[h] = "segment", held[h] = s, served[s], ~IsLive(s)
      PROVE  idle[s] <= IdleTimeout /\ idle[s] < Grace
  <2>1. idle[s] <= waited[h] /\ waited[h] <= SegWait
    BY <1>3 DEF WaitsInTime
  <2>2. idle[s] \in Nat /\ waited[h] \in Nat
    BY <1>3 DEF TypeInv, TypeOK
  <2> QED BY <2>1, <2>2, ModelAssumption
<1>4. ASSUME TypeInv, WaitsInTime, NEW s \in listed \ listed',
             Reap \/ \E h \in Handlers : ReserveEvict(h),
             WaitingOn(s), served[s], ~IsLive(s)
      PROVE  FALSE
  <2>1. PICK h \in Handlers : pc[h] = "segment" /\ held[h] = s
    BY <1>4 DEF WaitingOn
  <2>2. idle[s] <= IdleTimeout /\ idle[s] < Grace /\ idle[s] \in Nat
    BY <1>3, <1>4, <2>1 DEF TypeInv, TypeOK
  <2>3. CASE Reap
    <3>1. idle[s] > IdleLimit(s)
      BY <2>3 DEF Reap, Delist
    <3> QED BY <1>4, <2>2, <3>1, ModelAssumption DEF IdleLimit
  <2>4. CASE \E k \in Handlers : ReserveEvict(k)
    <3>1. idle[s] >= EvictionGrace(s)
      BY <2>4 DEF ReserveEvict, Delist, Evictable
    <3> QED BY <1>4, <2>2, <3>1, ModelAssumption DEF EvictionGrace
  <2> QED BY <1>4, <2>3, <2>4
<1>5. TypeInv /\ WaitsInTime /\ [Next]_vars =>
        [\A s \in listed \ listed' :
           /\ Reap \/ \E h \in Handlers : ReserveEvict(h)
           => ~(WaitingOn(s) /\ served[s] /\ ~IsLive(s))]_vars
  BY <1>4
<1> QED BY <1>1, <1>2, <1>5, TypeInvariance, PTL DEF Spec, PlayedSessionKept

-----------------------------------------------------------------------------
(* Seeks leave no sessions behind.                                         *)

\* What a handler is about to list is the session its own call started.
OwnSession == \A h \in Handlers : pc[h] = "insert" => info[held[h]] = InfoOf(call[h])

LEMMA OwnSessionInductive == TypeInv /\ OwnSession /\ [Next]_vars => OwnSession'
<1> SUFFICES ASSUME TypeInv, OwnSession, [Next]_vars PROVE OwnSession'
  OBVIOUS
<1> USE DEF OwnSession, TypeInv, TypeOK, At, Goto, Hold, Return, callVars, processVars
<1>1. ASSUME NEW h \in Handlers, \A k \in Handlers \ {h} :
               pc'[k] = pc[k] /\ call'[k] = call[k] /\ held'[k] = held[k],
             pc'[h] # "insert", info' = info
      PROVE  OwnSession'
  BY <1>1
<1>2. ASSUME NEW h \in Handlers, Start(h) PROVE OwnSession'
  <2>1. PICK s \in Sessions : /\ info[s] = NoSess
                              /\ info' = [info EXCEPT ![s] = InfoOf(call[h])]
                              /\ held' = [held EXCEPT ![h] = s]
    BY <1>2 DEF Start, Unused
  <2>2. \A k \in Handlers : pc[k] = "insert" => held[k] # s
    BY <2>1, ModelAssumption DEF HandOK, Holding
  <2>3. call' = call /\ pc' = [pc EXCEPT ![h] = "insert"]
    BY <1>2 DEF Start
  <2> QED BY <2>1, <2>2, <2>3 DEF HandOK, Holding
<1>3. ASSUME NEW h \in Handlers, Step(h), ~Start(h) PROVE OwnSession'
  <2>1. info' = info
    BY <1>3 DEF Step, Reuse, LookupMiss, SupersedeOwn, SupersedeOther, ReserveFree, ReserveEvict,
       ReserveRefuse, StartFails, Insert, PlaylistReady, HoldForEndlist, EndlistOver, GiveUp,
       SegmentServed, Read, Close
  <2>2. CASE Reuse(h) \/ LookupMiss(h) \/ SupersedeOwn(h) \/ SupersedeOther(h) \/ ReserveFree(h)
             \/ ReserveEvict(h) \/ Insert(h) \/ HoldForEndlist(h) \/ Read(h)
    BY <1>1, <2>1, <2>2 DEF Reuse, LookupMiss, SupersedeOwn, SupersedeOther, ReserveFree,
       ReserveEvict, Insert, HoldForEndlist, Read
  <2>3. CASE ReserveRefuse(h) \/ StartFails(h) \/ PlaylistReady(h) \/ EndlistOver(h) \/ GiveUp(h)
             \/ SegmentServed(h) \/ Close(h)
    <3>1. Return(h)
      BY <2>3 DEF ReserveRefuse, StartFails, PlaylistReady, EndlistOver, Answer, GiveUp,
         SegmentServed, Close
    <3> QED BY <1>1, <2>1, <3>1
  <2> QED BY <1>3, <2>2, <2>3 DEF Step
<1>4. ASSUME NEW h \in Handlers, NEW r \in Requests, Begin(h, r) PROVE OwnSession'
  <2>1. pc'[h] \in {"lookup", "own", "reserve"}
    BY <1>4, RequestShape DEF Begin, FirstStep, AllKinds
  <2> QED BY <1>1, <1>4, <2>1 DEF Begin
<1>5. ASSUME NEW h \in Handlers, NEW w \in watching, SegmentRequest(h, w) PROVE OwnSession'
  BY <1>1, <1>5 DEF SegmentRequest
<1>6. CASE UNCHANGED <<pc, call, held, info>>
  BY <1>6
<1>7. CASE \/ Reap \/ ReaperStopAll \/ ReaperCleared \/ MainStopAll \/ Exit \/ Tick
           \/ \E c \in Channels : StopLive(c)
           \/ \E p \in Stoppers, s \in Sessions : StopOne(p, s)
           \/ \E s \in Sessions : StopSession(s) \/ Write(s) \/ Finish(s) \/ Fail(s)
  BY <1>6, <1>7 DEF Reap, ReaperStopAll, ReaperCleared, MainStopAll, Exit, Tick, StopLive,
     StopOne, StopSession, Write, Finish, Fail
<1>8. CASE UNCHANGED vars
  BY <1>6, <1>8 DEF vars
<1> QED BY <1>2, <1>3, <1>4, <1>5, <1>7, <1>8 DEF Next

Bound(o, i) == Cardinality(HLSOf(o, i)) + Cardinality(AskingFor(o, i)) <= Cardinality(Handlers)

LEMMA FiniteOf ==
  ASSUME TypeOK, NEW o, NEW i
  PROVE  /\ IsFiniteSet(HLSOf(o, i)) /\ Cardinality(HLSOf(o, i)) \in Nat
         /\ IsFiniteSet(AskingFor(o, i)) /\ Cardinality(AskingFor(o, i)) \in Nat
         /\ Cardinality(AskingFor(o, i)) <= Cardinality(Handlers)
         /\ Cardinality(Handlers) \in Nat
<1>1. HLSOf(o, i) \subseteq Sessions /\ AskingFor(o, i) \subseteq Handlers
  BY DEF HLSOf, AskingFor, TypeOK
<1> QED BY <1>1, ModelAssumption, FS_Subset, FS_CardinalityType

\* A step after which there is no more of either keeps the bound.
LEMMA NoMoreOf ==
  ASSUME TypeOK, NEW o, NEW i, Bound(o, i),
         HLSOf(o, i)' \subseteq HLSOf(o, i), AskingFor(o, i)' \subseteq AskingFor(o, i)
  PROVE  Bound(o, i)'
<1>1. /\ Cardinality(HLSOf(o, i)') <= Cardinality(HLSOf(o, i))
      /\ Cardinality(AskingFor(o, i)') <= Cardinality(AskingFor(o, i))
      /\ Cardinality(HLSOf(o, i)') \in Nat /\ Cardinality(AskingFor(o, i)') \in Nat
  BY FiniteOf, FS_Subset, FS_CardinalityType
<1> QED BY <1>1, FiniteOf DEF Bound

\* A seek has superseded all there was when it is counted as asking itself.
LEMMA SupersedeBound ==
  ASSUME TypeInv, TypeOK', NEW o \in Owners, NEW i \in Films, Bound(o, i),
         NEW h \in Handlers, SupersedeOwn(h)
  PROVE  Bound(o, i)'
<1> USE DEF At, Goto, Delist, TypeInv, TypeOK, callVars, processVars
<1>1. /\ listed' = listed \ Superseded(call[h], OutputOf(call[h]), FALSE)
      /\ UNCHANGED <<info, call>> /\ pc' = [pc EXCEPT ![h] = "other"] /\ pc[h] = "own"
  BY DEF SupersedeOwn
<1>2. CASE call[h].kind = "hls" /\ call[h].item = i /\ call[h].owner = o
  <2>1. o # Anon
    BY ModelAssumption
  <2>2. HLSOf(o, i)' = {}
    BY <1>1, <1>2, <2>1 DEF HLSOf, Superseded, OutputOf
  <2>3. Cardinality(HLSOf(o, i)') = 0
    BY <2>2, FS_EmptySet
  <2>4. AskingFor(o, i)' \subseteq Handlers
    BY DEF AskingFor
  <2>5. /\ Cardinality(AskingFor(o, i)') <= Cardinality(Handlers)
        /\ Cardinality(AskingFor(o, i)') \in Nat
    BY <2>4, ModelAssumption, FS_Subset, FS_CardinalityType
  <2> QED BY <2>3, <2>5 DEF Bound
<1>3. CASE ~(call[h].kind = "hls" /\ call[h].item = i /\ call[h].owner = o)
  <2>1. HLSOf(o, i)' \subseteq HLSOf(o, i)
    BY <1>1 DEF HLSOf
  <2>2. AskingFor(o, i)' \subseteq AskingFor(o, i)
    BY <1>1, <1>3 DEF AskingFor
  <2> QED BY <2>1, <2>2, NoMoreOf
<1> QED BY <1>2, <1>3

LEMMA OneMore ==
  ASSUME NEW S, NEW x, IsFiniteSet(S)
  PROVE  Cardinality(S \cup {x}) <= Cardinality(S) + 1 /\ Cardinality(S \cup {x}) \in Nat
<1>1. Cardinality(S) \in Nat
  BY FS_CardinalityType
<1>2. Cardinality(S \cup {x}) = IF x \in S THEN Cardinality(S) ELSE Cardinality(S) + 1
  BY FS_AddElement
<1> QED BY <1>1, <1>2

LEMMA OneLess ==
  ASSUME NEW S, NEW T, NEW x \in S, IsFiniteSet(S), T = S \ {x}
  PROVE  Cardinality(T) = Cardinality(S) - 1
BY FS_RemoveElement

\* A call lists the one session it was counted for.
LEMMA ListedBound ==
  ASSUME TypeInv, TypeOK', OwnSession, NEW o \in Owners, NEW i \in Films, Bound(o, i),
         NEW h \in Handlers, Insert(h)
  PROVE  Bound(o, i)'
<1> USE DEF At, Goto, TypeInv, TypeOK, callVars, processVars
<1>1. /\ listed' = listed \cup {held[h]} /\ UNCHANGED <<info, call>>
      /\ pc[h] = "insert" /\ pc'[h] \in {"file", "serving"}
      /\ \A k \in Handlers \ {h} : pc'[k] = pc[k]
  BY DEF Insert
<1>2. AskingFor(o, i)' = AskingFor(o, i) \ {h}
  BY <1>1 DEF AskingFor
<1>3. CASE info[held[h]].output = "hls" /\ info[held[h]].item = i /\ info[held[h]].owner = o
  <2>1. call[h] \in Requests /\ info[held[h]] = InfoOf(call[h])
    BY <1>1 DEF OwnSession, HandOK, Calling
  <2>2. /\ call[h].item = i /\ OwnerOf(call[h]) = o /\ OutputOf(call[h]) = "hls"
        /\ o # Anon
    BY <1>3, <2>1, ModelAssumption DEF InfoOf
  <2>3. call[h].kind = "hls" /\ call[h].owner = o
    BY <2>2 DEF OwnerOf, OutputOf
  <2>4. h \in AskingFor(o, i)
    BY <1>1, <2>2, <2>3 DEF AskingFor
  <2>5. Cardinality(AskingFor(o, i)') = Cardinality(AskingFor(o, i)) - 1
    BY <1>2, <2>4, FiniteOf, OneLess
  <2>6. HLSOf(o, i)' = HLSOf(o, i) \cup {held[h]}
    BY <1>1, <1>3 DEF HLSOf
  <2>7. /\ Cardinality(HLSOf(o, i)') <= Cardinality(HLSOf(o, i)) + 1
        /\ Cardinality(HLSOf(o, i)') \in Nat
    <3>1. /\ Cardinality(HLSOf(o, i) \cup {held[h]}) <= Cardinality(HLSOf(o, i)) + 1
          /\ Cardinality(HLSOf(o, i) \cup {held[h]}) \in Nat
      BY FiniteOf, OneMore
    <3> QED BY ONLY <2>6, <3>1
  <2> QED BY <2>5, <2>7, FiniteOf DEF Bound
<1>4. CASE ~(info[held[h]].output = "hls" /\ info[held[h]].item = i /\ info[held[h]].owner = o)
  <2>1. HLSOf(o, i)' \subseteq HLSOf(o, i)
    BY <1>1, <1>4 DEF HLSOf
  <2>2. AskingFor(o, i)' \subseteq AskingFor(o, i)
    BY <1>2
  <2> QED BY <2>1, <2>2, NoMoreOf
<1> QED BY <1>3, <1>4

LEMMA StepSeeks ==
  ASSUME TypeInv, TypeOK', OwnSession, NEW o \in Owners, NEW i \in Films, Bound(o, i),
         NEW h \in Handlers, Step(h)
  PROVE  Bound(o, i)'
<1> USE DEF At, Goto, Hold, Return, Delist, TypeInv, TypeOK, callVars, processVars, tableVars
<1>1. ASSUME listed' \subseteq listed, \A s \in listed : info'[s] = info[s],
             \A k \in Handlers \ {h} : pc'[k] = pc[k] /\ call'[k] = call[k],
             \/ pc'[h] \notin {"other", "reserve", "start", "insert"}
             \/ call'[h] = call[h] /\ pc[h] \in {"other", "reserve", "start", "insert"}
             \/ call'[h] = call[h] /\ call[h].kind # "hls"
      PROVE  Bound(o, i)'
  <2>1. HLSOf(o, i)' \subseteq HLSOf(o, i)
    BY <1>1 DEF HLSOf
  <2>2. AskingFor(o, i)' \subseteq AskingFor(o, i)
    BY <1>1 DEF AskingFor
  <2> QED BY <2>1, <2>2, NoMoreOf
<1>2. CASE SupersedeOwn(h)
  BY <1>2, SupersedeBound
<1>3. CASE Insert(h)
  BY <1>3, ListedBound
<1>4. CASE Reuse(h) \/ LookupMiss(h)
  BY <1>1, <1>4 DEF Reuse, LookupMiss
<1>5. CASE SupersedeOther(h) \/ ReserveFree(h) \/ ReserveEvict(h)
  BY <1>1, <1>5 DEF SupersedeOther, ReserveFree, ReserveEvict
<1>6. CASE Start(h)
  <2>1. \A s \in listed : info'[s] = info[s]
    BY <1>6, ModelAssumption DEF Start, Unused, TableOK
  <2> QED BY <1>1, <1>6, <2>1 DEF Start
<1>7. CASE ReserveRefuse(h) \/ StartFails(h) \/ PlaylistReady(h) \/ EndlistOver(h) \/ GiveUp(h)
           \/ SegmentServed(h) \/ Close(h)
  <2>1. Return(h) /\ listed' \subseteq listed /\ info' = info
    BY <1>7 DEF ReserveRefuse, StartFails, PlaylistReady, EndlistOver, Answer, GiveUp,
       SegmentServed, Close
  <2> QED BY <1>1, <2>1
<1>8. CASE HoldForEndlist(h) \/ Read(h)
  BY <1>1, <1>8 DEF HoldForEndlist, Read
<1> QED BY <1>2, <1>3, <1>4, <1>5, <1>6, <1>7, <1>8 DEF Step

LEMMA OtherSeeks ==
  ASSUME TypeInv, TypeOK', NEW o \in Owners, NEW i \in Films, Bound(o, i),
         Next, ~\E h \in Handlers : Step(h)
  PROVE  Bound(o, i)'
<1> USE DEF Goto, Hold, Delist, TypeInv, TypeOK, callVars, processVars, tableVars
<1>1. listed' \subseteq listed /\ info' = info
  BY DEF Next, Begin, SegmentRequest, StopOne, Reap, StopSession, Write, Finish, Fail, StopLive,
     ReaperStopAll, ReaperCleared, MainStopAll, Exit, Tick
<1>2. HLSOf(o, i)' \subseteq HLSOf(o, i)
  BY <1>1 DEF HLSOf
<1>3. ASSUME NEW h \in Handlers, \A k \in Handlers \ {h} : pc'[k] = pc[k] /\ call'[k] = call[k],
             \/ pc'[h] \notin {"other", "reserve", "start", "insert"} \/ call'[h].kind # "hls"
      PROVE  AskingFor(o, i)' \subseteq AskingFor(o, i)
  BY <1>3 DEF AskingFor
<1>4. ASSUME NEW h \in Handlers, NEW r \in Requests, Begin(h, r)
      PROVE  AskingFor(o, i)' \subseteq AskingFor(o, i)
  <2>1. call'[h] = r /\ pc'[h] = FirstStep[r.kind] /\ r.kind \in AllKinds
    BY <1>4, RequestShape DEF Begin
  <2>2. pc'[h] \notin {"other", "reserve", "start", "insert"} \/ call'[h].kind # "hls"
    BY <2>1 DEF FirstStep, AllKinds
  <2> QED BY <1>3, <1>4, <2>2 DEF Begin
<1>5. ASSUME NEW h \in Handlers, NEW w \in watching, SegmentRequest(h, w)
      PROVE  AskingFor(o, i)' \subseteq AskingFor(o, i)
  BY <1>3, <1>5 DEF SegmentRequest
<1>6. ASSUME UNCHANGED <<pc, call>> PROVE AskingFor(o, i)' \subseteq AskingFor(o, i)
  BY <1>6 DEF AskingFor
<1>7. AskingFor(o, i)' \subseteq AskingFor(o, i)
  BY <1>4, <1>5, <1>6 DEF Next, StopOne, Reap, StopSession, Write, Finish, Fail, StopLive,
     ReaperStopAll, ReaperCleared, MainStopAll, Exit, Tick
<1> QED BY <1>2, <1>7, NoMoreOf

\* A viewer's sessions of one film never outnumber the requests there can be at
\* once: a seek has superseded every listed one before it starts its own.
THEOREM SeeksBounded == Spec => []SeeksLeaveNothing
<1> DEFINE Inv == OwnSession /\ SeeksLeaveNothing
<1>1. Init => Inv
  <2> SUFFICES ASSUME Init PROVE Inv
    OBVIOUS
  <2>1. OwnSession
    BY DEF Init, OwnSession
  <2>2. ASSUME NEW o \in Owners, NEW i \in Films PROVE Bound(o, i)
    <3>1. HLSOf(o, i) = {} /\ AskingFor(o, i) = {}
      BY DEF Init, HLSOf, AskingFor
    <3>2. Cardinality(Handlers) \in Nat
      BY ModelAssumption, FS_CardinalityType
    <3> QED BY <3>1, <3>2, FS_EmptySet DEF Bound
  <2> QED BY <2>1, <2>2 DEF SeeksLeaveNothing, Bound
<1>2. TypeInv /\ TypeInv' /\ Inv /\ [Next]_vars => Inv'
  <2> SUFFICES ASSUME TypeInv, TypeInv', Inv, [Next]_vars PROVE Inv'
    OBVIOUS
  <2>1. OwnSession'
    BY OwnSessionInductive
  <2>2. ASSUME NEW o \in Owners, NEW i \in Films PROVE Bound(o, i)'
    <3>1. Bound(o, i)
      BY DEF SeeksLeaveNothing, Bound
    <3>2. CASE UNCHANGED vars
      BY <3>1, <3>2 DEF Bound, HLSOf, AskingFor, vars, callVars
    <3>3. CASE Next
      BY <3>1, <3>3, StepSeeks, OtherSeeks DEF TypeInv
    <3> QED BY <3>2, <3>3
  <2> QED BY <2>1, <2>2 DEF SeeksLeaveNothing, Bound
<1>3. Inv => SeeksLeaveNothing
  OBVIOUS
<1> HIDE DEF Inv
<1> QED BY <1>1, <1>2, <1>3, TypeInvariance, PTL DEF Spec

-----------------------------------------------------------------------------
(* The life of a session. A session is in one place: in the hand of one    *)
(* handler that inserts it, in the table, or owed a Stop by one goroutine. *)

Inserting(s) == \E h \in Handlers : pc[h] = "insert" /\ held[h] = s
OwedStop(s) == \E p \in Stoppers : s \in dead[p]

OnePlace ==
  /\ \A h \in Handlers : pc[h] = "insert" => held[h] \notin listed /\ ~OwedStop(held[h])
  /\ \A h, k \in Handlers :
       pc[h] = "insert" /\ pc[k] = "insert" /\ held[h] = held[k] => h = k
  /\ \A s \in listed : ~OwedStop(s)
  /\ \A p, q \in Stoppers : p # q => dead[p] \cap dead[q] = {}
  /\ \A s \in Sessions : info[s] = NoSess => ~OwedStop(s)

\* The handlers between their start and their insert are the same.
SameInsert ==
  \A h \in Handlers : /\ pc'[h] = "insert" <=> pc[h] = "insert"
                      /\ pc[h] = "insert" => held'[h] = held[h]

\* A session's stage decides the abstract step.
LEMMA StageBecomes ==
  ASSUME NEW S \in SUBSET Sessions, NEW from, NEW to,
         \A s \in S : Stage(s) = from,
         \A s \in Sessions : Stage(s)' = IF s \in S THEN to ELSE Stage(s)
  PROVE  Life!Become(S, from, to)
BY DEF Life!Become

\* What leaves the table is owed a Stop, all of it at once.
LEMMA DelistDooms ==
  ASSUME TypeInv, TypeInv', OnePlace, NEW p \in Stoppers, NEW gone \in SUBSET listed,
         Delist(p, gone), UNCHANGED <<info, ff>>, SameInsert
  PROVE  Life!LifeNext /\ OnePlace'
<1> USE DEF TypeInv, TypeOK, Inserting, OwedStop
<1>1. /\ listed' = listed \ gone /\ gone \subseteq Sessions
      /\ \A q \in Stoppers, s \in Sessions :
           s \in dead'[q] <=> s \in dead[q] \/ (q = p /\ s \in gone)
  BY DEF Delist
<1>2. \A s \in Sessions : Inserting(s)' <=> Inserting(s)
  BY DEF SameInsert
<1>3. \A s \in Sessions : OwedStop(s)' <=> OwedStop(s) \/ s \in gone
  BY <1>1
<1>4. \A s \in gone : Stage(s) = "listed" /\ ~Inserting(s)
  BY ModelAssumption DEF OnePlace, Stage, TableOK
<1>5. \A s \in Sessions : Stage(s)' = IF s \in gone THEN "doomed" ELSE Stage(s)
  <2> SUFFICES ASSUME NEW s \in Sessions
               PROVE  Stage(s)' = IF s \in gone THEN "doomed" ELSE Stage(s)
    OBVIOUS
  <2>1. /\ info'[s] = info[s] /\ (s \in listed' <=> s \in listed /\ s \notin gone)
        /\ Inserting(s)' <=> Inserting(s)
        /\ OwedStop(s)' <=> OwedStop(s) \/ s \in gone
    BY <1>1, <1>2, <1>3
  <2>2. s \in gone => info[s] # NoSess
    BY ModelAssumption DEF TableOK
  <2>3. Stage(s) = IF info[s] = NoSess THEN "unborn"
                   ELSE IF s \in listed THEN "listed"
                   ELSE IF Inserting(s) THEN "launched"
                   ELSE IF OwedStop(s) THEN "doomed" ELSE "ended"
    BY DEF Stage
  <2>4. Stage(s)' = IF info'[s] = NoSess THEN "unborn"
                    ELSE IF s \in listed' THEN "listed"
                    ELSE IF Inserting(s)' THEN "launched"
                    ELSE IF OwedStop(s)' THEN "doomed" ELSE "ended"
    BY DEF Stage
  <2> HIDE DEF TypeInv, TypeOK, Inserting, OwedStop
  <2> QED BY <1>4, <2>1, <2>2, <2>3, <2>4
<1>6. Life!Become(gone, "listed", "doomed")
  BY <1>1, <1>4, <1>5, StageBecomes
<1>7. Life!LifeNext
  BY <1>1, <1>6 DEF Life!LifeNext, Life!Doom
<1>8. OnePlace'
  <2>1. \A h \in Handlers : pc'[h] = "insert" =>
           held'[h] \notin listed' /\ ~OwedStop(held[h])'
    <3> SUFFICES ASSUME NEW h \in Handlers, pc'[h] = "insert"
                 PROVE  held'[h] \notin listed' /\ ~OwedStop(held[h])'
      OBVIOUS
    <3>1. pc[h] = "insert" /\ held'[h] = held[h] /\ held[h] \in Sessions
      BY DEF SameInsert, HandOK, Holding
    <3>2. held[h] \notin listed /\ ~OwedStop(held[h])
      BY <3>1 DEF OnePlace
    <3> HIDE DEF OwedStop
    <3> QED BY <1>1, <1>3, <3>1, <3>2
  <2>2. \A h, k \in Handlers :
          pc'[h] = "insert" /\ pc'[k] = "insert" /\ held'[h] = held'[k] => h = k
    BY DEF OnePlace, SameInsert
  <2>3. \A s \in listed' : ~OwedStop(s)'
    BY <1>1 DEF OnePlace
  <2>4. \A q, r \in Stoppers : q # r => dead'[q] \cap dead'[r] = {}
    BY <1>1 DEF OnePlace
  <2>5. \A s \in Sessions : info'[s] = NoSess => ~OwedStop(s)'
    BY <1>3, ModelAssumption DEF OnePlace, TableOK
  <2> QED BY <2>1, <2>2, <2>3, <2>4, <2>5 DEF OnePlace
<1> QED BY <1>7, <1>8

\* A step that moves no session changes at most which ffmpeg runs.
LEMMA StageKept ==
  ASSUME TypeInv, OnePlace, UNCHANGED <<listed, dead, info>>, SameInsert
  PROVE  /\ \A s \in Sessions : Stage(s)' = Stage(s)
         /\ OnePlace'
<1> USE DEF TypeInv, TypeOK
<1>1. \A s \in Sessions : Inserting(s)' <=> Inserting(s)
  BY DEF SameInsert, Inserting
<1>2. \A s \in Sessions : Stage(s)' = Stage(s)
  BY <1>1 DEF Stage, Inserting
<1>3. OnePlace'
  BY DEF OnePlace, OwedStop, SameInsert
<1> QED BY <1>2, <1>3

LEMMA NothingMoves ==
  ASSUME TypeInv, OnePlace, UNCHANGED <<listed, dead, info, ff>>, SameInsert
  PROVE  UNCHANGED Life!lifeVars /\ OnePlace'
BY StageKept DEF Life!lifeVars

\* ffmpeg starts in the hand of the handler that will insert it.
LEMMA StartLaunches ==
  ASSUME TypeInv, TypeInv', OnePlace, NEW h \in Handlers, Start(h)
  PROVE  Life!LifeNext /\ OnePlace'
<1> USE DEF TypeInv, TypeOK
<1>1. PICK s \in Sessions :
        /\ info[s] = NoSess /\ info' = [info EXCEPT ![s] = InfoOf(call[h])]
        /\ ff' = [ff EXCEPT ![s] = "running"] /\ held' = [held EXCEPT ![h] = s]
        /\ pc' = [pc EXCEPT ![h] = "insert"] /\ pc[h] = "start"
        /\ UNCHANGED <<listed, dead>>
  BY DEF Start, Unused, At, Goto, Hold, tableVars
<1>2. info'[s] # NoSess
  BY <1>1, RequestShape, ModelAssumption DEF HandOK, Calling
<1>3. s \notin listed /\ ~OwedStop(s) /\ ~Inserting(s)
  BY <1>1, ModelAssumption DEF OnePlace, TableOK, HandOK, Holding, Inserting
<1>4. \A t \in Sessions : Inserting(t)' <=> Inserting(t) \/ t = s
  BY <1>1 DEF Inserting
<1>5. \A t \in Sessions : Stage(t)' = IF t \in {s} THEN "launched" ELSE Stage(t)
  <2> SUFFICES ASSUME NEW t \in Sessions
               PROVE  Stage(t)' = IF t \in {s} THEN "launched" ELSE Stage(t)
    OBVIOUS
  <2>1. Stage(t)' = IF info'[t] = NoSess THEN "unborn"
                    ELSE IF t \in listed THEN "listed"
                    ELSE IF Inserting(t)' THEN "launched"
                    ELSE IF OwedStop(t) THEN "doomed" ELSE "ended"
    BY <1>1 DEF Stage, Inserting, OwedStop
  <2>2. Stage(t) = IF info[t] = NoSess THEN "unborn"
                   ELSE IF t \in listed THEN "listed"
                   ELSE IF Inserting(t) THEN "launched"
                   ELSE IF OwedStop(t) THEN "doomed" ELSE "ended"
    BY DEF Stage, Inserting, OwedStop
  <2>3. t # s => info'[t] = info[t]
    BY <1>1
  <2> QED BY <1>2, <1>3, <1>4, <2>1, <2>2, <2>3
<1>6. Stage(s) = "unborn"
  BY <1>1 DEF Stage
<1>7. Life!Become({s}, "unborn", "launched")
  BY <1>5, <1>6, StageBecomes
<1>8. {t \in Sessions : ff'[t] = "running"} = {t \in Sessions : ff[t] = "running"} \cup {s}
  BY <1>1
<1>9. OnePlace'
  BY <1>1, <1>2, <1>3 DEF OnePlace, OwedStop, Inserting
<1> QED BY <1>7, <1>8, <1>9 DEF Life!LifeNext, Life!Launch

\* It enters the table out of that one hand.
LEMMA InsertLists ==
  ASSUME TypeInv, TypeInv', OnePlace, NEW h \in Handlers, Insert(h)
  PROVE  Life!LifeNext /\ OnePlace'
<1> USE DEF TypeInv, TypeOK
<1> DEFINE s == held[h]
<1>1. /\ s \in Sessions /\ info[s] # NoSess /\ pc[h] = "insert" /\ pc'[h] # "insert"
      /\ \A k \in Handlers \ {h} : pc'[k] = pc[k]
      /\ listed' = listed \cup {s} /\ UNCHANGED <<dead, info, ff, held>>
  BY ModelAssumption DEF Insert, At, Goto, HandOK, Holding, processVars, callVars
<1>2. s \notin listed /\ ~OwedStop(s)
  BY <1>1 DEF OnePlace
<1>3. \A t \in Sessions : Inserting(t)' <=> Inserting(t) /\ t # s
  BY <1>1 DEF Inserting, OnePlace
<1> HIDE DEF s
<1>4. \A t \in Sessions : Stage(t)' = IF t \in {s} THEN "listed" ELSE Stage(t)
  <2> SUFFICES ASSUME NEW t \in Sessions
               PROVE  Stage(t)' = IF t \in {s} THEN "listed" ELSE Stage(t)
    OBVIOUS
  <2>1. Stage(t)' = IF info[t] = NoSess THEN "unborn"
                    ELSE IF t \in listed' THEN "listed"
                    ELSE IF Inserting(t)' THEN "launched"
                    ELSE IF OwedStop(t) THEN "doomed" ELSE "ended"
    BY <1>1 DEF Stage, Inserting, OwedStop
  <2>2. Stage(t) = IF info[t] = NoSess THEN "unborn"
                   ELSE IF t \in listed THEN "listed"
                   ELSE IF Inserting(t) THEN "launched"
                   ELSE IF OwedStop(t) THEN "doomed" ELSE "ended"
    BY DEF Stage, Inserting, OwedStop
  <2> QED BY <1>1, <1>3, <2>1, <2>2
<1>5. Stage(s) = "launched"
  BY <1>1, <1>2 DEF Stage, s
<1>6. Life!Become({s}, "launched", "listed")
  BY <1>1, <1>4, <1>5, StageBecomes
<1>7. OnePlace'
  BY <1>1, <1>2 DEF OnePlace, OwedStop, s
<1> QED BY <1>1, <1>6, <1>7 DEF Life!LifeNext, Life!List

\* One goroutine owes it the Stop, so the Stop ends it.
LEMMA StopEnds ==
  ASSUME TypeInv, TypeInv', OnePlace, NEW p \in Stoppers, NEW s \in Sessions, StopOne(p, s)
  PROVE  Life!LifeNext /\ OnePlace'
<1> USE DEF TypeInv, TypeOK
<1>1. /\ s \in dead[p] /\ dead' = [dead EXCEPT ![p] = @ \ {s}]
      /\ ff' = [ff EXCEPT ![s] = IF @ = "running" THEN "killed" ELSE @]
      /\ UNCHANGED <<listed, info, pc, held>>
  BY DEF StopOne, callVars
<1>2. OwedStop(s) /\ info[s] # NoSess /\ s \notin listed /\ ~Inserting(s)
  BY <1>1 DEF OnePlace, OwedStop, Inserting
<1>3. \A t \in Sessions : OwedStop(t)' <=> OwedStop(t) /\ t # s
  BY <1>1 DEF OnePlace, OwedStop
<1>4. \A t \in Sessions : Stage(t)' = IF t \in {s} THEN "ended" ELSE Stage(t)
  <2> SUFFICES ASSUME NEW t \in Sessions
               PROVE  Stage(t)' = IF t \in {s} THEN "ended" ELSE Stage(t)
    OBVIOUS
  <2>1. Stage(t)' = IF info[t] = NoSess THEN "unborn"
                    ELSE IF t \in listed THEN "listed"
                    ELSE IF Inserting(t) THEN "launched"
                    ELSE IF OwedStop(t)' THEN "doomed" ELSE "ended"
    BY <1>1 DEF Stage, Inserting, OwedStop
  <2>2. Stage(t) = IF info[t] = NoSess THEN "unborn"
                   ELSE IF t \in listed THEN "listed"
                   ELSE IF Inserting(t) THEN "launched"
                   ELSE IF OwedStop(t) THEN "doomed" ELSE "ended"
    BY DEF Stage, Inserting, OwedStop
  <2> QED BY <1>2, <1>3, <2>1, <2>2
<1>5. Stage(s) = "doomed"
  BY <1>2 DEF Stage, Inserting, OwedStop
<1>6. Life!Become({s}, "doomed", "ended")
  BY <1>4, <1>5, StageBecomes
<1>7. {t \in Sessions : ff'[t] = "running"} = {t \in Sessions : ff[t] = "running"} \ {s}
  BY <1>1
<1>8. OnePlace'
  BY <1>1, <1>3 DEF OnePlace, OwedStop
<1> QED BY <1>6, <1>7, <1>8 DEF Life!LifeNext, Life!End

\* An ffmpeg that ends by itself moves nothing.
LEMMA EndingMoves ==
  ASSUME TypeInv, OnePlace, NEW s \in Sessions, Finish(s) \/ Fail(s)
  PROVE  Life!LifeNext /\ OnePlace'
<1> USE DEF TypeInv, TypeOK
<1>1. /\ UNCHANGED <<listed, dead, info, pc, held>>
      /\ \E to \in {"exited", "failed"} : ff' = [ff EXCEPT ![s] = to]
  BY DEF Finish, Fail, tableVars, callVars
<1>2. OnePlace' /\ \A t \in Sessions : Stage(t)' = Stage(t)
  BY <1>1, StageKept DEF SameInsert
<1>3. {t \in Sessions : ff'[t] = "running"} = {t \in Sessions : ff[t] = "running"} \ {s}
  BY <1>1
<1> QED BY <1>2, <1>3 DEF Life!LifeNext, Life!Expire

LEMMA StepLives ==
  ASSUME TypeInv, TypeInv', OnePlace, NEW h \in Handlers, Step(h)
  PROVE  [Life!LifeNext]_(Life!lifeVars) /\ OnePlace'
<1> USE DEF At, Goto, Hold, Return, SameInsert, TypeInv, TypeOK, processVars, tableVars, callVars
<1>1. CASE Start(h)
  BY <1>1, StartLaunches
<1>2. CASE Insert(h)
  BY <1>2, InsertLists
<1>3. CASE SupersedeOwn(h) \/ SupersedeOther(h) \/ ReserveEvict(h) \/ Close(h)
  <2>1. \E gone \in SUBSET listed : Delist(h, gone)
    BY <1>3 DEF SupersedeOwn, SupersedeOther, ReserveEvict, Close, Superseded, Evictable
  <2>2. SameInsert /\ UNCHANGED <<info, ff>>
    BY <1>3 DEF SupersedeOwn, SupersedeOther, ReserveEvict, Close
  <2>3. h \in Stoppers
    BY DEF Stoppers
  <2> QED BY <2>1, <2>2, <2>3, DelistDooms
<1>4. CASE Reuse(h) \/ LookupMiss(h) \/ ReserveFree(h) \/ ReserveRefuse(h) \/ StartFails(h)
           \/ PlaylistReady(h) \/ HoldForEndlist(h) \/ EndlistOver(h) \/ GiveUp(h)
           \/ SegmentServed(h) \/ Read(h)
  <2>1. SameInsert /\ UNCHANGED <<listed, dead, info, ff>>
    BY <1>4 DEF Reuse, LookupMiss, ReserveFree, ReserveRefuse, StartFails, PlaylistReady, Answer,
       HoldForEndlist, EndlistOver, GiveUp, SegmentServed, Read
  <2> QED BY <2>1, NothingMoves
<1> QED BY <1>1, <1>2, <1>3, <1>4 DEF Step

LEMMA OtherLives ==
  ASSUME TypeInv, TypeInv', OnePlace, [Next]_vars, ~\E h \in Handlers : Step(h)
  PROVE  [Life!LifeNext]_(Life!lifeVars) /\ OnePlace'
<1> USE DEF Goto, Hold, SameInsert, TypeInv, TypeOK, processVars, tableVars, callVars
<1>1. CASE \E p \in Stoppers, s \in Sessions : StopOne(p, s)
  BY <1>1, StopEnds
<1>2. CASE \E s \in Sessions : Finish(s) \/ Fail(s)
  BY <1>2, EndingMoves
<1>3. CASE \/ Reap \/ ReaperStopAll \/ MainStopAll \/ \E s \in Sessions : StopSession(s)
           \/ \E c \in Channels : StopLive(c)
  <2>1. \E p \in Stoppers, gone \in SUBSET listed : Delist(p, gone)
    BY <1>3 DEF Reap, ReaperStopAll, MainStopAll, StopSession, StopLive, Stoppers
  <2>2. SameInsert /\ UNCHANGED <<info, ff>>
    BY <1>3 DEF Reap, ReaperStopAll, MainStopAll, StopSession, StopLive
  <2> QED BY <2>1, <2>2, DelistDooms
<1>4. CASE \/ ReaperCleared \/ Exit \/ Tick \/ UNCHANGED vars
           \/ \E s \in Sessions : Write(s)
           \/ \E h \in Handlers, w \in watching : SegmentRequest(h, w)
           \/ \E h \in Handlers, r \in Requests : Begin(h, r)
  <2>1. UNCHANGED <<listed, dead, info, ff>>
    BY <1>4 DEF ReaperCleared, Exit, Tick, Write, SegmentRequest, Begin, vars
  <2>2. SameInsert
    <3>1. ASSUME NEW h \in Handlers, NEW r \in Requests, Begin(h, r) PROVE SameInsert
      BY <3>1, RequestShape DEF Begin, FirstStep, AllKinds
    <3> QED BY <1>4, <3>1 DEF ReaperCleared, Exit, Tick, Write, SegmentRequest, vars
  <2> QED BY <2>1, <2>2, NothingMoves
<1> QED BY <1>1, <1>2, <1>3, <1>4 DEF Next

\* The manager implements the life of a session, but for the fairness that is
\* left to the runs: launched once, listed once, off the table once, and ended
\* by the one goroutine that took it off (supersede, reserve, reap, Stop, StopAll).
THEOREM ManagerImplementsLife == Spec => ImplementsLife
<1>1. Init => Life!LifeInit /\ OnePlace
  <2> SUFFICES ASSUME Init PROVE Life!LifeInit /\ OnePlace
    OBVIOUS
  <2>1. \A s \in Sessions : Stage(s) = "unborn" /\ ff[s] # "running"
    BY DEF Init, Stage
  <2>2. Life!LifeInit
    BY <2>1 DEF Life!LifeInit
  <2>3. OnePlace
    BY DEF Init, OnePlace, OwedStop
  <2> QED BY <2>2, <2>3
<1>2. TypeInv /\ TypeInv' /\ OnePlace /\ [Next]_vars => [Life!LifeNext]_(Life!lifeVars) /\ OnePlace'
  BY StepLives, OtherLives
<1> QED BY <1>1, <1>2, TypeInvariance, PTL DEF Spec, ImplementsLife, Life!LifeSpec

=============================================================================
