------------------------------ MODULE HubProofs ------------------------------
(***************************************************************************)
(* Theorems about EventsHub, for any streams, accounts and topics.         *)
(***************************************************************************)
EXTENDS EventsHub, TLAPS

LEMMA InitTypeOK == Init => TypeOK
  BY DEF Init, TypeOK, Readers

LEMMA StepTypeOK == TypeOK /\ [Next]_hubVars => TypeOK'
<1> SUFFICES ASSUME TypeOK, [Next]_hubVars PROVE TypeOK'
  OBVIOUS
<1> USE HubAssumption DEF TypeOK, Readers, Goto, lifeVars, sendVars
<1>1. ASSUME NEW s \in Subs, Reading(s) PROVE TypeOK'
  BY <1>1 DEF Reading, Turning, CallNext, Woken, GiveUpWaiting, Finished, WindowOver,
     GiveUpGathering, PutBack, Drain, Take
<1>2. ASSUME NEW s \in Subs, Unsubscribe(s) \/ Finish(s) PROVE TypeOK'
  BY <1>2 DEF Unsubscribe, Finish
<1>3. ASSUME NEW s \in Subs, NEW u \in Users, Subscribe(s, u) PROVE TypeOK'
  BY <1>3 DEF Subscribe
<1>4. ASSUME NEW to \in Audiences, NEW T \in SUBSET Topics, Send(to, T) PROVE TypeOK'
  BY <1>4 DEF Send
<1>5. CASE Publishing
  BY <1>5 DEF Publishing, Add, Nudge, Sent
<1>6. CASE Close
  BY <1>6 DEF Close
<1>7. CASE UNCHANGED hubVars
  BY <1>7 DEF hubVars
<1> QED
  BY <1>1, <1>2, <1>3, <1>4, <1>5, <1>6, <1>7 DEF Next

\* The hub's variables keep their types, and a stream belongs to an account from
\* the moment it is opened.
THEOREM HubTypeCorrect == Spec => []TypeOK
  BY InitTypeOK, StepTypeOK, PTL DEF Spec

-----------------------------------------------------------------------------
(* Close reaches every stream.                                             *)

\* Where a stream is: not yet opened, on the hub, or ending; and who the
\* publisher holding the lock can reach.
Registered ==
  /\ \A s \in Subs : reader[s] = "new" => s \notin subs \cup done \cup finishing
  /\ \A s \in Subs : reader[s] \notin {"new", "left"} =>
       s \in subs \cup done \cup finishing
  /\ subs \cap (done \cup finishing) = {}
  /\ closed => subs = {}
  /\ ~closed => finishing = {}
  /\ todo \subseteq subs /\ at \in subs \cup {NoSub}
  /\ Unlocked => todo = {} /\ at = NoSub

LEMMA InitRegistered == Init => Registered
  BY DEF Init, Registered

LEMMA StepRegistered == TypeOK /\ Registered /\ [Next]_hubVars => Registered'
<1> SUFFICES ASSUME TypeOK, Registered, [Next]_hubVars PROVE Registered'
  OBVIOUS
<1> USE HubAssumption DEF TypeOK, Readers, Registered, Unlocked, Goto, lifeVars, sendVars
<1>1. ASSUME NEW s \in Subs, Reading(s) PROVE Registered'
  BY <1>1 DEF Reading, Turning, CallNext, Woken, GiveUpWaiting, Finished, WindowOver,
     GiveUpGathering, PutBack, Drain, Take
<1>2. ASSUME NEW s \in Subs, Unsubscribe(s) \/ Finish(s) PROVE Registered'
  BY <1>2 DEF Unsubscribe, Finish
<1>3. ASSUME NEW s \in Subs, NEW u \in Users, Subscribe(s, u) PROVE Registered'
  BY <1>3 DEF Subscribe
<1>4. ASSUME NEW to \in Audiences, NEW T \in SUBSET Topics, Send(to, T) PROVE Registered'
  BY <1>4 DEF Send
<1>5. CASE Publishing
  BY <1>5 DEF Publishing, Add, Nudge, Sent
<1>6. CASE Close
  BY <1>6 DEF Close
<1>7. CASE UNCHANGED hubVars
  BY <1>7 DEF hubVars
<1> QED
  BY <1>1, <1>2, <1>3, <1>4, <1>5, <1>6, <1>7 DEF Next

\* A stream opened before, during or after Close is finished or about to be.
THEOREM CloseIsTotal == Spec => []ClosedReachesAll
<1>1. Init => Registered
  BY InitRegistered
<1>2. Registered => ClosedReachesAll
  BY DEF Registered, ClosedReachesAll
<1> QED
  BY <1>1, <1>2, InitTypeOK, StepTypeOK, StepRegistered, PTL DEF Spec

-----------------------------------------------------------------------------
(* No wake-up is lost.                                                     *)

LEMMA StepNoTopicStranded ==
  TypeOK /\ Registered /\ NoTopicStranded /\ [Next]_hubVars => NoTopicStranded'
<1> SUFFICES ASSUME TypeOK, Registered, NoTopicStranded, [Next]_hubVars PROVE NoTopicStranded'
  OBVIOUS
<1> USE HubAssumption DEF TypeOK, Readers, NoTopicStranded, Gathering, Goto, lifeVars, sendVars
<1>1. ASSUME NEW s \in Subs, Reading(s) PROVE NoTopicStranded'
  <2>1. CASE CallNext(s)
    BY <1>1, <2>1 DEF CallNext
  <2>2. CASE Woken(s)
    BY <2>2 DEF Woken
  <2>3. CASE GiveUpWaiting(s) \/ Finished(s)
    BY <2>3 DEF GiveUpWaiting, Finished
  <2>4. CASE WindowOver(s) \/ GiveUpGathering(s)
    BY <2>4 DEF WindowOver, GiveUpGathering
  <2>5. CASE PutBack(s) \/ Drain(s)
    BY <2>5 DEF PutBack, Drain
  <2>6. CASE Take(s)
    BY <2>6 DEF Take
  <2> QED
    BY <1>1, <2>1, <2>2, <2>3, <2>4, <2>5, <2>6 DEF Reading, Turning
<1>2. ASSUME NEW s \in Subs, Unsubscribe(s) \/ Finish(s) PROVE NoTopicStranded'
  BY <1>2 DEF Unsubscribe, Finish
<1>3. ASSUME NEW s \in Subs, NEW u \in Users, Subscribe(s, u) PROVE NoTopicStranded'
  BY <1>3 DEF Subscribe, Registered
<1>4. ASSUME NEW to \in Audiences, NEW T \in SUBSET Topics, Send(to, T)
      PROVE NoTopicStranded'
  BY <1>4 DEF Send
<1>5. CASE Publishing
  <2>1. ASSUME NEW s \in Subs, Add(s) PROVE NoTopicStranded'
    BY <2>1 DEF Add
  <2>2. CASE Nudge
    BY <2>2 DEF Nudge
  <2>3. CASE Sent
    BY <2>3 DEF Sent
  <2> QED
    BY <1>5, <2>1, <2>2, <2>3 DEF Publishing
<1>6. CASE Close
  BY <1>6 DEF Close, Registered
<1>7. CASE UNCHANGED hubVars
  BY <1>7 DEF hubVars
<1> QED
  BY <1>1, <1>2, <1>3, <1>4, <1>5, <1>6, <1>7 DEF Next

\* However publishers, readers, heartbeats and Close interleave, topics never
\* wait on a stream without something left to wake its reader for them.
THEOREM NoLostWakeUp == Spec => []NoTopicStranded
<1>1. Init => NoTopicStranded
  BY DEF Init, NoTopicStranded
<1> QED
  BY <1>1, InitTypeOK, StepTypeOK, InitRegistered,
     StepRegistered, StepNoTopicStranded, PTL DEF Spec

-----------------------------------------------------------------------------
(* Steps of the hub are steps of the mailboxes.                            *)

\* Every step of the hub posts, delivers or ends streams, or changes nothing the
\* mailboxes show: a topic never leaves a stream's set other than with all the
\* rest, to its reader, and none is added once the stream is over.
LEMMA StepMailbox ==
  TypeOK /\ Registered /\ [Next]_hubVars => [Box!BoxNext]_(Box!boxVars)
<1> SUFFICES ASSUME TypeOK, Registered, [Next]_hubVars
             PROVE  Box!BoxNext \/ UNCHANGED Box!boxVars
  OBVIOUS
<1> DEFINE over == {s \in Subs : s \in done \/ s \in finishing}
<1> USE DEF TypeOK, Registered, Unlocked, lifeVars, sendVars
<1>1. ASSUME over \subseteq over', topics' = topics
      PROVE  Box!BoxNext \/ UNCHANGED Box!boxVars
  <2>1. PICK S \in SUBSET Subs : over' = over \cup S
    <3>1. over' = over \cup over' /\ over' \in SUBSET Subs
      BY <1>1
    <3> HIDE DEF over
    <3> QED
      BY <3>1
  <2>2. Box!EndStreams(S)
    BY <1>1, <2>1 DEF Box!EndStreams
  <2> QED
    BY <2>2 DEF Box!BoxNext
<1>2. ASSUME NEW s \in Subs, Reading(s)
      PROVE  Box!BoxNext \/ UNCHANGED Box!boxVars
  <2>1. CASE Take(s)
    <3>1. over' = over
      BY <2>1 DEF Take
    <3>2. topics' = [topics EXCEPT ![s] = {}]
      BY <2>1 DEF Take
    <3>3. CASE topics[s] = {}
      BY <3>1, <3>2, <3>3 DEF Box!boxVars
    <3>4. CASE topics[s] # {}
      BY <3>1, <3>2, <3>4 DEF Box!BoxNext, Box!Deliver
    <3> QED
      BY <3>3, <3>4
  <2>2. CASE ~Take(s)
    <3>1. over' = over /\ topics' = topics
      BY <1>2, <2>2 DEF Reading, Turning, CallNext, Woken, GiveUpWaiting, Finished, WindowOver,
         GiveUpGathering, PutBack, Drain
    <3> QED
      BY <3>1 DEF Box!boxVars
  <2> QED
    BY <2>1, <2>2
<1>3. ASSUME NEW s \in Subs, Add(s)
      PROVE  Box!BoxNext \/ UNCHANGED Box!boxVars
  <2>1. s \notin over /\ over' = over
    BY <1>3 DEF Add
  <2>2. topics' = [topics EXCEPT ![s] = @ \cup batch] /\ batch \in SUBSET Topics
    BY <1>3 DEF Add
  <2> QED
    BY <2>1, <2>2 DEF Box!BoxNext, Box!Post
<1>4. CASE Nudge \/ Sent \/ Close
  BY <1>1, <1>4 DEF Nudge, Sent, Close
<1>5. ASSUME NEW s \in Subs, Unsubscribe(s) \/ Finish(s)
      PROVE  Box!BoxNext \/ UNCHANGED Box!boxVars
  BY <1>1, <1>5 DEF Unsubscribe, Finish
<1>6. ASSUME NEW s \in Subs, NEW u \in Users, Subscribe(s, u)
      PROVE  Box!BoxNext \/ UNCHANGED Box!boxVars
  BY <1>1, <1>6 DEF Subscribe
<1>7. ASSUME NEW to \in Audiences, NEW T \in SUBSET Topics, Send(to, T)
      PROVE  Box!BoxNext \/ UNCHANGED Box!boxVars
  BY <1>1, <1>7 DEF Send
<1>8. CASE UNCHANGED hubVars
  BY <1>1, <1>8 DEF hubVars
<1> QED
  BY <1>2, <1>3, <1>4, <1>5, <1>6, <1>7, <1>8 DEF Next, Publishing

\* The hub implements a mailbox per stream, as far as safety goes: whatever
\* interleaving of publishers and readers, topics are neither dropped nor made
\* up, and nothing is posted to a stream that is over.
THEOREM HubImplementsMailbox == Spec => Box!BoxSafeSpec
<1>1. Init => Box!BoxInit
  BY DEF Init, Box!BoxInit
<1> QED
  BY <1>1, InitTypeOK, StepTypeOK, InitRegistered, StepRegistered, StepMailbox, PTL
  DEF Spec, Box!BoxSafeSpec

=============================================================================
