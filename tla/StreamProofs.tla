----------------------------- MODULE StreamProofs -----------------------------
(***************************************************************************)
(* What a window shows, in EventStream, for every number of windows,       *)
(* streams, topics and changes.                                            *)
(***************************************************************************)
EXTENDS EventStream, TLAPS

\* A query has at most one answer under way, none while it is to be asked again,
\* and an answer is of the screen's version or a later one.
QueryInv ==
  /\ truth \in [Topics -> Nat] /\ DOMAIN stale = Windows
  /\ answer \in [Windows -> [Topics -> SUBSET Nat]]
  /\ screen \in [Windows -> [Topics -> Nat]]
  /\ \A t \in Topics : 0 < truth[t]
  /\ \A w \in Windows, t \in Topics :
       /\ \A u, v \in answer[w][t] : u = v
       /\ t \in stale[w] => answer[w][t] = {}
       /\ \A v \in answer[w][t] : screen[w][t] <= v /\ v <= truth[t] /\ 0 < v
       /\ screen[w][t] <= truth[t]

LEMMA QueryInit == Init => QueryInv
  BY DEF Init, QueryInv

\* Whatever does not touch the queries leaves them as they are.
LEMMA Elsewhere ==
  ASSUME QueryInv, UNCHANGED <<queryVars, truth>>
  PROVE  QueryInv'
  BY DEF QueryInv, queryVars

LEMMA Invalidates ==
  ASSUME QueryInv, NEW w \in Windows, NEW T, Invalidate(w, T),
         UNCHANGED truth
  PROVE  QueryInv'
  BY DEF QueryInv, Invalidate

LEMMA ChangeQuery ==
  ASSUME QueryInv, NEW t \in Topics, Change(t)
  PROVE  QueryInv'
<1>1. /\ truth' = [truth EXCEPT ![t] = @ + 1] /\ UNCHANGED <<stale, answer, screen>>
  BY DEF Change, queryVars
<1>2. truth' \in [Topics -> Nat] /\ \A s \in Topics : truth[s] <= truth'[s]
  BY <1>1 DEF QueryInv
<1>3. \A w \in Windows, s \in Topics : screen[w][s] \in Nat /\ answer[w][s] \subseteq Nat
  BY DEF QueryInv
<1> QED BY <1>1, <1>2, <1>3 DEF QueryInv

LEMMA AskQuery ==
  ASSUME QueryInv, NEW w \in Windows, NEW t \in Topics, Ask(w, t)
  PROVE  QueryInv'
<1>1. /\ t \in stale[w] /\ stale' = [stale EXCEPT ![w] = @ \ {t}]
      /\ answer' = [answer EXCEPT ![w][t] = @ \cup {truth[t]}]
      /\ UNCHANGED <<truth, screen>>
  BY DEF Ask, serverVars
<1>2. answer[w][t] = {}
  BY <1>1 DEF QueryInv
<1>3. /\ answer'[w][t] = {truth[t]} /\ stale'[w] = stale[w] \ {t}
      /\ \A v \in Windows, s \in Topics :
           (v # w \/ s # t) => answer'[v][s] = answer[v][s]
      /\ \A v \in Windows : stale'[v] \subseteq stale[v]
  BY <1>1, <1>2 DEF QueryInv
<1>4. /\ answer' \in [Windows -> [Topics -> SUBSET Nat]]
      /\ DOMAIN stale' = Windows
  BY <1>1 DEF QueryInv
<1> QED BY <1>1, <1>3, <1>4 DEF QueryInv

LEMMA ShowQuery ==
  ASSUME QueryInv, NEW w \in Windows, NEW t \in Topics, Show(w, t)
  PROVE  /\ QueryInv'
         /\ \A v \in Windows, s \in Topics : screen'[v][s] >= screen[v][s]
<1>1. PICK n \in answer[w][t] :
        /\ screen' = [screen EXCEPT ![w][t] = n]
        /\ answer' = [answer EXCEPT ![w][t] = @ \ {n}]
  BY DEF Show
<1>2. UNCHANGED <<truth, stale>>
  BY DEF Show, serverVars
<1>3. n \in Nat /\ screen[w][t] <= n /\ n <= truth[t] /\ answer'[w][t] = {}
  BY <1>1 DEF QueryInv
<1>4. /\ screen'[w][t] = n
      /\ \A v \in Windows, s \in Topics :
           (v # w \/ s # t) => screen'[v][s] = screen[v][s] /\ answer'[v][s] = answer[v][s]
  BY <1>1 DEF QueryInv
<1>5. /\ answer' \in [Windows -> [Topics -> SUBSET Nat]]
      /\ screen' \in [Windows -> [Topics -> Nat]]
  BY <1>1, <1>3 DEF QueryInv
<1>6. QueryInv'
  <2>1. \A s \in Topics : 0 < truth'[s]
    BY <1>2 DEF QueryInv
  <2>2. ASSUME NEW v \in Windows, NEW s \in Topics
        PROVE  /\ \A u, z \in answer'[v][s] : u = z
               /\ s \in stale'[v] => answer'[v][s] = {}
               /\ \A z \in answer'[v][s] :
                    screen'[v][s] <= z /\ z <= truth'[s] /\ 0 < z
               /\ screen'[v][s] <= truth'[s]
    BY <1>2, <1>3, <1>4 DEF QueryInv
  <2> QED BY <1>2, <1>5, <2>1, <2>2 DEF QueryInv
<1>7. ASSUME NEW v \in Windows, NEW s \in Topics PROVE screen'[v][s] >= screen[v][s]
  <2>1. screen[v][s] \in Nat
    BY DEF QueryInv
  <2>2. CASE v = w /\ s = t
    BY <1>3, <1>4, <2>2
  <2>3. CASE ~(v = w /\ s = t)
    BY <1>4, <2>1, <2>3
  <2> QED BY <2>2, <2>3
<1> QED BY <1>6, <1>7
---------------------------------------------------------------------------
Forward == \A w \in Windows, t \in Topics : screen'[w][t] >= screen[w][t]

LEMMA QueryStep ==
  ASSUME QueryInv, [Next]_vars
  PROVE  QueryInv' /\ Forward
<1>1. ASSUME UNCHANGED screen PROVE Forward
  BY <1>1 DEF QueryInv, Forward
<1>2. ASSUME UNCHANGED <<queryVars, truth>> PROVE QueryInv' /\ Forward
  BY <1>1, <1>2, Elsewhere DEF queryVars
<1>3. ASSUME NEW w \in Windows, NEW T, Invalidate(w, T), UNCHANGED truth
      PROVE  QueryInv' /\ Forward
  BY <1>1, <1>3, Invalidates DEF Invalidate
<1>4. ASSUME NEW t \in Topics, Change(t) \/ Say(t) PROVE QueryInv' /\ Forward
  BY <1>1, <1>2, <1>4, ChangeQuery DEF Change, Say, queryVars
<1>5. CASE Pass
  BY <1>2, <1>5 DEF Pass, serverVars
<1>6. ASSUME NEW w \in Windows, NEW s \in Subs, Accept(w, s) PROVE QueryInv' /\ Forward
  BY <1>2, <1>6 DEF Accept, serverVars
<1>7. ASSUME NEW s \in Subs, Register(s) \/ ReadOn(s) \/ WriteTopics(s) \/ HandlerEnds(s)
      PROVE  QueryInv' /\ Forward
  BY <1>2, <1>7 DEF Register, ReadOn, WriteTopics, HandlerEnds, serverVars
<1>8. ASSUME NEW w \in Windows, Drop(w) PROVE QueryInv' /\ Forward
  BY <1>2, <1>8 DEF Drop, serverVars
<1>9. ASSUME NEW w \in Windows, Opened(w) PROVE QueryInv' /\ Forward
  BY <1>3, <1>9 DEF Opened, serverVars
<1>10. ASSUME NEW w \in Windows, Changed(w) PROVE QueryInv' /\ Forward
  BY <1>3, <1>10 DEF Changed, serverVars
<1>11. ASSUME NEW w \in Windows, NEW t \in Topics, Ask(w, t) \/ Show(w, t)
       PROVE  QueryInv' /\ Forward
  BY <1>1, <1>11, AskQuery, ShowQuery DEF Ask, Forward
<1>12. CASE UNCHANGED vars
  BY <1>2, <1>12 DEF vars, serverVars
<1> QED BY <1>4, <1>5, <1>6, <1>7, <1>8, <1>9, <1>10, <1>11, <1>12 DEF Next

\* A window never goes back to an older version, however many answers, changes,
\* dropped streams and reconnects cross.
THEOREM ScreenNeverGoesBack == Spec => NeverBackwards
<1>1. Spec => []QueryInv
  BY QueryInit, QueryStep, PTL DEF Spec
<1>2. QueryInv /\ [Next]_vars =>
        [\A w \in Windows, t \in Topics : screen'[w][t] >= screen[w][t]]_vars
  BY QueryStep DEF Forward
<1> QED BY <1>1, <1>2, PTL DEF Spec, NeverBackwards
---------------------------------------------------------------------------
(* The streams' side of the server is the hub, and nothing but the hub.    *)

LEMMA HubStep == [Next]_vars => [Hub!Next]_hubVars
<1> SUFFICES ASSUME [Next]_vars PROVE [Hub!Next]_hubVars
  OBVIOUS
<1>1. ASSUME UNCHANGED hubVars PROVE [Hub!Next]_hubVars
  BY <1>1
<1>2. ASSUME NEW t \in Topics, Change(t) \/ Say(t) PROVE [Hub!Next]_hubVars
  <2>1. CASE Change(t)
    BY <2>1, <1>1 DEF Change
  <2>2. CASE Say(t)
    BY <2>2 DEF Say, Hub!Next, Hub!Audiences
  <2> QED BY <1>2, <2>1, <2>2
<1>3. CASE Pass
  BY <1>3 DEF Pass, Hub!Next
<1>4. ASSUME NEW s \in Subs, Register(s) \/ ReadOn(s) \/ WriteTopics(s) \/ HandlerEnds(s)
      PROVE  [Hub!Next]_hubVars
  <2>1. CASE Register(s)
    BY <2>1 DEF Register, Hub!Next
  <2>2. CASE ReadOn(s) \/ WriteTopics(s)
    BY <2>2 DEF ReadOn, WriteTopics, Hub!Next, Hub!Reading
  <2>3. CASE HandlerEnds(s)
    BY <2>3 DEF HandlerEnds, Hub!Next
  <2> QED BY <1>4, <2>1, <2>2, <2>3
<1>5. CASE \/ \E w \in Windows, s \in Subs : Accept(w, s)
           \/ \E w \in Windows : Drop(w) \/ Opened(w) \/ Changed(w)
           \/ \E w \in Windows, t \in Topics : Ask(w, t) \/ Show(w, t)
  BY <1>1, <1>5 DEF Accept, Drop, Opened, Changed, Ask, Show
<1>6. CASE UNCHANGED vars
  BY <1>1, <1>6 DEF vars
<1> QED BY <1>2, <1>3, <1>4, <1>5, <1>6 DEF Next

\* Whatever the handlers and the windows do, what they do to the hub is what the
\* hub allows: everything shown of EventsHub alone holds of it here.
THEOREM StreamRunsTheHub == Spec => Hub!Spec
<1>1. Init => Hub!Init
  BY DEF Init
<1>2. [Next]_vars => [Hub!Next]_(Hub!hubVars)
  <2>1. UNCHANGED hubVars => UNCHANGED Hub!hubVars
    BY DEF hubVars, Hub!hubVars
  <2> QED BY HubStep, <2>1
<1> QED BY <1>1, <1>2, PTL DEF Spec, Hub!Spec

-----------------------------------------------------------------------------
(* What HubProofs shows of the hub alone, said of the hub the streams run. *)

HubP == INSTANCE HubProofs

LEMMA SameInit == Hub!Init => HubP!Init
  BY DEF Hub!Init, HubP!Init

LEMMA SameNext == [Hub!Next]_hubVars => [HubP!Next]_(HubP!hubVars)
<1> SUFFICES ASSUME [Hub!Next]_hubVars PROVE [HubP!Next]_(HubP!hubVars)
  OBVIOUS
<1> USE DEF Hub!lifeVars, Hub!sendVars, Hub!Goto, Hub!Unlocked,
            HubP!lifeVars, HubP!sendVars, HubP!Goto, HubP!Unlocked
<1>1. ASSUME NEW s \in Subs, Hub!Reading(s) PROVE HubP!Reading(s)
  BY <1>1 DEF Hub!Reading, Hub!Turning, Hub!CallNext, Hub!Woken, Hub!GiveUpWaiting,
     Hub!Finished, Hub!WindowOver, Hub!GiveUpGathering, Hub!PutBack, Hub!Drain, Hub!Take,
     HubP!Reading, HubP!Turning, HubP!CallNext, HubP!Woken, HubP!GiveUpWaiting,
     HubP!Finished, HubP!WindowOver, HubP!GiveUpGathering, HubP!PutBack, HubP!Drain,
     HubP!Take
<1>2. ASSUME NEW s \in Subs, Hub!Unsubscribe(s) \/ Hub!Finish(s)
      PROVE  HubP!Unsubscribe(s) \/ HubP!Finish(s)
  BY <1>2 DEF Hub!Unsubscribe, Hub!Finish, HubP!Unsubscribe, HubP!Finish
<1>3. ASSUME NEW s \in Subs, NEW u \in Users, Hub!Subscribe(s, u)
      PROVE  HubP!Subscribe(s, u)
  BY <1>3 DEF Hub!Subscribe, HubP!Subscribe
<1>4. ASSUME NEW to \in Hub!Audiences, NEW T \in SUBSET Topics, Hub!Send(to, T)
      PROVE  to \in HubP!Audiences /\ HubP!Send(to, T)
  BY <1>4 DEF Hub!Send, HubP!Send, Hub!Audiences, HubP!Audiences
<1>5. CASE Hub!Publishing
  BY <1>5 DEF Hub!Publishing, Hub!Add, Hub!Nudge, Hub!Sent,
     HubP!Publishing, HubP!Add, HubP!Nudge, HubP!Sent, HubP!Next
<1>6. CASE Hub!Close
  BY <1>6 DEF Hub!Close, HubP!Close, HubP!Next
<1>7. CASE UNCHANGED hubVars
  BY <1>7 DEF hubVars, HubP!hubVars
<1> QED
  BY <1>1, <1>2, <1>3, <1>4, <1>5, <1>6, <1>7 DEF Hub!Next, HubP!Next

LEMMA HubHypothesis == HubP!HubAssumption
  BY StreamAssumption DEF HubP!HubAssumption

LEMMA RunsProvenHub == Spec => HubP!Spec
<1>1. Init => HubP!Init
  BY SameInit DEF Init
<1>2. [Next]_vars => [HubP!Next]_(HubP!hubVars)
  BY HubStep, SameNext
<1> QED BY <1>1, <1>2, PTL DEF Spec, HubP!Spec

\* However windows reload, connections break and handlers end, the hub under them
\* still loses no wake-up, and Close would still reach every stream.
THEOREM StreamsStrandNothing == Spec => []Hub!NoTopicStranded /\ []Hub!ClosedReachesAll
<1>1. HubP!Spec => []HubP!NoTopicStranded /\ []HubP!ClosedReachesAll
  BY HubHypothesis, HubP!NoLostWakeUp, HubP!CloseIsTotal
<1>2. HubP!NoTopicStranded => Hub!NoTopicStranded
  BY DEF HubP!NoTopicStranded, Hub!NoTopicStranded, HubP!Gathering, Hub!Gathering
<1>3. HubP!ClosedReachesAll => Hub!ClosedReachesAll
  BY DEF HubP!ClosedReachesAll, Hub!ClosedReachesAll
<1> QED BY RunsProvenHub, <1>1, <1>2, <1>3, PTL

\* And each window's stream is a mailbox: what is published to it leaves once, whole,
\* and nothing else ever does.
THEOREM StreamsAreMailboxes == Spec => Hub!Box!BoxSafeSpec
<1>1. HubP!Spec => HubP!Box!BoxSafeSpec
  BY HubHypothesis, HubP!HubImplementsMailbox
<1>2. HubP!Box!BoxInit => Hub!Box!BoxInit
  BY DEF HubP!Box!BoxInit, Hub!Box!BoxInit
<1>3. [HubP!Box!BoxNext]_(HubP!Box!boxVars) => [Hub!Box!BoxNext]_(Hub!Box!boxVars)
  BY DEF HubP!Box!BoxNext, HubP!Box!Post, HubP!Box!Deliver, HubP!Box!EndStreams,
     HubP!Box!boxVars, Hub!Box!BoxNext, Hub!Box!Post, Hub!Box!Deliver,
     Hub!Box!EndStreams, Hub!Box!boxVars
<1> QED
  BY RunsProvenHub, <1>1, <1>2, <1>3, PTL DEF HubP!Box!BoxSafeSpec, Hub!Box!BoxSafeSpec

\* The hub's variables keep their types under any step of the hub.
LEMMA HubStepTyped == ASSUME Hub!TypeOK, [Hub!Next]_hubVars PROVE Hub!TypeOK'
<1>1. HubP!TypeOK
  BY DEF Hub!TypeOK, HubP!TypeOK, Hub!Readers, HubP!Readers
<1>2. HubP!TypeOK'
  BY <1>1, SameNext, HubHypothesis, HubP!StepTypeOK
<1> QED BY <1>2 DEF Hub!TypeOK, HubP!TypeOK, Hub!Readers, HubP!Readers

\* A window's stream is one of the streams, and what is on a wire is on the wire of
\* somebody's stream.
StreamTyped ==
  /\ unsaid \subseteq Topics
  /\ link \in [Windows -> Subs \cup {NoSub}]
  /\ greeting \subseteq Windows
  /\ opened \subseteq Windows
  /\ wire \in [Subs -> SUBSET Topics]
  /\ \A s \in Subs \ Linked : wire[s] = {}

\* Queries are of topics, and carry versions there are.
ScreenTyped ==
  /\ truth \in [Topics -> Versions]
  /\ stale \in [Windows -> SUBSET Topics]
  /\ answer \in [Windows -> [Topics -> SUBSET Versions]]
  /\ screen \in [Windows -> [Topics -> Versions]]

LEMMA StreamStepTyped ==
  ASSUME Hub!TypeOK, StreamTyped, [Next]_vars PROVE StreamTyped'
<1> USE DEF StreamTyped
<1>1. ASSUME UNCHANGED <<unsaid, streamVars>> PROVE StreamTyped'
  BY <1>1 DEF streamVars, Linked
<1>2. ASSUME NEW t \in Topics, Change(t) \/ Say(t) PROVE StreamTyped'
  BY <1>2 DEF Change, Say, streamVars, Linked
<1>3. ASSUME NEW w \in Windows, NEW s \in Subs, Accept(w, s) PROVE StreamTyped'
  <2>1. /\ link[w] = NoSub /\ link' = [link EXCEPT ![w] = s]
        /\ greeting' = greeting \cup {w} /\ UNCHANGED <<unsaid, opened, wire>>
    BY <1>3 DEF Accept, serverVars
  <2>2. link' \in [Windows -> Subs \cup {NoSub}] /\ greeting' \subseteq Windows
    BY <2>1
  <2>3. ASSUME NEW r \in Subs, r \in Linked, r # NoSub PROVE r \in Linked'
    BY <2>1, <2>3 DEF Linked
  <2>4. CASE NoSub \notin Subs
    BY <2>1, <2>2, <2>3, <2>4
  <2> QED BY <2>4, StreamAssumption
<1>4. ASSUME NEW s \in Subs, WriteTopics(s) PROVE StreamTyped'
  <2>1. /\ wire' = [wire EXCEPT ![s] = IF s \in Linked THEN @ \cup topics[s] ELSE {}]
        /\ UNCHANGED <<unsaid, link, greeting, opened>> /\ topics[s] \subseteq Topics
    BY <1>4 DEF WriteTopics, serverVars, Hub!TypeOK
  <2>2. Linked' = Linked
    BY <2>1 DEF Linked
  <2> QED BY <2>1, <2>2
<1>5. ASSUME NEW w \in Windows, Drop(w) PROVE StreamTyped'
  <2>1. /\ link[w] # NoSub /\ link' = [link EXCEPT ![w] = NoSub]
        /\ wire' = [wire EXCEPT ![link[w]] = {}]
        /\ greeting' = greeting \ {w} /\ UNCHANGED <<unsaid, opened>>
    BY <1>5 DEF Drop, serverVars
  <2>2. link' \in [Windows -> Subs \cup {NoSub}] /\ wire' \in [Subs -> SUBSET Topics]
        /\ link[w] \in Subs
    BY <2>1
  <2>3. ASSUME NEW r \in Subs, r \in Linked, r # link[w] PROVE r \in Linked'
    BY <2>1, <2>3 DEF Linked
  <2> QED BY <2>1, <2>2, <2>3
<1>6. ASSUME NEW w \in Windows, Opened(w) \/ Changed(w) PROVE StreamTyped'
  <2>1. /\ UNCHANGED <<unsaid, link>> /\ greeting' \subseteq greeting
        /\ opened' \subseteq opened \cup {w}
        /\ wire' = wire \/ (link[w] # NoSub /\ wire' = [wire EXCEPT ![link[w]] = {}])
    BY <1>6 DEF Opened, Changed, serverVars
  <2>2. Linked' = Linked
    BY <2>1 DEF Linked
  <2> QED BY <2>1, <2>2
<1>7. CASE Pass \/ \E s \in Subs : Register(s) \/ ReadOn(s) \/ HandlerEnds(s)
  BY <1>1, <1>7 DEF Pass, Register, ReadOn, HandlerEnds, serverVars
<1>8. ASSUME NEW w \in Windows, NEW t \in Topics, Ask(w, t) \/ Show(w, t) PROVE StreamTyped'
  BY <1>1, <1>8 DEF Ask, Show, serverVars
<1>9. CASE UNCHANGED vars
  BY <1>1, <1>9 DEF vars, serverVars
<1> QED BY <1>2, <1>3, <1>4, <1>5, <1>6, <1>7, <1>8, <1>9 DEF Next

LEMMA ScreenStepTyped ==
  ASSUME StreamTyped, ScreenTyped, [Next]_vars PROVE ScreenTyped'
<1> USE DEF ScreenTyped
<1>1. ASSUME UNCHANGED <<truth, queryVars>> PROVE ScreenTyped'
  BY <1>1 DEF queryVars
<1>2. ASSUME NEW t \in Topics, Change(t) PROVE ScreenTyped'
  <2>1. truth[t] \in Versions /\ truth[t] <= MaxChanges
        /\ truth' = [truth EXCEPT ![t] = @ + 1] /\ UNCHANGED queryVars
    BY <1>2 DEF Change
  <2>2. truth[t] + 1 \in Versions
    BY <2>1, StreamAssumption DEF Versions
  <2> QED BY <2>1, <2>2 DEF queryVars
<1>3. ASSUME NEW t \in Topics, Say(t) PROVE ScreenTyped'
  BY <1>1, <1>3 DEF Say
<1>4. ASSUME NEW w \in Windows, NEW T \in SUBSET Topics, Invalidate(w, T), UNCHANGED truth
      PROVE  ScreenTyped'
  BY <1>4 DEF Invalidate
<1>5. ASSUME NEW w \in Windows, Opened(w) PROVE ScreenTyped'
  BY <1>4, <1>5 DEF Opened, serverVars
<1>6. ASSUME NEW w \in Windows, Changed(w) PROVE ScreenTyped'
  <2>1. wire[link[w]] \in SUBSET Topics
    BY <1>6 DEF Changed, StreamTyped
  <2> QED BY <1>4, <1>6, <2>1 DEF Changed, serverVars
<1>7. ASSUME NEW w \in Windows, NEW t \in Topics, Ask(w, t) PROVE ScreenTyped'
  BY <1>7 DEF Ask, serverVars
<1>8. ASSUME NEW w \in Windows, NEW t \in Topics, Show(w, t) PROVE ScreenTyped'
  BY <1>8 DEF Show, serverVars
<1>9. CASE \/ Pass \/ \E w \in Windows, s \in Subs : Accept(w, s)
           \/ \E s \in Subs : Register(s) \/ ReadOn(s) \/ WriteTopics(s) \/ HandlerEnds(s)
           \/ \E w \in Windows : Drop(w)
  BY <1>1, <1>9 DEF Pass, Accept, Register, ReadOn, WriteTopics, HandlerEnds, Drop, serverVars
<1>10. CASE UNCHANGED vars
  BY <1>1, <1>10 DEF vars, serverVars
<1> QED BY <1>2, <1>3, <1>5, <1>6, <1>7, <1>8, <1>9, <1>10 DEF Next

\* The variables keep their types, and nothing is under way to a window on a
\* connection it no longer has.
THEOREM StreamTypeCorrect == Spec => []TypeOK
<1> DEFINE Typed == Hub!TypeOK /\ StreamTyped /\ ScreenTyped
<1>1. Init => Typed
  <2> SUFFICES ASSUME Init PROVE Typed
    OBVIOUS
  <2>1. Hub!TypeOK
    BY DEF Init, Hub!Init, Hub!TypeOK, Hub!Readers
  <2>2. StreamTyped
    BY DEF Init, StreamTyped
  <2>3. 0 \in Versions /\ 1 \in Versions
    BY StreamAssumption DEF Versions
  <2>4. ScreenTyped
    BY <2>3 DEF Init, ScreenTyped
  <2> QED BY <2>1, <2>2, <2>4
<1>2. Typed /\ [Next]_vars => Typed'
  BY HubStep, HubStepTyped, StreamStepTyped, ScreenStepTyped
<1>3. Typed => TypeOK
  BY DEF TypeOK, StreamTyped, ScreenTyped
<1> HIDE DEF Typed
<1> QED BY <1>1, <1>2, <1>3, PTL DEF Spec
-----------------------------------------------------------------------------
(* Between the server and the screen a change is not forgotten, if the     *)
(* query it is about has data or its first fetch has yet to be asked.      *)

\* The event that t changed is on its way over stream s: yet to be published, in the
\* publisher's hands, in the stream's topics or on the wire.
EventOnItsWay(s, t) ==
  t \in unsaid \/ (t \in batch /\ s \in todo) \/ t \in topics[s] \/ t \in wire[s]

\* Version v of t, or a later one, is on window w's screen or on its way there: its
\* event comes, to a query that will heed it, or the query is to be asked or has the
\* answer under way. An event that meets a first fetch does not count: it is ignored.
OnItsWay(w, s, t, v) ==
  /\ link[w] = s /\ s \in subs /\ v <= truth[t]
  /\ \/ EventOnItsWay(s, t) /\ ~FirstFetch(w, t)
     \/ t \in stale[w]
     \/ \E n \in answer[w][t] : v <= n
     \/ v <= screen[w][t]

\* Once on its way a change stays on its way until its stream breaks: the safety
\* half of ChangeReachesScreen.
NeverForgotten ==
  [][\A w \in Windows, s \in Subs, t \in Topics, v \in Versions :
       OnItsWay(w, s, t, v) => OnItsWay(w, s, t, v)' \/ link'[w] # s]_vars

\* No two windows share a stream.
OneWindowEach ==
  \A w, x \in Windows : link[w] = link[x] /\ link[w] # NoSub => w = x

LEMMA StepOneWindowEach ==
  ASSUME StreamTyped, OneWindowEach, [Next]_vars PROVE OneWindowEach'
<1> USE DEF OneWindowEach
<1>1. ASSUME UNCHANGED link PROVE OneWindowEach'
  BY <1>1
<1>2. ASSUME NEW w \in Windows, NEW s \in Subs, Accept(w, s) PROVE OneWindowEach'
  BY <1>2 DEF Accept, Linked, StreamTyped
<1>3. ASSUME NEW w \in Windows, Drop(w) PROVE OneWindowEach'
  BY <1>3 DEF Drop, StreamTyped
<1>4. CASE \/ \E t \in Topics : Change(t) \/ Say(t)
           \/ Pass
           \/ \E s \in Subs : Register(s) \/ ReadOn(s) \/ WriteTopics(s) \/ HandlerEnds(s)
           \/ \E w \in Windows : Opened(w) \/ Changed(w)
           \/ \E w \in Windows, t \in Topics : Ask(w, t) \/ Show(w, t)
  BY <1>1, <1>4 DEF Change, Say, Pass, Register, ReadOn, WriteTopics, HandlerEnds,
     Opened, Changed, Ask, Show, streamVars
<1>5. CASE UNCHANGED vars
  BY <1>1, <1>5 DEF vars, streamVars
<1> QED BY <1>2, <1>3, <1>4, <1>5 DEF Next

\* What the step of a change on its way rests on.
WayInv ==
  /\ QueryInv /\ StreamTyped /\ OneWindowEach
  /\ HubP!TypeOK /\ HubP!Registered

\* The server's steps: a change published is handed to every stream on the hub, and
\* the publisher drops nothing it has yet to hand over.
LEMMA ServerKeeps ==
  ASSUME WayInv, NEW w \in Windows, NEW s \in Subs, NEW t \in Topics, NEW v \in Nat,
         OnItsWay(w, s, t, v),
         (\E x \in Topics : Change(x) \/ Say(x)) \/ Pass
  PROVE  OnItsWay(w, s, t, v)'
<1> USE DEF WayInv, OnItsWay, EventOnItsWay, FirstFetch, streamVars, queryVars, hubVars, serverVars
<1>1. ASSUME NEW x \in Topics, Change(x) PROVE OnItsWay(w, s, t, v)'
  <2>1. truth'[t] \in Nat /\ truth[t] \in Nat /\ truth[t] <= truth'[t]
    BY <1>1 DEF Change, QueryInv
  <2> QED BY <1>1, <2>1 DEF Change
<1>2. ASSUME NEW x \in Topics, Say(x) PROVE OnItsWay(w, s, t, v)'
  <2>1. user[s] \in Users /\ batch = {}
    BY <1>2 DEF HubP!TypeOK, HubP!Registered, Say, Hub!Send, Hub!Unlocked
  <2> QED BY <1>2, <2>1 DEF Say, Hub!Send, Hub!lifeVars
<1>3. ASSUME NEW x \in Subs, Hub!Add(x), Pass PROVE OnItsWay(w, s, t, v)'
  BY <1>3 DEF Pass, Hub!Add, Hub!lifeVars, HubP!TypeOK
<1>4. CASE Pass /\ (Hub!Nudge \/ Hub!Sent)
  BY <1>4 DEF Pass, Hub!Nudge, Hub!Sent, Hub!lifeVars
<1> QED BY <1>1, <1>2, <1>3, <1>4 DEF Pass, Hub!Publishing

\* The stream's steps: what the reader takes it writes, and only a break takes a
\* window's stream off the hub or empties its wire unread.
LEMMA StreamKeeps ==
  ASSUME WayInv, NEW w \in Windows, NEW s \in Subs, NEW t \in Topics, NEW v \in Nat,
         OnItsWay(w, s, t, v), link'[w] = s,
         \/ \E x \in Windows, y \in Subs : Accept(x, y)
         \/ \E y \in Subs : Register(y) \/ ReadOn(y) \/ WriteTopics(y) \/ HandlerEnds(y)
         \/ \E x \in Windows : Drop(x)
  PROVE  OnItsWay(w, s, t, v)'
<1> USE DEF WayInv, OnItsWay, EventOnItsWay, FirstFetch, queryVars, serverVars
<1>1. ASSUME NEW x \in Windows, NEW y \in Subs, Accept(x, y) PROVE OnItsWay(w, s, t, v)'
  BY <1>1 DEF Accept, hubVars
<1>2. ASSUME NEW y \in Subs, Register(y) PROVE OnItsWay(w, s, t, v)'
  BY <1>2 DEF Register, Hub!Subscribe, Hub!sendVars, streamVars
<1>3. ASSUME NEW y \in Subs, ReadOn(y) PROVE OnItsWay(w, s, t, v)'
  BY <1>3 DEF ReadOn, streamVars, Hub!Turning, Hub!CallNext, Hub!Woken, Hub!GiveUpWaiting,
     Hub!Finished, Hub!WindowOver, Hub!GiveUpGathering, Hub!PutBack, Hub!Drain,
     Hub!lifeVars, Hub!sendVars
<1>4. ASSUME NEW y \in Subs, WriteTopics(y) PROVE OnItsWay(w, s, t, v)'
  <2>1. s \in Linked
    BY DEF Linked
  <2> QED BY <1>4, <2>1 DEF WriteTopics, Hub!Take, Hub!lifeVars, Hub!sendVars,
     HubP!TypeOK, StreamTyped
<1>5. ASSUME NEW y \in Subs, HandlerEnds(y) PROVE OnItsWay(w, s, t, v)'
  <2>1. s \in Linked
    BY DEF Linked
  <2> QED BY <1>5, <2>1 DEF HandlerEnds, Hub!Unsubscribe, Hub!sendVars, streamVars
<1>6. ASSUME NEW x \in Windows, Drop(x) PROVE OnItsWay(w, s, t, v)'
  <2>1. s # NoSub
    BY StreamAssumption
  <2>2. x # w
    BY <1>6, <2>1 DEF Drop, StreamTyped
  <2>3. wire'[s] = wire[s]
    BY <1>6, <2>1, <2>2 DEF Drop, StreamTyped, OneWindowEach
  <2> QED BY <1>6, <2>3 DEF Drop, hubVars
<1> QED BY <1>1, <1>2, <1>3, <1>4, <1>5, <1>6

\* The window's steps: what it hears it asks again, and what it asks is answered with
\* the server's version or a later one.
LEMMA WindowKeeps ==
  ASSUME WayInv, NEW w \in Windows, NEW s \in Subs, NEW t \in Topics, NEW v \in Nat,
         OnItsWay(w, s, t, v),
         \/ \E x \in Windows : Opened(x) \/ Changed(x)
         \/ \E x \in Windows, y \in Topics : Ask(x, y) \/ Show(x, y)
  PROVE  OnItsWay(w, s, t, v)'
<1> USE DEF OnItsWay, EventOnItsWay, FirstFetch, hubVars, serverVars
<1>1. ASSUME NEW x \in Windows, NEW T \in SUBSET Topics, Invalidate(x, T)
      PROVE  \/ t \in stale'[w]
             \/ /\ t \notin stale[w] \/ t \in stale'[w]
                /\ answer'[w][t] = answer[w][t] /\ screen'[w][t] = screen[w][t]
  BY <1>1 DEF Invalidate, QueryInv, WayInv
<1>2. ASSUME NEW x \in Windows, Opened(x) PROVE OnItsWay(w, s, t, v)'
  <2>1. UNCHANGED <<hubVars, serverVars, link, wire>>
    BY <1>2 DEF Opened
  <2>2. PICK T \in SUBSET Topics : Invalidate(x, T)
    BY <1>2 DEF Opened
  <2> QED BY <1>1, <2>1, <2>2
<1>3. ASSUME NEW x \in Windows, Changed(x) PROVE OnItsWay(w, s, t, v)'
  <2>1. /\ UNCHANGED <<hubVars, serverVars, link>>
        /\ wire' = [wire EXCEPT ![link[x]] = {}]
        /\ link[x] \in Subs /\ wire[link[x]] \in SUBSET Topics
        /\ Invalidate(x, wire[link[x]])
    BY <1>3 DEF Changed, StreamTyped, WayInv
  <2>2. CASE link[x] = s
    <3>1. x = w
      BY <1>3, <2>2 DEF Changed, OneWindowEach, WayInv
    <3>2. t \in wire[s] /\ ~FirstFetch(w, t) => t \in stale'[w]
      BY <2>1, <2>2, <3>1 DEF Invalidate, QueryInv, WayInv
    <3>3. t \notin wire[s] => t \notin wire'[s]
      BY <2>1 DEF StreamTyped, WayInv
    <3> QED BY <1>1, <2>1, <3>2, <3>3
  <2>3. CASE link[x] # s
    <3>1. wire'[s] = wire[s]
      BY <2>1, <2>3 DEF StreamTyped, WayInv
    <3> QED BY <1>1, <2>1, <3>1
  <2> QED BY <2>2, <2>3
<1>4. ASSUME NEW x \in Windows, NEW y \in Topics, Ask(x, y) PROVE OnItsWay(w, s, t, v)'
  <2>1. UNCHANGED <<hubVars, serverVars, streamVars, screen>>
    BY <1>4 DEF Ask
  <2>2. /\ answer[w][t] \subseteq answer'[w][t]
        /\ t \in stale[w] => t \in stale'[w] \/ truth[t] \in answer'[w][t]
    BY <1>4 DEF Ask, QueryInv, WayInv
  <2>3. FirstFetch(w, t)' => FirstFetch(w, t) \/ t \in stale[w]
    BY <1>4 DEF Ask, QueryInv, WayInv
  <2> QED BY <2>1, <2>2, <2>3 DEF streamVars
<1>5. ASSUME NEW x \in Windows, NEW y \in Topics, Show(x, y) PROVE OnItsWay(w, s, t, v)'
  <2>1. UNCHANGED <<hubVars, serverVars, streamVars, stale>>
    BY <1>5 DEF Show
  <2>2. PICK n \in answer[x][y] :
          /\ screen' = [screen EXCEPT ![x][y] = n]
          /\ answer' = [answer EXCEPT ![x][y] = @ \ {n}]
    BY <1>5 DEF Show
  <2>3. CASE x = w /\ y = t
    <3>1. /\ screen'[w][t] = n /\ answer[w][t] = {n}
          /\ n \in Nat /\ screen[w][t] \in Nat /\ screen[w][t] <= n /\ 0 < n
      BY <2>2, <2>3 DEF QueryInv, WayInv
    <3>2. (\E m \in answer[w][t] : v <= m) \/ v <= screen[w][t] => v <= screen'[w][t]
      BY <3>1
    <3>3. ~FirstFetch(w, t)'
      BY <3>1
    <3>4. CASE EventOnItsWay(s, t) /\ ~FirstFetch(w, t)
      BY <2>1, <3>3, <3>4 DEF streamVars
    <3>5. CASE ~(EventOnItsWay(s, t) /\ ~FirstFetch(w, t))
      BY <2>1, <3>2, <3>5 DEF streamVars
    <3> QED BY <3>4, <3>5
  <2>4. CASE ~(x = w /\ y = t)
    <3>1. screen'[w][t] = screen[w][t] /\ answer'[w][t] = answer[w][t]
      BY <2>2, <2>4 DEF QueryInv, WayInv
    <3> QED BY <2>1, <3>1 DEF streamVars
  <2> QED BY <2>3, <2>4
<1> QED BY <1>2, <1>3, <1>4, <1>5

LEMMA WayInvHolds == Spec => []WayInv
<1>1. Init => WayInv
  <2> SUFFICES ASSUME Init PROVE WayInv
    OBVIOUS
  <2>1. StreamTyped /\ OneWindowEach
    BY DEF Init, StreamTyped, OneWindowEach
  <2>2. HubP!TypeOK /\ HubP!Registered
    BY SameInit, HubHypothesis, HubP!InitTypeOK, HubP!InitRegistered DEF Init
  <2> QED BY <2>1, <2>2, QueryInit DEF WayInv
<1>2. WayInv /\ [Next]_vars => WayInv'
  <2> SUFFICES ASSUME WayInv, [Next]_vars PROVE WayInv'
    OBVIOUS
  <2> USE DEF WayInv
  <2>1. Hub!TypeOK
    BY DEF Hub!TypeOK, HubP!TypeOK, Hub!Readers, HubP!Readers
  <2>2. QueryInv' /\ StreamTyped' /\ OneWindowEach'
    BY <2>1, QueryStep, StreamStepTyped, StepOneWindowEach
  <2>3. HubP!TypeOK' /\ HubP!Registered'
    BY HubStep, SameNext, HubHypothesis, HubP!StepTypeOK, HubP!StepRegistered
  <2> QED BY <2>2, <2>3
<1> QED BY <1>1, <1>2, PTL DEF Spec

\* A change that the publisher, the hub, the handler or the window has in hand is
\* put down by none of them: unless its stream breaks it stays on its way until the
\* window shows it, whatever else changes, reconnects or is asked meanwhile. Only the
\* event of a query whose first fetch is under way is not counted on: it is ignored.
THEOREM ChangesNeverForgotten == Spec => NeverForgotten
<1> DEFINE Kept == \A w \in Windows, s \in Subs, t \in Topics, v \in Versions :
                     OnItsWay(w, s, t, v) => OnItsWay(w, s, t, v)' \/ link'[w] # s
<1>1. WayInv /\ [Next]_vars => [Kept]_vars
  <2> SUFFICES ASSUME WayInv, Next,
                      NEW w \in Windows, NEW s \in Subs, NEW t \in Topics, NEW v \in Nat,
                      OnItsWay(w, s, t, v), link'[w] = s
               PROVE  OnItsWay(w, s, t, v)'
    BY StreamAssumption DEF Versions
  <2> QED BY ServerKeeps, StreamKeeps, WindowKeeps DEF Next
<1> QED BY <1>1, WayInvHolds, PTL DEF Spec, NeverForgotten
=============================================================================
