----------------------------- MODULE EventStream -----------------------------
(***************************************************************************)
(* From a change on the server to the screen that shows it: whoever        *)
(* changes state publishes a topic, the stream handler writes it to its    *)
(* window, and the window asks again. (internal/api/events.go over         *)
(* internal/events, and web/src/api/serverEvents.ts.)                      *)
(*                                                                         *)
(* One account, and one query a topic; the hub is EventsHub, step by step. *)
(* The server stays up: a stream breaks by its connection breaking.        *)
(***************************************************************************)
EXTENDS Naturals

CONSTANTS
  Windows,    \* open windows of the app
  Subs,       \* streams, each used at most once: a bound on reconnects
  Users, Topics, NoSub,
  MaxChanges  \* bounds how often one topic's state changes

ASSUME StreamAssumption == MaxChanges \in Nat /\ NoSub \notin Subs \cup Users

VARIABLES
  closed, subs, user, topics, nudged, done, reader, batch, todo, at, finishing,
  truth,    \* per topic: the version the server holds
  unsaid,   \* topics changed and not yet published
  link,     \* per window: its stream, once the answer's head has been sent
  greeting, \* windows whose onopen has yet to run
  opened,   \* windows whose stream has opened before
  wire,     \* per stream: topics on their way to the window
  stale,    \* per window: invalidated queries not yet asked again
  answer,   \* per window and topic: the versions answers under way carry
  screen    \* per window and topic: the version shown, 0 until there is one

Hub == INSTANCE EventsHub

hubVars == <<closed, subs, user, topics, nudged, done, reader, batch, todo, at, finishing>>
serverVars == <<truth, unsaid>>
streamVars == <<link, greeting, opened, wire>>
queryVars == <<stale, answer, screen>>
vars == <<hubVars, serverVars, streamVars, queryVars>>

Versions == 0..(MaxChanges + 1)
Linked == {link[w] : w \in Windows}

TypeOK ==
  /\ Hub!TypeOK
  /\ truth \in [Topics -> Versions]
  /\ unsaid \subseteq Topics
  /\ link \in [Windows -> Subs \cup {NoSub}]
  /\ greeting \subseteq Windows
  /\ opened \subseteq Windows
  /\ wire \in [Subs -> SUBSET Topics]
  /\ stale \in [Windows -> SUBSET Topics]
  /\ answer \in [Windows -> [Topics -> SUBSET Versions]]
  /\ screen \in [Windows -> [Topics -> Versions]]
  /\ \A s \in Subs \ Linked : wire[s] = {}

\* The app mounts: its queries ask for the first time and its stream opens.
Init ==
  /\ Hub!Init
  /\ truth = [t \in Topics |-> 1] /\ unsaid = {}
  /\ link = [w \in Windows |-> NoSub]
  /\ greeting = {} /\ opened = {}
  /\ wire = [s \in Subs |-> {}]
  /\ stale = [w \in Windows |-> Topics]
  /\ answer = [w \in Windows |-> [t \in Topics |-> {}]]
  /\ screen = [w \in Windows |-> [t \in Topics |-> 0]]

-----------------------------------------------------------------------------
(* The server.                                                             *)

\* State changes where it is stored, and is published after.
Change(t) ==
  /\ truth[t] <= MaxChanges
  /\ truth' = [truth EXCEPT ![t] = @ + 1]
  /\ unsaid' = unsaid \cup {t}
  /\ UNCHANGED <<hubVars, streamVars, queryVars>>

Say(t) ==
  /\ t \in unsaid
  /\ Hub!Send(Users, {t})
  /\ unsaid' = unsaid \ {t}
  /\ UNCHANGED <<truth, streamVars, queryVars>>

Pass == Hub!Publishing /\ UNCHANGED <<serverVars, streamVars, queryVars>>

\* eventStream: the head and ": connected" are flushed before the handler
\* subscribes.
Accept(w, s) ==
  /\ link[w] = NoSub
  /\ reader[s] = "new" /\ s \notin Linked
  /\ link' = [link EXCEPT ![w] = s]
  /\ greeting' = greeting \cup {w}
  /\ UNCHANGED <<hubVars, serverVars, opened, wire, queryVars>>

Register(s) ==
  /\ s \in Linked
  /\ \E u \in Users : Hub!Subscribe(s, u)
  /\ UNCHANGED <<serverVars, streamVars, queryVars>>

\* A step of Next other than the one that returns topics.
ReadOn(s) ==
  /\ Hub!Turning(s)
  /\ UNCHANGED <<serverVars, streamVars, queryVars>>

\* Next returns, and what it returned is written and flushed.
WriteTopics(s) ==
  /\ Hub!Take(s)
  /\ wire' = [wire EXCEPT ![s] = IF s \in Linked THEN @ \cup topics[s] ELSE {}]
  /\ UNCHANGED <<serverVars, link, greeting, opened, queryVars>>

\* The handler notices that its client has gone.
HandlerEnds(s) ==
  /\ s \notin Linked
  /\ Hub!Unsubscribe(s)
  /\ UNCHANGED <<serverVars, streamVars, queryVars>>

\* Mutant: what was on the broken connection arrives after all.
DropLate(w) ==
  /\ link[w] # NoSub
  /\ \E s \in Subs : reader[s] = "new" /\ s \notin Linked
  /\ reader[link[w]] # "new"
  /\ link' = [link EXCEPT ![w] = NoSub]
  /\ greeting' = greeting \ {w}
  /\ UNCHANGED <<hubVars, serverVars, opened, wire, queryVars>>

\* The connection breaks, with what was on it. Bounded: one stream is left to
\* reconnect with.
Drop(w) ==
  /\ link[w] # NoSub
  /\ \E s \in Subs : reader[s] = "new" /\ s \notin Linked
  /\ reader[link[w]] # "new"
  /\ link' = [link EXCEPT ![w] = NoSub]
  /\ wire' = [wire EXCEPT ![link[w]] = {}]
  /\ greeting' = greeting \ {w}
  /\ UNCHANGED <<hubVars, serverVars, opened, queryVars>>

-----------------------------------------------------------------------------
(* The window.                                                             *)

\* A query's first answer is under way, and it has no data yet.
FirstFetch(w, t) == screen[w][t] = 0 /\ answer[w][t] # {}

\* Mutant: what is under way is left to arrive.
InvalidateUncancelled(w, T) ==
  /\ stale' = [stale EXCEPT ![w] = @ \cup T]
  /\ UNCHANGED <<answer, screen>>

\* Mutant: a query already asking is not asked again.
InvalidateIdle(w, T) ==
  /\ stale' = [stale EXCEPT ![w] = @ \cup {t \in T : answer[w][t] = {}}]
  /\ UNCHANGED <<answer, screen>>

\* invalidateQueries: what is under way is cancelled and asked again, but a query
\* without data joins its first fetch, whose success takes the mark away.
Invalidate(w, T) ==
  LET again == {t \in T : ~FirstFetch(w, t)}
  IN /\ stale' = [stale EXCEPT ![w] = @ \cup again]
     /\ answer' = [answer EXCEPT ![w] = [t \in Topics |-> IF t \in again THEN {} ELSE @[t]]]
     /\ UNCHANGED screen

\* onopen: a reconnect refetches everything, the first open nothing.
Opened(w) ==
  /\ w \in greeting
  /\ greeting' = greeting \ {w}
  /\ opened' = opened \cup {w}
  /\ Invalidate(w, IF w \in opened THEN Topics ELSE {})
  /\ UNCHANGED <<hubVars, serverVars, link, wire>>

\* onChanged.
Changed(w) ==
  /\ link[w] # NoSub /\ wire[link[w]] # {}
  /\ w \notin greeting
  /\ Invalidate(w, wire[link[w]])
  /\ wire' = [wire EXCEPT ![link[w]] = {}]
  /\ UNCHANGED <<hubVars, serverVars, link, greeting, opened>>

\* The server reads its state for a query, and the answer reaches the screen.
Ask(w, t) ==
  /\ t \in stale[w]
  /\ stale' = [stale EXCEPT ![w] = @ \ {t}]
  /\ answer' = [answer EXCEPT ![w][t] = @ \cup {truth[t]}]
  /\ UNCHANGED <<hubVars, serverVars, streamVars, screen>>

Show(w, t) ==
  /\ \E v \in answer[w][t] :
       /\ screen' = [screen EXCEPT ![w][t] = v]
       /\ answer' = [answer EXCEPT ![w][t] = @ \ {v}]
  /\ UNCHANGED <<hubVars, serverVars, streamVars, stale>>

-----------------------------------------------------------------------------
Next ==
  \/ \E t \in Topics : Change(t) \/ Say(t)
  \/ Pass
  \/ \E w \in Windows, s \in Subs : Accept(w, s)
  \/ \E s \in Subs : Register(s) \/ ReadOn(s) \/ WriteTopics(s) \/ HandlerEnds(s)
  \/ \E w \in Windows : Drop(w) \/ Opened(w) \/ Changed(w)
  \/ \E w \in Windows, t \in Topics : Ask(w, t) \/ Show(w, t)

\* What changed is published, the hub and its handlers run (as in EventsHub),
\* and a window reconnects, reads its stream and gets its answers. Nothing need
\* change and no connection need break.
Fairness ==
  /\ \A t \in Topics : SF_vars(Say(t))
  /\ WF_vars(Pass)
  /\ \A s \in Subs :
       /\ SF_vars(Register(s))
       /\ WF_vars(reader[s] \notin {"wait", "out"} /\ ReadOn(s))
       /\ WF_vars(reader[s] = "out" /\ ReadOn(s))
       /\ WF_vars(s \in nudged /\ reader[s] = "wait" /\ ReadOn(s))
       /\ WF_vars(WriteTopics(s))
  /\ \A w \in Windows :
       /\ WF_vars(\E s \in Subs : Accept(w, s))
       /\ WF_vars(Opened(w)) /\ WF_vars(Changed(w))
       /\ \A t \in Topics : WF_vars(Ask(w, t)) /\ WF_vars(Show(w, t))

Spec == Init /\ [][Next]_vars
FairSpec == Spec /\ Fairness

-----------------------------------------------------------------------------
(* Properties.                                                             *)

\* A screen never goes back to an older version: of two answers, the one asked
\* for later is the one that stays.
NeverBackwards ==
  [][\A w \in Windows, t \in Topics : screen'[w][t] >= screen[w][t]]_vars

\* A change not yet published when a window is subscribed reaches its screen,
\* unless the stream breaks first: of the two, the event and the answer under way,
\* neither loses it. A query's first fetch is the exception: it is not asked again.
ChangeReachesScreen ==
  \A w \in Windows, s \in Subs, t \in Topics, v \in Versions :
    (link[w] = s /\ s \in subs /\ t \in unsaid /\ truth[t] = v /\ ~FirstFetch(w, t))
      ~> (screen[w][t] >= v \/ link[w] # s)

\* The refetch on reconnecting is "the price of never being stale for ever": what
\* has data when the stream reopens is brought up to date however long it stays.
NeverStaleForever ==
  \A w \in Windows, t \in Topics :
    [](w \in greeting \cap opened /\ screen[w][t] # 0 => []<>(screen[w][t] = truth[t]))

=============================================================================
