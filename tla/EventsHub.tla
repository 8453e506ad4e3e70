------------------------------ MODULE EventsHub ------------------------------
(***************************************************************************)
(* The events hub: publishers gather topic names per subscriber and nudge  *)
(* it; a subscriber's Next waits for the nudge, gathers for one window and *)
(* takes what there is. (internal/events/events.go, read by the stream     *)
(* handler of internal/api/events.go.)                                     *)
(*                                                                         *)
(* A publisher holds the hub's lock throughout, but the reader does not    *)
(* take it: its steps fall anywhere between a topic's add and its nudge.   *)
(***************************************************************************)
EXTENDS Naturals

CONSTANTS
  Subs,     \* streams; each is opened at most once (a bound)
  Users,    \* accounts
  Topics,
  NoSub

ASSUME HubAssumption == NoSub \notin Subs \cup Users

VARIABLES
  closed,   \* Hub.closed
  subs,     \* Hub.subs
  user,     \* Sub.user
  topics,   \* Sub.topics
  nudged,   \* streams whose one-slot Sub.nudge is full
  done,     \* streams whose Sub.done is closed
  reader,   \* where the stream's handler is
  batch,    \* what the publisher holding the lock sends, {} when it is free
  todo,     \* subscribers that publisher has yet to reach
  at,       \* the one whose topics it has added and whom it has yet to nudge
  finishing \* subscribers Close has yet to finish

hubVars == <<closed, subs, user, topics, nudged, done, reader, batch, todo, at, finishing>>
sendVars == <<batch, todo, at>>
lifeVars == <<closed, subs, user, done, finishing>>

\* "out": between calls of Next; "late": in a window the heartbeat may cut.
Readers == {"new", "out", "wait", "window", "late", "drain", "take", "putback", "left"}

TypeOK ==
  /\ closed \in BOOLEAN
  /\ subs \subseteq Subs
  /\ user \in [Subs -> Users \cup {NoSub}]
  /\ topics \in [Subs -> SUBSET Topics]
  /\ nudged \subseteq Subs
  /\ done \subseteq Subs
  /\ reader \in [Subs -> Readers]
  /\ batch \subseteq Topics
  /\ todo \subseteq Subs
  /\ at \in Subs \cup {NoSub}
  /\ finishing \subseteq Subs
  /\ \A s \in Subs : user[s] = NoSub <=> reader[s] = "new"

Init ==
  /\ closed = FALSE
  /\ subs = {}
  /\ user = [s \in Subs |-> NoSub]
  /\ topics = [s \in Subs |-> {}]
  /\ nudged = {}
  /\ done = {}
  /\ reader = [s \in Subs |-> "new"]
  /\ batch = {} /\ todo = {} /\ at = NoSub
  /\ finishing = {}

Unlocked == batch = {}
Goto(s, where) == reader' = [reader EXCEPT ![s] = where]

-----------------------------------------------------------------------------
(* The hub.                                                                *)

\* Mutant: the stream is not tied to its account.
SubscribeNobody(s, u) ==
  /\ Unlocked /\ reader[s] = "new" /\ ~closed
  /\ Goto(s, "out")
  /\ subs' = subs \cup {s}
  /\ UNCHANGED <<closed, user, done, topics, nudged, sendVars, finishing>>

\* After Close a stream is born finished and is not registered.
Subscribe(s, u) ==
  /\ Unlocked /\ reader[s] = "new"
  /\ Goto(s, "out")
  /\ user' = [user EXCEPT ![s] = u]
  /\ IF closed THEN /\ done' = done \cup {s}
                    /\ UNCHANGED subs
               ELSE /\ subs' = subs \cup {s}
                    /\ UNCHANGED done
  /\ UNCHANGED <<closed, topics, nudged, sendVars, finishing>>

\* The handler returns: Unsubscribe, which also finishes.
Unsubscribe(s) ==
  /\ Unlocked /\ reader[s] = "out"
  /\ Goto(s, "left")
  /\ subs' = subs \ {s}
  /\ done' = done \cup {s}
  /\ UNCHANGED <<closed, user, topics, nudged, sendVars, finishing>>

\* Publish (to every account) and PublishTo (to one) take the lock ...
Send(to, T) ==
  /\ Unlocked /\ T # {}
  /\ batch' = T
  /\ todo' = {s \in subs : user[s] \in to}
  /\ UNCHANGED <<lifeVars, topics, nudged, reader, at>>

\* ... add to each subscriber's topics ...
Add(s) ==
  /\ s \in todo /\ at = NoSub
  /\ topics' = [topics EXCEPT ![s] = @ \cup batch]
  /\ at' = s /\ todo' = todo \ {s}
  /\ UNCHANGED <<lifeVars, nudged, reader, batch>>

\* Mutant: a nudge without its slot reaches only a reader that is waiting.
NudgeUnbuffered ==
  /\ at # NoSub
  /\ nudged' = nudged \cup ({at} \cap {s \in Subs : reader[s] = "wait"})
  /\ at' = NoSub
  /\ UNCHANGED <<lifeVars, topics, reader, batch, todo>>

\* ... and fill its nudge, unless it is full ...
Nudge ==
  /\ at # NoSub
  /\ nudged' = nudged \cup {at}
  /\ at' = NoSub
  /\ UNCHANGED <<lifeVars, topics, reader, batch, todo>>

\* ... and let go of the lock.
Sent ==
  /\ ~Unlocked /\ todo = {} /\ at = NoSub
  /\ batch' = {}
  /\ UNCHANGED <<lifeVars, topics, nudged, reader, todo, at>>

\* Mutant: Close forgets the streams it takes off the hub.
CloseForgets ==
  /\ Unlocked /\ ~closed
  /\ closed' = TRUE
  /\ subs' = {}
  /\ UNCHANGED <<user, topics, nudged, done, reader, sendVars, finishing>>

Close ==
  /\ Unlocked /\ ~closed
  /\ closed' = TRUE
  /\ subs' = {}
  /\ finishing' = subs
  /\ UNCHANGED <<user, topics, nudged, done, reader, sendVars>>

Finish(s) ==
  /\ s \in finishing
  /\ finishing' = finishing \ {s}
  /\ done' = done \cup {s}
  /\ UNCHANGED <<closed, subs, user, topics, nudged, reader, sendVars>>

-----------------------------------------------------------------------------
(* Next, as the stream's handler calls it.                                 *)

\* A nudge already there is taken at once, with the whole heartbeat ahead.
CallNext(s) ==
  /\ reader[s] = "out" /\ s \notin done
  /\ Goto(s, IF s \in nudged THEN "window" ELSE "wait")
  /\ nudged' = nudged \ {s}
  /\ UNCHANGED <<lifeVars, topics, sendVars>>

\* A nudge that comes while waiting may leave the heartbeat less than a window.
Woken(s) ==
  /\ reader[s] = "wait" /\ s \in nudged
  /\ nudged' = nudged \ {s}
  /\ \E w \in {"window", "late"} : Goto(s, w)
  /\ UNCHANGED <<lifeVars, topics, sendVars>>

\* The heartbeat, or the client leaving, while nothing was gathered.
GiveUpWaiting(s) ==
  /\ reader[s] = "wait"
  /\ Goto(s, "out")
  /\ UNCHANGED <<lifeVars, topics, nudged, sendVars>>

\* The stream ends under the call.
Finished(s) ==
  /\ reader[s] \in {"wait", "window", "late"} /\ s \in done
  /\ Goto(s, "out")
  /\ UNCHANGED <<lifeVars, topics, nudged, sendVars>>

WindowOver(s) ==
  /\ reader[s] \in {"window", "late"}
  /\ Goto(s, "drain")
  /\ UNCHANGED <<lifeVars, topics, nudged, sendVars>>

\* Mutant: the nudge is not put back.
GiveUpForgetting(s) ==
  /\ reader[s] = "late"
  /\ Goto(s, "out")
  /\ UNCHANGED <<lifeVars, topics, nudged, sendVars>>

\* The heartbeat cuts the window: the nudge it spent is put back.
GiveUpGathering(s) ==
  /\ reader[s] = "late"
  /\ Goto(s, "putback")
  /\ UNCHANGED <<lifeVars, topics, nudged, sendVars>>

PutBack(s) ==
  /\ reader[s] = "putback"
  /\ nudged' = nudged \cup {s}
  /\ Goto(s, "out")
  /\ UNCHANGED <<lifeVars, topics, sendVars>>

Drain(s) ==
  /\ reader[s] = "drain"
  /\ nudged' = nudged \ {s}
  /\ Goto(s, "take")
  /\ UNCHANGED <<lifeVars, topics, sendVars>>

\* What was gathered is returned; a nudge whose topics an earlier call took
\* finds nothing, and the call waits again.
Take(s) ==
  /\ reader[s] = "take"
  /\ Goto(s, IF topics[s] = {} THEN "wait" ELSE "out")
  /\ topics' = [topics EXCEPT ![s] = {}]
  /\ UNCHANGED <<lifeVars, nudged, sendVars>>

\* Every step of the call but the one that takes the topics.
Turning(s) ==
  \/ CallNext(s) \/ Woken(s) \/ GiveUpWaiting(s) \/ Finished(s) \/ WindowOver(s)
  \/ GiveUpGathering(s) \/ PutBack(s) \/ Drain(s)
Reading(s) == Turning(s) \/ Take(s)

Publishing == (\E s \in Subs : Add(s)) \/ Nudge \/ Sent

Audiences == {Users} \cup {{u} : u \in Users}
Next ==
  \/ \E s \in Subs : Reading(s) \/ Unsubscribe(s) \/ Finish(s)
  \/ \E s \in Subs, u \in Users : Subscribe(s, u)
  \/ \E to \in Audiences, T \in SUBSET Topics : Send(to, T)
  \/ Publishing \/ Close

Spec == Init /\ [][Next]_hubVars

\* A publisher does not stop halfway, a handler goes on calling Next, timers
\* fire, and Close reaches everyone. Nobody has to publish, leave or close.
Fairness ==
  /\ WF_hubVars(Publishing)
  /\ \A s \in Subs :
       /\ WF_hubVars(CallNext(s))
       /\ WF_hubVars(Woken(s))
       /\ WF_hubVars(WindowOver(s) \/ GiveUpGathering(s) \/ PutBack(s)
                     \/ Drain(s) \/ Take(s))
       /\ WF_hubVars(reader[s] # "out" /\ Finished(s))
       /\ WF_hubVars(Finish(s))
FairSpec == Spec /\ Fairness

-----------------------------------------------------------------------------
(* Properties.                                                             *)

\* No wake-up is lost: whoever has topics waiting has a nudge in its slot, or a
\* reader that has spent it and not yet taken them or put it back, or the
\* publisher about to nudge it.
Gathering(s) == reader[s] \in {"window", "late", "drain", "take", "putback"}
NoTopicStranded ==
  \A s \in Subs : topics[s] # {} /\ reader[s] # "left" =>
    s \in nudged \/ Gathering(s) \/ at = s \/ s \in done \/ s \in finishing

\* After Close every stream is finished or about to be: none is left waiting
\* for topics that nobody can send it any more.
ClosedReachesAll ==
  \A s \in Subs : closed /\ reader[s] \notin {"new", "left"} => s \in done \/ s \in finishing

\* The hub and its readers implement a mailbox per stream, and under the
\* fairness above what is in it is delivered unless the stream ends.
Box == INSTANCE Mailbox WITH
         pending <- topics,
         ended <- {s \in Subs : s \in done \/ s \in finishing}
ImplementsMailbox == Box!BoxSpec

=============================================================================
