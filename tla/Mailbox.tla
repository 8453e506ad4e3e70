------------------------------- MODULE Mailbox -------------------------------
(***************************************************************************)
(* What the events hub promises a subscriber: its topics pile up without   *)
(* repetition, leave together, never appear from nowhere, are never        *)
(* dropped while the stream lasts, and do leave.                           *)
(***************************************************************************)
CONSTANTS Subs, Topics

VARIABLES
  pending, \* per subscriber: topics it has yet to be told
  ended    \* subscribers whose stream is over

boxVars == <<pending, ended>>

BoxInit == pending = [s \in Subs |-> {}] /\ ended = {}

Post(s, T) ==
  /\ s \notin ended
  /\ pending' = [pending EXCEPT ![s] = @ \cup T]
  /\ UNCHANGED ended

Deliver(s) ==
  /\ pending[s] # {}
  /\ pending' = [pending EXCEPT ![s] = {}]
  /\ UNCHANGED ended

\* One stream closes, or the whole hub does.
EndStreams(S) == ended' = ended \cup S /\ UNCHANGED pending

BoxNext ==
  \/ \E s \in Subs, T \in SUBSET Topics : Post(s, T)
  \/ \E s \in Subs : Deliver(s)
  \/ \E S \in SUBSET Subs : EndStreams(S)

BoxSafeSpec == BoxInit /\ [][BoxNext]_boxVars

\* A topic waits for ever only on a stream that ends.
BoxSpec ==
  /\ BoxSafeSpec
  /\ \A s \in Subs : WF_boxVars(s \notin ended /\ Deliver(s))

=============================================================================
