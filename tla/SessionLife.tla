----------------------------- MODULE SessionLife -----------------------------
(***************************************************************************)
(* What the transcode manager promises of each session, whoever handles    *)
(* it: it is launched once, listed once, taken off the table once, and     *)
(* whoever took it off ends it; its ffmpeg never outlives its end.         *)
(***************************************************************************)
CONSTANT Sessions

VARIABLES
  life,  \* per session: how far it has come
  alive  \* the sessions whose ffmpeg runs

lifeVars == <<life, alive>>

LifeTypeOK ==
  /\ life \in [Sessions -> {"unborn", "launched", "listed", "doomed", "ended"}]
  /\ alive \subseteq Sessions

LifeInit == life = [s \in Sessions |-> "unborn"] /\ alive = {}

Become(S, from, to) ==
  /\ \A s \in S : life[s] = from
  /\ life' = [s \in Sessions |-> IF s \in S THEN to ELSE life[s]]

Launch(s) == Become({s}, "unborn", "launched") /\ alive' = alive \cup {s}
List(s) == Become({s}, "launched", "listed") /\ UNCHANGED alive

\* Several at once: a supersede, a reap or the exit takes all that qualify.
Doom(S) == Become(S, "listed", "doomed") /\ UNCHANGED alive
End(s) == Become({s}, "doomed", "ended") /\ alive' = alive \ {s}

\* ffmpeg ends by itself, which moves the session nowhere.
Expire(s) == alive' = alive \ {s} /\ UNCHANGED life

LifeNext ==
  \/ \E s \in Sessions : Launch(s) \/ List(s) \/ End(s) \/ Expire(s)
  \/ \E S \in SUBSET Sessions : Doom(S)

LifeSpec == LifeInit /\ [][LifeNext]_lifeVars

\* ... and what is doomed is ended.
LifeFairSpec == LifeSpec /\ \A s \in Sessions : WF_lifeVars(End(s))

=============================================================================
