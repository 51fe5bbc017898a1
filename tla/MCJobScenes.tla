---------------------------- MODULE MCJobScenes -----------------------------
(* Instances of AnalysisJobs for TLC that take up two ways of handing a job *)
(* over in one run. Init picks a scene and it stays; a scene withholds      *)
(* steps of AnalysisJobs and adds none, so every behaviour is a behaviour   *)
(* of AnalysisJobs with the run's constants.                                *)
EXTENDS AnalysisJobs

CONSTANT Scenes
VARIABLE scene

(* What every state of a scene satisfies: "twice", a job handed over by two *)
(* publishers, no delivery put back; "again", a job handed over by one      *)
(* publisher, a lost worker's delivery put back.                            *)
Staged ==
  \/ scene = "twice" /\ \A m \in Message : m.redelivered => queue[m] = 0
  \/ scene = "again" /\ \A b \in Beat : pub[b].pc = "idle"

SceneInit == Init /\ scene \in Scenes
SceneNext == Next /\ UNCHANGED scene /\ Staged'
SceneSpec == SceneInit /\ [][SceneNext]_<<vars, scene>>
=============================================================================
