---- MODULE MCConfigFile ----
(***************************************************************************)
(* Checks ConfigFile.  The three workflow modes have the same settings and *)
(* so have react and deep: one of each, an absent and an unknown mode.     *)
(* The settings of plan_execute are entered without those of the others.   *)
(***************************************************************************)
EXTENDS ConfigFile

ModesTried ==
  {"react", "sequential", "supervisor", "plan_execute", "custom", "", "unknown"}

OneModesSettings(c) == c.plan = "none" \/ ~(c.subs \/ c.supervisor)
====
