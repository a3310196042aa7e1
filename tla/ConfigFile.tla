---- MODULE ConfigFile ----
(***************************************************************************)
(* The configuration file of brook-tui and the configuration it runs with. *)
(* The config screen checks a text, writes the file in place and loads it; *)
(* /agent mode checks the switch on the running configuration, patches the *)
(* file and loads it (internal/tui/model.go, pkg/agentconfig).  What the   *)
(* checks accept and what launcher.Load can build are not the same, and    *)
(* the file may be edited by other programs or cut short by a failing      *)
(* write, so the file, the running configuration and what the user is told *)
(* can come apart.                                                         *)
(***************************************************************************)
EXTENDS Naturals

CONSTANTS
  Modes,      \* values of agent.mode that are written or asked for
  IsTried(_), \* which of the texts of a configuration are entered
  Down,       \* no process is running
  Unreadable  \* a file that is not YAML, or has no agent section

AllModes ==
  {"react", "deep", "sequential", "parallel", "loop", "supervisor",
   "plan_execute", "custom"}

Workflows == {"sequential", "parallel", "loop"}

(***************************************************************************)
(* A configuration: agent.mode ("": not given), what of mode_config is     *)
(* there (names of sub-agents, of a supervisor, of a planner, executor and *)
(* replanner, these possibly with blanks around them), and of the rest two *)
(* values that work, one that Validate refuses and one it does not though  *)
(* the agent cannot be built.                                              *)
(***************************************************************************)
Usable == {"first", "second"}

Configs ==
  [mode : Modes, subs : BOOLEAN, supervisor : BOOLEAN,
   plan : {"none", "padded", "named"}, rest : Usable \cup {"invalid", "unbuildable"}]

Texts == { c \in Configs : IsTried(c) } \cup {Unreadable}

ASSUME ConfigAssumption ==
  /\ Down \notin Configs \cup {Unreadable}
  /\ Unreadable \notin Configs
  /\ "react" \in Modes

VARIABLES
  file,     \* what is on disk
  root,     \* Runtime.Root of the process
  told,     \* what the user was told last
  foreign   \* since it was last loaded, the file was changed by another
            \* program or by a write that did not complete

vars == <<file, root, told, foreign>>

-----------------------------------------------------------------------------
(* Checking and building.                                                  *)

\* Bug: no placeholders for the supervisor.
DefaultsOfPipelines(mode) ==
  [subs |-> mode \in Workflows, supervisor |-> FALSE,
   plan |-> IF mode = "plan_execute" THEN "named" ELSE "none"]

(* The placeholders a switch to a mode writes.                             *)
DefaultModeConfig(mode) ==
  [subs       |-> mode \in Workflows \cup {"supervisor"},
   supervisor |-> mode = "supervisor",
   plan       |-> IF mode = "plan_execute" THEN "named" ELSE "none"]

\* Bug: mode_config is left as it was.
PatchedModeOnly(c, mode) == [c EXCEPT !.mode = mode]

(* agent.mode is set and mode_config replaced, the rest stays.             *)
Patched(c, mode) ==
  LET mc == DefaultModeConfig(mode)
  IN  [c EXCEPT !.mode = mode, !.subs = mc.subs, !.supervisor = mc.supervisor,
                !.plan = mc.plan]

\* Bug: the supervisor's name is not required.
ModeIsNamed(c) ==
  /\ c.mode \in Workflows \cup {"supervisor"} => c.subs
  /\ c.mode = "plan_execute" => c.plan # "none"

validateMode(c) ==
  /\ c.mode \in Workflows \cup {"supervisor"} => c.subs
  /\ c.mode = "supervisor" => c.supervisor
  /\ c.mode = "plan_execute" => c.plan # "none"

(* Validate fills in an absent mode.                                       *)
Defaulted(c) == IF c.mode = "" THEN [c EXCEPT !.mode = "react"] ELSE c

(* LoadYAMLWithDir: the text is YAML and validates.                         *)
Validates(c) ==
  /\ c # Unreadable
  /\ c.rest # "invalid"
  /\ Defaulted(c).mode \in AllModes
  /\ validateMode(Defaulted(c))

(* The agent can be built; what a mode needs is looked up unchecked.       *)
Builds(c) ==
  /\ c.rest \in Usable
  /\ c.mode \in AllModes \ {"custom"}
  /\ c.mode \in Workflows \cup {"supervisor"} => c.subs
  /\ c.mode = "supervisor" => c.supervisor
  /\ c.mode = "plan_execute" => c.plan = "named"

\* Bug: what validates is loaded, the agent built later.
LoadsUnbuilt(c) == Validates(c)

(* launcher.Load                                                           *)
Loads(c) == Validates(c) /\ Builds(Defaulted(c))

TryValidateModeSwitch(r, mode) == mode # "custom" /\ Validates(Patched(r, mode))

Init ==
  /\ file \in { c \in Texts : Loads(c) }
  /\ root = Down
  /\ told = "nothing" /\ foreign = FALSE

-----------------------------------------------------------------------------
(* main: a configuration that does not load ends the process at once.      *)
Start ==
  /\ root = Down /\ Loads(file)
  /\ root' = Defaulted(file)
  /\ told' = "nothing" /\ foreign' = FALSE
  /\ UNCHANGED file

Stop ==
  /\ root # Down
  /\ root' = Down /\ told' = "nothing"
  /\ UNCHANGED <<file, foreign>>

\* Bug: the switch is made in memory, beside the file.
ReloadSwitching(c) ==
  \/ /\ Loads(c)
     /\ root' = [root EXCEPT !.mode = Defaulted(c).mode, !.subs = c.subs,
                             !.supervisor = c.supervisor, !.plan = c.plan]
     /\ told' = "loaded" /\ foreign' = FALSE
  \/ /\ UNCHANGED <<root, foreign>>
     /\ told' = "not loaded"

(* The file now holds c and is loaded; loading may also fail for reasons   *)
(* outside of the file, and the old runtime stays.                         *)
Reload(c) ==
  \/ /\ Loads(c)
     /\ root' = Defaulted(c)
     /\ told' = "loaded" /\ foreign' = FALSE
  \/ /\ UNCHANGED <<root, foreign>>
     /\ told' = "not loaded"

(* A text that does not validate is not saved.                             *)
RejectText(text) ==
  /\ root # Down /\ ~Validates(text)
  /\ told' = "rejected"
  /\ UNCHANGED <<file, root, foreign>>

(* saveConfigAndReload                                                     *)
SaveConfig(text) ==
  /\ root # Down /\ Validates(text)
  /\ file' = text
  /\ \/ Loads(text) /\ root' = Defaulted(text) /\ told' = "loaded"
     \/ UNCHANGED root /\ told' = "not loaded"
  /\ foreign' = FALSE

(* os.WriteFile truncates the file and then writes: when it fails or the   *)
(* process dies, the file is as it was or cut short.                       *)
SaveCutShort(text) ==
  /\ root # Down /\ Validates(text)
  /\ \/ UNCHANGED <<file, foreign>>
     \/ file' \in {Unreadable, [text EXCEPT !.rest = "invalid"]} /\ foreign' = TRUE
  /\ \/ UNCHANGED root /\ told' = "not written"
     \/ root' = Down /\ told' = "nothing"

(* /agent mode is checked on the running configuration.                    *)
RejectMode(mode) ==
  /\ root # Down /\ ~TryValidateModeSwitch(root, mode)
  /\ told' = "rejected"
  /\ UNCHANGED <<file, root, foreign>>

(* The patch replaces the file as a whole.                                 *)
SwitchMode(mode) ==
  /\ root # Down /\ TryValidateModeSwitch(root, mode)
  /\ file # Unreadable
  /\ file' = Patched(file, mode)
  /\ Reload(file')

SwitchFails(mode) ==
  /\ root # Down /\ TryValidateModeSwitch(root, mode)
  /\ told' = "not written"
  /\ UNCHANGED <<file, root, foreign>>

(* Another program saves the file.                                         *)
EditOutside(text) ==
  /\ file' = text /\ foreign' = TRUE
  /\ UNCHANGED <<root, told>>

Next ==
  \/ Start \/ Stop
  \/ \E text \in Texts :
       RejectText(text) \/ SaveConfig(text) \/ SaveCutShort(text) \/ EditOutside(text)
  \/ \E mode \in Modes \ {""} :
       RejectMode(mode) \/ SwitchMode(mode) \/ SwitchFails(mode)

Spec == Init /\ [][Next]_vars

-----------------------------------------------------------------------------
(* Properties                                                              *)

(* The variables have their types; a process only ever runs with a         *)
(* configuration that could be built, its mode filled in.                  *)
TypeOK ==
  /\ file \in Configs \cup {Unreadable}
  /\ root \in Configs \cup {Down} /\ (root # Down => Builds(root))
  /\ told \in {"nothing", "loaded", "not loaded", "rejected", "not written"}
  /\ foreign \in BOOLEAN

(* Told that the configuration is saved and loaded, or the mode switched,  *)
(* the user runs what is on disk, until somebody else edits the file.      *)
LoadedMeansInForce == told = "loaded" /\ ~foreign => root = Defaulted(file)

(* What brook itself has left on disk validates: a text is checked before  *)
(* it is saved, and a switch, though checked on the running configuration, *)
(* does not break the file it patches, even one that failed to load.       *)
WrittenFilesValidate == ~foreign => Validates(file)

(* The placeholders "validate and can run" (mode_defaults.go:5): from every*)
(* running configuration every mode but custom can be switched to, and the *)
(* switch repairs a file in which only the mode's settings are at fault.   *)
ModesCanBeSwitchedTo ==
  \A mode \in Modes \cap (AllModes \ {"custom"}) :
    /\ root # Down => TryValidateModeSwitch(root, mode)
    /\ file # Unreadable /\ file.rest \in Usable => Loads(Patched(file, mode))

(* Where validation is weaker than building: the next start can only be    *)
(* kept from working by a custom mode, by blanks around the names of       *)
(* plan_execute, or by what is not about modes.                            *)
NextStartWorks ==
  ~foreign => \/ Loads(file)
              \/ file.rest = "unbuildable"
              \/ file.mode = "custom"
              \/ file.mode = "plan_execute" /\ file.plan = "padded"
====
