---- MODULE ConfigFileProofs ----
(***************************************************************************)
(* The invariants of ConfigFile for every set of modes and of texts that   *)
(* may be entered.                                                         *)
(***************************************************************************)
EXTENDS ConfigFile, TLAPS

(* What is found on disk validates unless others have written it, and what *)
(* is said to be in force was read from there.                             *)
IInv ==
  /\ TypeOK
  /\ LoadedMeansInForce
  /\ WrittenFilesValidate

LEMMA DefaultedType ==
  ASSUME NEW c \in Configs
  PROVE  Defaulted(c) \in Configs /\ (Loads(c) => Builds(Defaulted(c)))
  BY ConfigAssumption DEF Defaulted, Configs, Loads

LEMMA PatchedType ==
  ASSUME NEW c \in Configs, NEW mode \in Modes
  PROVE  /\ Patched(c, mode) \in Configs
         /\ Patched(c, mode).mode = mode /\ Patched(c, mode).rest = c.rest
         /\ mode \in Workflows \cup {"supervisor"} => Patched(c, mode).subs
         /\ mode = "supervisor" => Patched(c, mode).supervisor
         /\ mode = "plan_execute" => Patched(c, mode).plan = "named"
<1>. DEFINE mc == DefaultModeConfig(mode)
<1>1. /\ mc.subs \in BOOLEAN /\ mc.supervisor \in BOOLEAN
      /\ mc.plan \in {"none", "padded", "named"}
  BY DEF DefaultModeConfig
<1>2. /\ mode \in Workflows \cup {"supervisor"} => mc.subs
      /\ mode = "supervisor" => mc.supervisor
      /\ mode = "plan_execute" => mc.plan = "named"
  BY DEF DefaultModeConfig
<1>. HIDE DEF mc
<1>3. Patched(c, mode) = [c EXCEPT !.mode = mode, !.subs = mc.subs, !.supervisor = mc.supervisor,
                                   !.plan = mc.plan]
  BY DEF Patched, mc
<1>4. /\ Patched(c, mode) \in Configs
      /\ Patched(c, mode).mode = mode /\ Patched(c, mode).rest = c.rest
      /\ Patched(c, mode).subs = mc.subs /\ Patched(c, mode).supervisor = mc.supervisor
      /\ Patched(c, mode).plan = mc.plan
  BY <1>1, <1>3 DEF Configs
<1>. QED
  BY <1>2, <1>4

(* The placeholders of a switch pass every check of modes.                 *)
LEMMA PlaceholdersValidate ==
  ASSUME NEW c \in Configs, NEW mode \in Modes \cap (AllModes \ {"custom"})
  PROVE  /\ c.rest # "invalid" => Validates(Patched(c, mode))
         /\ c.rest \in Usable => Loads(Patched(c, mode))
<1>1. mode # "" /\ Defaulted(Patched(c, mode)) = Patched(c, mode)
  BY PatchedType DEF AllModes, Defaulted
<1>2. validateMode(Patched(c, mode))
  BY PatchedType DEF validateMode
<1>3. c.rest # "invalid" => Validates(Patched(c, mode))
  <2>1. Patched(c, mode) # Unreadable /\ Patched(c, mode).rest = c.rest
    BY PatchedType, ConfigAssumption
  <2>2. Patched(c, mode).mode \in AllModes
    BY PatchedType
  <2>. QED
    BY <1>1, <1>2, <2>1, <2>2, Zenon DEF Validates
<1>4. c.rest \in Usable => Builds(Patched(c, mode))
  BY PatchedType DEF Builds
<1>. QED
  BY <1>1, <1>3, <1>4 DEF Loads, Usable

(* A switch that is accepted is to a mode with placeholders.               *)
LEMMA SwitchedModes ==
  ASSUME NEW r \in Configs, NEW mode \in Modes \ {""}, TryValidateModeSwitch(r, mode)
  PROVE  mode \in Modes \cap (AllModes \ {"custom"})
  BY PatchedType DEF TryValidateModeSwitch, Validates, Defaulted

LEMMA IInvInit == Init => IInv
  BY ConfigAssumption DEF Init, IInv, TypeOK, LoadedMeansInForce, WrittenFilesValidate, Texts, Loads

LEMMA IInvStep == IInv /\ [Next]_vars => IInv'
<1>. SUFFICES ASSUME IInv, [Next]_vars PROVE IInv'
  OBVIOUS
<1>. USE ConfigAssumption DEF IInv
<1>0. \A text \in Texts : Validates(text) => text \in Configs
  BY DEF Texts, Validates
<1>1. CASE Start
  <2>1. file \in Configs /\ Validates(file)
    BY <1>1 DEF Start, TypeOK, Loads, Validates
  <2>. QED
    BY <1>1, <2>1, DefaultedType DEF Start, TypeOK, LoadedMeansInForce, WrittenFilesValidate
<1>2. CASE Stop
  BY <1>2 DEF Stop, TypeOK, LoadedMeansInForce, WrittenFilesValidate
<1>3. ASSUME NEW text \in Texts, RejectText(text) PROVE IInv'
  BY <1>3 DEF RejectText, TypeOK, LoadedMeansInForce, WrittenFilesValidate
<1>4. ASSUME NEW text \in Texts, SaveConfig(text) PROVE IInv'
  <2>1. text \in Configs
    BY <1>0, <1>4 DEF SaveConfig
  <2>. QED
    BY <1>4, <2>1, DefaultedType DEF SaveConfig, TypeOK, LoadedMeansInForce, WrittenFilesValidate
<1>5. ASSUME NEW text \in Texts, SaveCutShort(text) PROVE IInv'
  <2>1. text \in Configs
    BY <1>0, <1>5 DEF SaveCutShort
  <2>2. [text EXCEPT !.rest = "invalid"] \in Configs
    BY <2>1 DEF Configs
  <2>3. CASE UNCHANGED <<file, foreign>>
    BY <1>5, <2>3 DEF SaveCutShort, TypeOK, LoadedMeansInForce, WrittenFilesValidate
  <2>4. CASE file' \in {Unreadable, [text EXCEPT !.rest = "invalid"]} /\ foreign' = TRUE
    BY <1>5, <2>2, <2>4 DEF SaveCutShort, TypeOK, LoadedMeansInForce, WrittenFilesValidate
  <2>. QED
    BY <1>5, <2>3, <2>4 DEF SaveCutShort
<1>6. ASSUME NEW text \in Texts, EditOutside(text) PROVE IInv'
  BY <1>6 DEF EditOutside, TypeOK, LoadedMeansInForce, WrittenFilesValidate, Texts
<1>7. ASSUME NEW mode \in Modes \ {""}, RejectMode(mode) PROVE IInv'
  BY <1>7 DEF RejectMode, TypeOK, LoadedMeansInForce, WrittenFilesValidate
<1>8. ASSUME NEW mode \in Modes \ {""}, SwitchMode(mode) PROVE IInv'
  <2>1. file \in Configs /\ root \in Configs
    BY <1>8 DEF SwitchMode, TypeOK
  <2>2. mode \in Modes \cap (AllModes \ {"custom"})
    BY <1>8, <2>1, SwitchedModes DEF SwitchMode
  <2>3. file' = Patched(file, mode) /\ file' \in Configs /\ Reload(file')
    BY <1>8, <2>1, PatchedType DEF SwitchMode
  <2>4. ~foreign => Validates(file')
    <3>1. ~foreign => file.rest # "invalid"
      BY DEF WrittenFilesValidate, Validates
    <3>. QED
      BY <2>1, <2>2, <2>3, <3>1, PlaceholdersValidate
  <2>5. CASE Loads(file') /\ root' = Defaulted(file') /\ told' = "loaded" /\ foreign' = FALSE
    <3>1. Validates(file')
      BY <2>5 DEF Loads
    <3>. QED
      BY <2>3, <2>5, <3>1, DefaultedType DEF TypeOK, LoadedMeansInForce, WrittenFilesValidate
  <2>6. CASE UNCHANGED <<root, foreign>> /\ told' = "not loaded"
    BY <2>3, <2>4, <2>6 DEF TypeOK, LoadedMeansInForce, WrittenFilesValidate
  <2>. QED
    BY <2>3, <2>5, <2>6 DEF Reload
<1>9. ASSUME NEW mode \in Modes \ {""}, SwitchFails(mode) PROVE IInv'
  BY <1>9 DEF SwitchFails, TypeOK, LoadedMeansInForce, WrittenFilesValidate
<1>10. CASE UNCHANGED vars
  BY <1>10 DEF vars, TypeOK, LoadedMeansInForce, WrittenFilesValidate
<1>. QED
  BY <1>1, <1>2, <1>3, <1>4, <1>5, <1>6, <1>7, <1>8, <1>9, <1>10 DEF Next

LEMMA Invariance == Spec => []IInv
  BY IInvInit, IInvStep, PTL DEF Spec

(* The file, the running configuration and what is said of them have their *)
(* types, and what runs could be built.                                    *)
THEOREM TypeCorrect == Spec => []TypeOK
<1>1. IInv => TypeOK
  BY DEF IInv
<1>. QED
  BY <1>1, Invariance, PTL

(* Whoever is told that a configuration is loaded runs what is on disk.    *)
THEOREM LoadedIsInForce == Spec => []LoadedMeansInForce
<1>1. IInv => LoadedMeansInForce
  BY DEF IInv
<1>. QED
  BY <1>1, Invariance, PTL

(* What brook leaves on disk validates, through every sequence of saves,   *)
(* switches, failures and restarts.                                        *)
THEOREM FilesValidate == Spec => []WrittenFilesValidate
<1>1. IInv => WrittenFilesValidate
  BY DEF IInv
<1>. QED
  BY <1>1, Invariance, PTL

(* Every mode but custom can be switched to at any time.                   *)
THEOREM SwitchesAreOpen == Spec => []ModesCanBeSwitchedTo
<1>1. IInv => ModesCanBeSwitchedTo
  <2>. SUFFICES ASSUME TypeOK, NEW mode \in Modes \cap (AllModes \ {"custom"})
       PROVE  /\ root # Down => TryValidateModeSwitch(root, mode)
              /\ file # Unreadable /\ file.rest \in Usable => Loads(Patched(file, mode))
    BY DEF IInv, ModesCanBeSwitchedTo
  <2>1. root # Down => root \in Configs /\ root.rest # "invalid"
    BY DEF TypeOK, Builds, Usable
  <2>2. file # Unreadable => file \in Configs
    BY DEF TypeOK
  <2>. QED
    BY <2>1, <2>2, PlaceholdersValidate DEF TryValidateModeSwitch
<1>. QED
  BY <1>1, Invariance, PTL

(* Where the checks of a file and of building differ is all that can keep  *)
(* the next start from working.                                            *)
THEOREM StartsWork == Spec => []NextStartWorks
<1>1. IInv => NextStartWorks
  <2>. SUFFICES ASSUME TypeOK, Validates(file), file.rest # "unbuildable", file.mode # "custom",
                       ~(file.mode = "plan_execute" /\ file.plan = "padded")
       PROVE  Builds(Defaulted(file))
    BY DEF IInv, WrittenFilesValidate, NextStartWorks, Loads
  <2>1. file \in Configs
    BY DEF TypeOK, Validates
  <2>2. file.rest \in Usable /\ file.plan \in {"none", "padded", "named"}
    BY <2>1 DEF Configs, Validates
  <2>3. CASE file.mode = ""
    <3>1. Defaulted(file) = [file EXCEPT !.mode = "react"]
      BY <2>3 DEF Defaulted
    <3>2. Defaulted(file).mode = "react" /\ Defaulted(file).rest = file.rest
      BY <2>1, <3>1 DEF Configs
    <3>. QED
      BY <2>2, <3>2 DEF Builds, AllModes, Workflows
  <2>4. CASE file.mode # ""
    <3>1. Defaulted(file) = file /\ validateMode(file) /\ file.mode \in AllModes
      BY <2>4 DEF Defaulted, Validates
    <3>. QED
      BY <2>2, <3>1 DEF Builds, validateMode
  <2>. QED
    BY <2>3, <2>4
<1>. QED
  BY <1>1, Invariance, PTL
====
