---------------------------- MODULE ProfileConfig ----------------------------
(***************************************************************************)
(* The layered configuration of config.rs: which limits a profile gets,    *)
(* what is checked when the file is loaded and what when it is used.       *)
(* Limits are abstract: every field has the values of Allowed inside its   *)
(* range, and any other value is out of it.                                *)
(***************************************************************************)
EXTENDS Naturals, FiniteSetsExt

CONSTANTS
  Profiles,   \* names a file may give its profiles
  Unset,      \* a limit a layer leaves alone
  Default,    \* field |-> built-in limit
  Allowed     \* field |-> limits within its range

Field == {"max_handles", "shutdown_total"}

ASSUME ConfigAssumption ==
  /\ Profiles # {}
  /\ \A f \in Field :
       /\ Default[f] \in Allowed[f] /\ Unset \notin Allowed[f]
       /\ Allowed[f] \subseteq Nat
       /\ \E top \in Allowed[f] : \A v \in Allowed[f] : v <= top

\* Mutant: the lower layer wins.
MergeLowerWins(lower, higher) ==
  [f \in Field |-> IF lower[f] # Unset THEN lower[f] ELSE higher[f]]

\* ConfigOverrides::merge: the higher layer wins where it says something.
Merge(lower, higher) ==
  [f \in Field |-> IF higher[f] # Unset THEN higher[f] ELSE lower[f]]

\* into_config and apply: built-in limits fill what is left.
IntoConfig(overrides) == Merge(Default, overrides)

\* Config::validate.
InRange(config) == \A f \in Field : config[f] \in Allowed[f]

\* A file has [defaults], limits at its top level, and profiles of its own.
BaseConfig(file) == IntoConfig(Merge(file.defaults, file.legacy))

\* profile_config, and the same expression in resolve_with_context.
ProfileConfigOf(file, p) ==
  IntoConfig(Merge(Merge(file.defaults, file.legacy), file.profiles[p]))

\* ConfigFile::validate.  The profile's own limits are the lower layer here, so
\* a complete base hides them all.
ValidateFile(file) ==
  /\ InRange(BaseConfig(file))
  /\ \A p \in DOMAIN file.profiles :
       InRange(IntoConfig(Merge(file.profiles[p], BaseConfig(file))))

\* Mutant: the base limits decide.
BaseShutdownTotal(file) == BaseConfig(file)["shutdown_total"]

\* Mutant: an unusable profile counts too.
LongestShutdownTotal(file) ==
  Max({ProfileConfigOf(file, p)["shutdown_total"] : p \in DOMAIN file.profiles})

\* ConfigFile::shutdown_total: the longest of the profiles that can be used.
ShutdownTotal(file) ==
  LET usable == {p \in DOMAIN file.profiles : InRange(ProfileConfigOf(file, p))}
  IN  IF usable = {} THEN BaseConfig(file)["shutdown_total"]
      ELSE Max({ProfileConfigOf(file, p)["shutdown_total"] : p \in usable})

=============================================================================
