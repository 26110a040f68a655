----------------------------- MODULE AdapterDoctor -----------------------------
(***************************************************************************)
(* What `hepa adapter doctor` says of the registered adapters              *)
(* (crates/hepa-adapters/src/doctor.rs).  A probe answers which commands   *)
(* are installed, what version each of them reports and which environment  *)
(* variables are set.                                                      *)
(***************************************************************************)
EXTENDS Adapters

Verdict == {"ok", "skipped", "missing", "failed"}

\* The flags HEPA's own programs take.
Flag == {"--prompt-file", "--worktree", "--artifact-dir", "--json-output", "--review",
         "--mode", "--model", "--provider"}

KnownFlags(binary) ==
    CASE binary = "fake" -> {"--prompt-file", "--json-output"}
      [] binary \in {"shell-command", "user-worker", "user-reviewer", "local-worker",
                     "external-worker", "custom"} ->
             {"--prompt-file", "--worktree", "--artifact-dir", "--json-output", "--review"}
      [] binary = "pi" -> {"--mode", "--model", "--provider"}
      [] OTHER -> Flag \cup BypassFlag

\* unsupported_hepa_flags: nothing is known of other programs' flags.
UnsupportedFlags(command) ==
    IF command = <<>> THEN {}
    ELSE (WordsOf(command) \cap (Flag \cup BypassFlag)) \ KnownFlags(command[1])

MissingCommands(spec, probe) == spec.required_commands \ probe.commands
MissingEnv(spec, probe)      == spec.required_env \ probe.env

\* check_versions: a version that is not told, or of another's program, is fine.
VersionDrift(spec, probe) ==
    \E command \in spec.required_commands \cap probe.commands :
        probe.versions[command] = "drift"

\* check_pi_local_route.  The route is read from the environment, and only
\* where that says nothing from the command.
PiUnrouted(spec, probe) == spec.id = "pi" /\ PiRoute(probe.pi) = "not_configured"
PiUnusable(spec, probe) == spec.id = "pi" /\ PiRoute(probe.pi) \in {"unsupported", "unverified"}

\* check_invocation_template
TemplateBroken(spec) ==
    \/ ~SpecIsValid(spec)
    \/ \E command \in {spec.command} \cup spec.review_command : UnsupportedFlags(command) # {}

\* check_adapter: the most severe of what is found.
CheckAdapter(spec, probe) ==
    IF VersionDrift(spec, probe) \/ PiUnusable(spec, probe) \/ TemplateBroken(spec)
    THEN "failed"
    ELSE IF MissingCommands(spec, probe) # {} \/ MissingEnv(spec, probe) # {}
            \/ PiUnrouted(spec, probe)
    THEN "missing" ELSE "ok"

\* from_specs_with_default: what only an optional adapter misses is skipped.
CheckWithDefault(spec, probe, default) ==
    LET verdict == CheckAdapter(spec, probe)
    IN  IF verdict = "missing" /\ spec.id \notin {default, "fake"} THEN "skipped" ELSE verdict

\* aggregate_status.  A default adapter that is not registered is not missed.
DoctorIsOk(specs, probe, default) ==
    \A id \in DOMAIN specs : CheckWithDefault(specs[id], probe, default) \in {"ok", "skipped"}

\* from_specs: without a default every adapter has to be fine.
StrictDoctorIsOk(specs, probe) ==
    \A id \in DOMAIN specs : CheckAdapter(specs[id], probe) = "ok"
=============================================================================
