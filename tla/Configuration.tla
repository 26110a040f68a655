----------------------------- MODULE Configuration -----------------------------
(***************************************************************************)
(* The configuration of a command (hepa-core/src/config.rs): the defaults, *)
(* the file .env, the environment and the caller's overrides, in this      *)
(* order.  A value is a text; of the texts the code tells apart each class *)
(* has a member.  An optional value that is not there is "unset".          *)
(***************************************************************************)
EXTENDS Sequences, Naturals, FiniteSets

PathKey     == {"control_root", "worktree_root", "archive_root", "routing_file"}
CountKey    == {"max_total_rounds", "max_repair_rounds", "hermes_sync_interval_seconds"}
SwitchKey   == {"notify_terminal", "hermes_enabled"}
OptionalKey == {"notify_command", "pi_review_model", "pi_provider_key_env", "pi_base_url",
                "hermes_endpoint", "hermes_board_id"}
Key == PathKey \cup CountKey \cup SwitchKey \cup OptionalKey \cup {"default_adapter", "pi_model"}

Empty    == {"", " "}
TwoLines == {"two lines"}
Count    == {"0", "1", "2", "3", "30"}
Switch   == {"yes", "no"}

Default == [ key \in Key |->
    CASE key \in PathKey -> ".hepa"
      [] key = "max_total_rounds" -> "3"
      [] key = "max_repair_rounds" -> "2"
      [] key = "hermes_sync_interval_seconds" -> "30"
      [] key \in SwitchKey -> "yes"
      [] key \in OptionalKey -> "unset"
      [] key = "default_adapter" -> "fake"
      [] key = "pi_model" -> "" ]

Parses(key, text) ==
    /\ key \in CountKey => text \in Count
    /\ key \in SwitchKey => text \in Switch

Parsed(key, text) == IF key \in OptionalKey /\ text \in Empty THEN "unset" ELSE text

Override(config, values) ==
    [key \in Key |-> IF key \in DOMAIN values THEN values[key] ELSE config[key]]

\* apply_values: keys that are not known are passed over.  The result is {} for
\* an error.
Apply(config, values) ==
    LET known == Key \cap DOMAIN values
    IN  IF \A key \in known : Parses(key, values[key])
        THEN {Override(config, [key \in known |-> Parsed(key, values[key])])} ELSE {}

\* parse_dotenv: of the lines that are neither blank nor comments; the last
\* line for a key is the one that counts.
DotenvParses(lines) == \A i \in DOMAIN lines : lines[i].form = "KEY=value"

DotenvValues(lines) ==
    [ key \in {lines[i].key : i \in DOMAIN lines} |->
        LET last == CHOOSE i \in DOMAIN lines :
                        lines[i].key = key /\ \A j \in DOMAIN lines : lines[j].key = key => j <= i
        IN  lines[last].value ]

\* require_single_line, and require_optional_single_line for the model
IsLine(text)       == text \notin Empty \cup TwoLines
IsValid(config) ==
    /\ \A key \in PathKey \cup OptionalKey \cup {"default_adapter"} : IsLine(config[key])
    /\ \A key \in CountKey : config[key] # "0"
    /\ config["pi_model"] \notin TwoLines
    /\ config["default_adapter"] = "pi" => config["pi_model"] \notin Empty

\* load: dotenv is {} or {lines}.
Load(dotenv, environment, overrides) ==
    LET read == IF dotenv = {} THEN {Default}
                ELSE UNION {Apply(Default, DotenvValues(lines)) :
                                lines \in {l \in dotenv : DotenvParses(l)}}
        set  == UNION {Apply(config, environment) : config \in read}
    IN  {config \in {Override(c, overrides) : c \in set} : IsValid(config)}

\* load_from_env_and_dotenv_file: a file that is missing is none; one that
\* cannot be read is an error.
LoadFile(file, environment, overrides) ==
    IF file.state = "unreadable" THEN {}
    ELSE Load(IF file.state = "missing" THEN {} ELSE {file.lines}, environment, overrides)

\* redacted_diagnostics: where things are is not told, nor what is configured
\* in optional values; that they are is.
Diagnostics(config) ==
    [ key \in Key |->
        CASE key \in PathKey -> "<PATH>"
          [] key \in OptionalKey -> IF config[key] = "unset" THEN "not configured" ELSE "configured"
          [] OTHER -> config[key] ]
=============================================================================
