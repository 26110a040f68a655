------------------------------- MODULE Adapters -------------------------------
(***************************************************************************)
(* The adapters a lane's worker and reviewers are launched through: what a *)
(* specification has to be, how its command is made, the registry they are *)
(* kept in and how one of them is chosen (crates/hepa-adapters: spec.rs,   *)
(* builtin.rs, the templates, registry.rs, routing.rs, design_pipeline.rs, *)
(* version_pinning.rs, container.rs).                                      *)
(*                                                                         *)
(* Names and texts are values; the classes of texts the code tells apart   *)
(* have one member each: NotPlain, SecretWord, ManagerCredential.  An      *)
(* absent option is {}, and an operator that may fail returns {} as well.  *)
(***************************************************************************)
EXTENDS Naturals, Sequences, FiniteSets

Role      == {"worker", "reviewer"}
Mode      == {"oneshot", "interactive", "external"}
Sandbox   == {"none", "agent-native", "container"}
CostClass == {"paid-cloud", "free-tier", "local"}

NotPlain          == {"", "two lines"}   \* blank, or of more than one line
SecretWord        == {"a token"}
ManagerCredential == {"GITHUB_TOKEN", "HEPA_MANAGER_KEY", "MANAGER_KEY"}

ArePlain(texts) == texts \cap NotPlain = {}

Placeholder == {"artifact_dir", "output_file", "prompt_file",
                "review_output_file", "review_prompt_file", "worktree"}
-----------------------------------------------------------------------------
(* Command templates: sequences of words and braces.                       *)

\* The place of the first such brace from i on, 0 if there is none.
FirstBrace(template, brace, i) ==
    LET at == {j \in i..Len(template) : template[j] = brace}
    IN  IF at = {} THEN 0 ELSE CHOOSE j \in at : \A k \in at : j <= k

\* render_command_template.  Only what follows the last placeholder is
\* searched for a closing brace without an opening one.
Render(template, context) ==
    LET render[i \in 1..(Len(template) + 1)] ==
            LET open  == FirstBrace(template, "{", i)
                close == FirstBrace(template, "}", open + 1)
            IN  IF open = 0
                THEN IF FirstBrace(template, "}", i) = 0
                     THEN {SubSeq(template, i, Len(template))} ELSE {}
                ELSE IF close = open + 2 /\ template[open + 1] \in Placeholder
                THEN {SubSeq(template, i, open - 1) \o <<context[template[open + 1]]>> \o rest :
                          rest \in render[close + 1]}
                ELSE {}
    IN  render[1]

\* validate_template_placeholders
TemplateIsValid(template) == Render(template, [name \in Placeholder |-> name]) # {}

WordsOf(template) == {template[i] : i \in DOMAIN template}

\* A command or a directory: some text, no secret in it, placeholders known.
CommandIsValid(template) ==
    /\ template # <<>>
    /\ WordsOf(template) \cap SecretWord = {}
    /\ TemplateIsValid(template)

\* HepaAdapterSpec::validate.  Roles and capabilities need not fit anything.
SpecIsValid(spec) ==
    /\ spec.schema_version = 1
    /\ ArePlain({spec.id} \cup spec.capabilities \cup spec.required_commands \cup spec.required_env)
    /\ spec.display_name # ""
    /\ spec.roles # {}
    /\ CommandIsValid(spec.command)
    /\ \A command \in spec.review_command : CommandIsValid(command)
    /\ CommandIsValid(spec.workdir)
    /\ spec.required_commands \cap SecretWord = {}
    /\ spec.required_env \cap ManagerCredential = {}
    /\ spec.resource_weight > 0
    /\ spec.max_concurrency > 0
-----------------------------------------------------------------------------
(* The built-in specifications and the templates for new ones.             *)

WorkerCommand == << "--prompt-file", "{", "prompt_file", "}", "--worktree", "{", "worktree", "}",
                    "--artifact-dir", "{", "artifact_dir", "}",
                    "--json-output", "{", "output_file", "}" >>
ReviewCommand == << "--review", "--prompt-file", "{", "review_prompt_file", "}",
                    "--worktree", "{", "worktree", "}", "--artifact-dir", "{", "artifact_dir", "}",
                    "--json-output", "{", "review_output_file", "}" >>
ShortWorkerCommand == << "worker", "--prompt-file", "{", "prompt_file", "}",
                         "--json-output", "{", "output_file", "}" >>
ShortReviewCommand == << "reviewer", "--prompt-file", "{", "review_prompt_file", "}",
                         "--json-output", "{", "review_output_file", "}" >>

\* spec(AdapterSpecTemplate): what the built-in specifications share.  The
\* program of an adapter goes by the adapter's id.
Template(id, roles, capabilities, cost, concurrency) ==
    [ schema_version |-> 1, id |-> id, display_name |-> id, roles |-> roles,
      mode |-> "oneshot", command |-> <<id>> \o WorkerCommand,
      review_command |-> IF "reviewer" \in roles THEN {<<id>> \o ReviewCommand} ELSE {},
      workdir |-> <<"{", "worktree", "}">>, required_commands |-> {id}, required_env |-> {},
      sandbox |-> "agent-native", supports_resume |-> TRUE, capabilities |-> capabilities,
      cost_class |-> cost, resource_weight |-> 1, max_concurrency |-> concurrency,
      prompt_transport |-> "prompt-file", output_capture |-> "adapter-file" ]

BuiltinIds == {"pi", "fake", "shell-command", "custom", "user-worker", "user-reviewer",
               "local-worker", "aider-local", "opencode-local", "external-worker"}

PiCommand(provider, model) == <<"pi", "--mode", "json", "--provider", provider, "--model", model>>

Coding == {"frontend", "backend", "refactor", "docs"}

\* builtin_adapter_spec; an id it does not know gets a worker of its own.
BuiltinSpec(id) ==
    CASE id = "fake" ->
           [Template(id, Role, {"design", "docs", "test", "review"}, "local", 64)
               EXCEPT !.command = <<id>> \o ShortWorkerCommand,
                      !.review_command = {<<id>> \o ShortReviewCommand},
                      !.required_commands = {}, !.sandbox = "none", !.supports_resume = FALSE]
      [] id = "pi" ->
           [Template(id, Role, Coding \cup {"design", "review", "local-only"}, "local", 2)
               EXCEPT !.command = PiCommand("<provider>", "<model>"),
                      !.review_command = {PiCommand("<provider>", "<model>")},
                      !.required_env = {"HEPA_PI_MODEL"}, !.sandbox = "none",
                      !.prompt_transport = "stdin", !.output_capture = "stdout"]
      [] id = "shell-command" ->
           [Template(id, {"worker"}, {"format", "codegen", "design", "docs"}, "local", 4)
               EXCEPT !.supports_resume = FALSE]
      [] id = "custom" -> Template(id, Role, Coding \cup {"design", "review"}, "paid-cloud", 2)
      [] id = "user-worker" -> Template(id, {"worker"}, Coding \cup {"design"}, "paid-cloud", 2)
      [] id = "user-reviewer" -> Template(id, {"reviewer"}, {"review"}, "paid-cloud", 3)
      [] id = "local-worker" ->
           Template(id, Role, Coding \cup {"design", "review", "local-only"}, "local", 4)
      [] id = "aider-local" ->
           [Template(id, Role, Coding \cup {"test", "review", "local-only"}, "local", 2)
               EXCEPT !.resource_weight = 2]
      [] id = "opencode-local" ->
           [Template(id, Role, Coding \cup {"design", "review", "local-only"}, "local", 2)
               EXCEPT !.resource_weight = 2]
      [] id = "external-worker" ->
           [Template(id, {"worker"}, {"external", "status"}, "paid-cloud", 8)
               EXCEPT !.mode = "external", !.sandbox = "none"]
      [] OTHER ->
           [Template(id, {"worker"}, {"docs"}, "local", 1)
               EXCEPT !.command = <<id>> \o ShortWorkerCommand, !.supports_resume = FALSE]

BuiltinSpecs == [id \in BuiltinIds |-> BuiltinSpec(id)]

\* into_spec of every template: the specification, if it validates.
IntoSpec(spec) == IF SpecIsValid(spec) THEN {spec} ELSE {}

\* Every field is the caller's.
CustomSpec(fields) ==
    IntoSpec([fields EXCEPT !.schema_version = 1, !.prompt_transport = "prompt-file",
                            !.output_capture = "adapter-file"])

\* The other templates take a command and a limit, and settle the rest.
FromTemplate(spec, command, required, limit) ==
    [spec EXCEPT !.command = command, !.required_commands = required, !.max_concurrency = limit]

LocalWorkerSpec(id, command, review, required, capabilities, limit) ==
    IntoSpec([FromTemplate(Template(id, Role, capabilities, "local", 1), command, required, limit)
                 EXCEPT !.review_command = {review}])

UserWorkerSpec(id, command, required, env, capabilities, limit) ==
    IntoSpec([FromTemplate(Template(id, {"worker"}, capabilities, "paid-cloud", 1),
                           command, required, limit)
                 EXCEPT !.required_env = env])

\* The one command serves as worker command, too.
UserReviewerSpec(id, command, required, env, limit) ==
    IntoSpec([FromTemplate(Template(id, {"reviewer"}, {"review"}, "paid-cloud", 1),
                           command, required, limit)
                 EXCEPT !.review_command = {command}, !.required_env = env])

ExternalWorkerSpec(id, command, required, env, limit) ==
    IntoSpec([FromTemplate(Template(id, {"worker"}, {"external", "status"}, "paid-cloud", 1),
                           command, required, limit)
                 EXCEPT !.mode = "external", !.sandbox = "none", !.required_env = env])
-----------------------------------------------------------------------------
(* The pi adapter of a configuration (pi.rs).  A model is the text before  *)
(* its first slash and the text after it, "" if there is no slash; a base  *)
(* URL is a set of facts about it.                                         *)

KeyedProvider == {"deepseek", "openai", "anthropic", "google", "gemini", "openrouter"}
LocalProvider == {"ollama", "vllm", "local", "llama-cpp", "llamacpp", "mlx", "mlx-lm"}

\* split_provider_model
Provider(model) == IF model.first # "" /\ model.rest # "" THEN model.first ELSE "provider"
ModelName(model) == IF model.first # "" /\ model.rest # "" THEN model.rest ELSE model.first

\* env_key_for_model: looks at the text before the slash, slash or not.  A key
\* goes by the name of its provider.
KeyFor(model) == KeyedProvider \cap {model.first}

\* The key a configuration names, or the one its worker's or else its
\* reviewer's model needs.
PiKey(pi) ==
    LET review == UNION {KeyFor(model) : model \in pi.review_model}
    IN  IF pi.provider_key_env # {} THEN pi.provider_key_env
        ELSE IF KeyFor(pi.model) # {} THEN KeyFor(pi.model) ELSE review

\* HepaPiModelConfig::cost_class: without a key nothing counts as paid (so the
\* test for a loopback server without a key makes no difference).
PiCostClass(pi) ==
    LET reviewer == IF pi.review_model = {} THEN {pi.model} ELSE pi.review_model
        isLocal(model) == Provider(model) \in LocalProvider
    IN  IF /\ PiKey(pi) # {}
           /\ ~isLocal(pi.model) \/ \E model \in reviewer : ~isLocal(model)
        THEN "paid-cloud" ELSE "local"

\* adapter_spec_from_config
PiSpec(pi) ==
    IF pi.model.first = "" /\ pi.model.rest = "" THEN BuiltinSpec("pi")
    ELSE LET reviewer == IF pi.review_model = {} THEN {pi.model} ELSE pi.review_model
         IN  [BuiltinSpec("pi") EXCEPT
                 !.command = PiCommand(Provider(pi.model), ModelName(pi.model)),
                 !.review_command = {PiCommand(Provider(m), ModelName(m)) : m \in reviewer},
                 !.required_env = PiKey(pi) \cup {"HEPA_PI_BASE_URL" : url \in pi.base_url},
                 !.cost_class = PiCostClass(pi)]

\* local_route_diagnostic_from_config of model_config_from_env: whether the
\* route can edit files.  Here a model without a slash is its own provider.
PiRoute(pi) ==
    LET reviewer == IF pi.review_model = {} THEN {pi.model} ELSE pi.review_model
        provider == pi.model.first
        someLocal == \E model \in reviewer \cup {pi.model} :
                         model.first \in LocalProvider \/ "loopback" \in pi.base_url
    IN  CASE provider = "" -> "not_configured"
          [] provider # "" /\ ~someLocal -> "cloud"
          [] provider # "" /\ someLocal ->
               IF provider = "local" /\ (pi.model.rest = "mlx-community" \/ "exo" \in pi.base_url)
               THEN "unsupported"
               ELSE IF provider \in {"llama-cpp", "llamacpp", "ollama", "vllm"}
               THEN "ready" ELSE "unverified"
-----------------------------------------------------------------------------
(* The registry: a document in memory, loaded from a file and saved to it. *)

DocumentIsValid(document) ==
    /\ document.schema_version = 1
    /\ \A id \in DOMAIN document.adapters :
           document.adapters[id].id = id /\ SpecIsValid(document.adapters[id])

\* A file is {} when it is missing and {document} when it parses; one that
\* does not parse is {[schema_version |-> 0, adapters |-> <<>>]} here.
Load(file) ==
    IF file = {} THEN {[schema_version |-> 1, adapters |-> BuiltinSpecs]}
    ELSE {document \in file : DocumentIsValid(document)}

Insert(document, id, spec) ==
    [document EXCEPT !.adapters = [other \in DOMAIN @ \cup {id} |->
                                      IF other = id THEN spec ELSE @[other]]]

\* load_from_config: pi is always the one the configuration describes.
LoadFromConfig(file, pi) ==
    {document \in {Insert(loaded, "pi", PiSpec(pi)) : loaded \in Load(file)} :
        DocumentIsValid(document)}

Upsert(document, spec) ==
    {Insert(document, spec.id, spec) : valid \in IntoSpec(spec)}

Remove(document, id) ==
    IF id \in DOMAIN document.adapters
    THEN {[document EXCEPT !.adapters = [other \in DOMAIN @ \ {id} |-> @[other]]]}
    ELSE {}

\* save: through a temporary file, so the file is the old or the new document.
Save(document, file) == IF DocumentIsValid(document) THEN {document} ELSE file
-----------------------------------------------------------------------------
(* Routing.  A policy names adapters, a request may name one itself.       *)

FanoutIsValid(fanout) ==
    /\ fanout.adapters # <<>>
    /\ ArePlain(WordsOf(fanout.adapters))
    /\ \A required \in fanout.at_least : required > 0 /\ required <= Len(fanout.adapters)

PolicyIsPlain(policy) ==
    /\ policy.schema_version = 1
    /\ ArePlain({policy.project_id, policy.default})
    /\ ArePlain(DOMAIN policy.routes \cup {policy.routes[c] : c \in DOMAIN policy.routes})
    /\ FanoutIsValid(policy.review_fanout)

\* require_adapter_allowed.  Nobody asks for the role.
AdapterAllowed(id, policy, specs) ==
    /\ id \in DOMAIN specs
    /\ SpecIsValid(specs[id])
    /\ policy.project_policy = "local-only" => specs[id].cost_class = "local"

\* validate_against_adapters: every adapter the policy names is allowed.
PolicyIsValid(policy, specs) ==
    /\ PolicyIsPlain(policy)
    /\ AdapterAllowed(policy.default, policy, specs)
    /\ \A c \in DOMAIN policy.routes : AdapterAllowed(policy.routes[c], policy, specs)
    /\ \A i \in DOMAIN policy.review_fanout.adapters :
           AdapterAllowed(policy.review_fanout.adapters[i], policy, specs)

\* resolve_adapter, and resolve_adapter_spec behind it.  A capability is a
\* name and whether there are blanks around it; blank counts as none.
Resolve(policy, capability) ==
    IF \A asked \in capability : asked.name = "" THEN {policy.default}
    ELSE {policy.routes[c] : c \in {c \in DOMAIN policy.routes :
                                        \E asked \in capability : asked.name = c}}

ResolveSpec(policy, capability, specs) ==
    IF PolicyIsValid(policy, specs) THEN {specs[id] : id \in Resolve(policy, capability)} ELSE {}

RequestIsValid(request) ==
    /\ ArePlain({request.task_id, request.lane_id})
    /\ \A asked \in request.capability : asked.name \notin NotPlain
    /\ \A override \in request.manager_override : ArePlain({override.adapter_id, override.reason})

\* decide_adapter: the manager's choice goes before the policy's.
Decide(policy, request, specs) ==
    IF ~PolicyIsValid(policy, specs) \/ ~RequestIsValid(request) THEN {}
    ELSE IF request.manager_override # {}
    THEN {[selected |-> override.adapter_id, source |-> "manager_override"] :
             override \in {o \in request.manager_override :
                              AdapterAllowed(o.adapter_id, policy, specs)}}
    ELSE {[selected |-> id,
           source   |-> IF request.capability = {} THEN "default" ELSE "capability"] :
             id \in Resolve(policy, request.capability)}

\* require_worker_capability compares with the capability as it was written.
WorksAs(id, asked, specs) ==
    /\ "worker" \in specs[id].roles
    /\ ~asked.padded /\ asked.name \in specs[id].capabilities

\* plan_design_spec_pipeline: one adapter designs, one implements.
DesignPlan(policy, request, specs) ==
    LET ask(capability, override) ==
            Decide(policy, [ task_id |-> request.task_id, lane_id |-> request.lane_id,
                             capability |-> {capability}, manager_override |-> override ], specs)
    IN  IF \/ ~ArePlain({request.task_id, request.lane_id, request.design.name,
                         request.implementation.name, request.artifact_ref})
           \/ request.artifact_ref \in {"/absolute", "../above"}
        THEN {}
        ELSE {plan \in {[design |-> d.selected, implementation |-> i.selected] :
                           d \in ask(request.design, request.design_override),
                           i \in ask(request.implementation, request.implementation_override)} :
                 /\ WorksAs(plan.design, request.design, specs)
                 /\ WorksAs(plan.implementation, request.implementation, specs)}

\* HepaDesignSpecArtifact::validate
DesignIsValid(artifact) ==
    /\ artifact.schema_version = 1
    /\ ArePlain({artifact.task_id, artifact.lane_id, artifact.adapter_id} \cup artifact.notes)
    /\ {artifact.html, artifact.css} \cap {"", "<script"} = {}
-----------------------------------------------------------------------------
(* Versions and sandboxes.                                                 *)

\* with_builtins, and pin: a later pin of the version replaces an earlier one.
BuiltinPins == [pair \in BuiltinIds \X {"1.0.0"} |-> BuiltinSpec(pair[1]).command]

Pin(pins, id, version, template) ==
    [pair \in DOMAIN pins \cup {<<id, version>>} |->
        IF pair = <<id, version>> THEN template ELSE pins[pair]]

\* warn_if_untested and detect_flag_drift
FlagDrift(pins, id, version, command) ==
    IF <<id, version>> \notin DOMAIN pins THEN "untested_version"
    ELSE IF pins[<<id, version>>] # command THEN "flag_drift" ELSE "none"

\* classify_adapter_output
OutputParses(output, required) == output.isObject /\ required \subseteq output.fields

\* resolve_sandbox_posture; what run_live_task writes down is the posture of
\* a trusted project and no sandbox, whatever the adapter.
SandboxPosture(sandbox, trusted) ==
    IF ~trusted THEN "container"
    ELSE IF sandbox = "none" THEN "host-worktree" ELSE sandbox

BypassFlag == {"--privileged", "--cap-add=all", "--dangerously-skip-permissions", "--yolo",
               "--no-sandbox", "--disable-sandbox", "--allow-all"}

BypassFlags(command) == WordsOf(command) \cap BypassFlag

\* compose_container_command: the inner command is quoted, not looked at.
ContainerCommand(image, worktree, inner) ==
    <<"docker", "run", "--rm", "--network", "none", worktree, image, "/bin/sh", "-lc">> \o inner
=============================================================================
