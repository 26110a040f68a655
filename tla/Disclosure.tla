------------------------------ MODULE Disclosure ------------------------------
(***************************************************************************)
(* What is kept from whom (hepa-core: redaction.rs, env_allowlist.rs): the *)
(* redaction of a line of text before it is stored, and the environment of *)
(* an adapter.  A line is [key, words]: what the text before its first = or *)
(* : says, if there is one, and the words between its spaces ("" between   *)
(* two spaces in a row).                                                   *)
(***************************************************************************)
EXTENDS Naturals, Sequences

LineKey == {"none", "plain", "secret"}
Word    == {"", "plain", "bearer", "a token", "<redacted>"}

\* redact_tokens: the first word behind a bearer, and what looks like a token.
\* A bearer behind a bearer is redacted like any word.
RedactWords(words) ==
    LET after[i \in 0..Len(words)] ==       \* is a bearer waiting for its word
            IF i = 0 THEN FALSE
            ELSE IF after[i - 1] THEN words[i] = ""
            ELSE words[i] = "bearer"
    IN  [i \in DOMAIN words |->
            IF (after[i - 1] /\ words[i] # "") \/ words[i] = "a token" THEN "<redacted>"
            ELSE words[i]]

\* redact_line: what follows a secret key goes altogether.
RedactLine(line) ==
    IF line.key = "secret" THEN [line EXCEPT !.words = <<"<redacted>">>]
    ELSE [line EXCEPT !.words = RedactWords(@)]

\* redact_secrets
RedactSecrets(lines) == [i \in DOMAIN lines |-> RedactLine(lines[i])]
-----------------------------------------------------------------------------
EnvRole == {"manager", "worker", "reviewer"}

BaseEnv        == {"PATH", "HOME", "LANG", "TERM", "TMPDIR", "TZ"}
ManagerOnlyEnv == {"GITHUB_TOKEN", "GH_TOKEN", "HEPA_GITHUB_TOKEN"}

\* HepaEnvAllowlist::is_allowed: what an adapter declares does not get it a
\* credential of the manager's.
IsAllowed(key, role, declared) ==
    IF key \in ManagerOnlyEnv THEN role = "manager" ELSE key \in BaseEnv \cup declared

\* filter
Filtered(environment, role, declared) == {key \in environment : IsAllowed(key, role, declared)}
=============================================================================
