-------------------------- MODULE MCValidateRunner --------------------------
(* A short chain with every kind of step validate.mjs tells apart: exclusive *)
(* steps, two that share the git key, and a lone read-only step.             *)
EXTENDS ValidateRunner

S(n, c) == [name |-> n, command |-> c]
GateNames == {"format", "provenance", "prompts", "licenses", "migrations", "perf",
              "docs", "custom"}

Canonical ==
  << S("format", "gate"), S("provenance", "gate"), S("prompts", "gate"),
     S("licenses", "gate"), S("migrations", "gate"), S("perf", "gate"), S("docs", "gate") >>

\* An edited config: a gate dropped, one made hollow, the order changed, and
\* a step of the project's own.
Edited ==
  << S("provenance", "true"), S("migrations", "gate"), S("docs", "true"),
     S("custom", "gate") >>

TwoConfigs == {Canonical, Edited}
SafeNames == {"provenance", "prompts", "licenses", "migrations", "docs"}
GitUsers == [n \in {"provenance", "migrations"} |-> "git"]
=============================================================================
