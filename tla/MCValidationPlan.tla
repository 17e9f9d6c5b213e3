-------------------------- MODULE MCValidationPlan --------------------------
EXTENDS ValidationPlan, TLC
CONSTANTS a, b, code, doc, note, task, test, build, lint, check
MCOwn == (a :> {code, doc}) @@ (b :> {note})
MCPathOf == (code :> "src") @@ (doc :> "docs") @@ (note :> "docs") @@ (task :> "tasks")
MCTiers ==
  <<[name |-> "docs", paths |-> {"docs"}, source |-> {lint}, integration |-> {}, reuse |-> FALSE],
    [name |-> "tasks", paths |-> {"tasks"}, source |-> {check}, integration |-> {check}, reuse |-> TRUE],
    [name |-> "texts", paths |-> {"docs", "tasks"}, source |-> {lint, check}, integration |-> {check}, reuse |-> FALSE]>>
(* Up to two commands fail, each on trees that show certain one or two changes. *)
MCFailures ==
  LET bad == {{x, y} : x, y \in {code, doc, note, task}}
      never == [c \in {test, build, lint, check} |-> Nothing]
  IN {[never EXCEPT ![c] = x, ![d] = y] : c, d \in {test, build, lint, check}, x, y \in bad}
===============================================================================
