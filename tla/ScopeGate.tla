----------------------------- MODULE ScopeGate ------------------------------
(***************************************************************************)
(* Which queries of a catalog may run with the variables an investigation  *)
(* has: required_vars, effective_scope, scope_gate and render of           *)
(* s1engine/catalog.py, as plan() of the engine combines them, and as      *)
(* preview_plan of the server does.                                        *)
(* A query is its declared scope, or "unset", and the placeholders of its  *)
(* body: {{name}}, {{name|}} and {{name|default}}.                         *)
(***************************************************************************)
CONSTANTS
  SubjectVars,   \* SUBJECT_VARS
  PivotVars,     \* PIVOT_VARS
  OtherVars,     \* any other names
  Entity         \* the name "entity"; its value is never empty

ASSUME VariableAssumption ==
  /\ Entity \in SubjectVars
  /\ SubjectVars \cap PivotVars = {}
  /\ (SubjectVars \cup PivotVars) \cap OtherVars = {}

Names == SubjectVars \cup PivotVars \cup OtherVars
Scopes == {"subject", "pivot", "environment", "coverage"}
Query == [scope : Scopes \cup {"unset"},
          body : SUBSET (Names \X {"bare", "blank_default", "default"})]

\* What the user gives for a name: nothing, an empty value or a value.
Variables == [Names -> {"absent", "blank", "given"}]

\* plan: the entity is filled in only when the name is absent.
Provided(vars) ==
  {n \in Names : vars[n] = "given" \/ (n = Entity /\ vars[n] = "absent")}

\* required_vars: an empty default does not count as one.
Required(q) == {o[1] : o \in {p \in q.body : p[2] # "default"}}

\* referenced_subject_vars and referenced_pivot_vars
Referenced(q, names) == {o[1] : o \in q.body} \cap names

\* effective_scope
EffectiveScope(q) ==
  CASE q.scope # "unset" -> q.scope
    [] q.scope = "unset" /\ Referenced(q, SubjectVars) # {} -> "subject"
    [] q.scope = "unset" /\ Referenced(q, SubjectVars) = {}
         /\ Referenced(q, PivotVars) # {} -> "pivot"
    [] OTHER -> "environment"

ScopeVars(scope) == IF scope = "subject" THEN SubjectVars ELSE PivotVars

\* Mutant: plan asks only for the required variables, as the preview does.
GateForgotten(q, vars) == TRUE

\* scope_gate: a subject or pivot query needs a value for one of the variables
\* of its scope that its body has.
Gate(q, vars) ==
  EffectiveScope(q) \in {"subject", "pivot"} =>
    Referenced(q, ScopeVars(EffectiveScope(q))) \cap Provided(vars) # {}

\* plan: otherwise the query gets no jobs.
Runnable(q, vars) == Required(q) \subseteq Provided(vars) /\ Gate(q, vars)

\* render: the names whose value is in the text of the jobs; the others stand
\* by their default.
Render(q, vars) == Referenced(q, Provided(vars))

\* Mutant: the preview does not count the entity as given.
PreviewedWithoutEntity(q, vars) == Required(q) \subseteq {n \in Names : vars[n] = "given"}

\* preview_plan: the entity always counts as given, and no gate is asked.
Previewed(q, vars) == Required(q) \subseteq {Entity} \cup {n \in Names : vars[n] = "given"}
=============================================================================
