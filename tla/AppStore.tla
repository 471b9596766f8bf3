------------------------------ MODULE AppStore ------------------------------
(* plugin_demo, the application store: install_app renders the compose      *)
(* template of a catalogue entry with the user's values and appends an      *)
(* installation record.  A template is a sequence of placeholders (the text *)
(* between them is left out); a value that spells a placeholder is the      *)
(* token [ph |-> key] itself, as it is for a textual replacement.           *)
EXTENDS Integers, Sequences, SequencesExt, FiniteSets

CONSTANTS Name,          \* instance names that are asked for
          MaxInstalled   \* bound

VARIABLE installed

empty == ""     \* String::new()

ph(k) == [ph |-> k]
text(v) == [text |-> v]

param(k, d) == [key |-> k, default |-> d, required |-> FALSE]
needed(k) == [key |-> k, default |-> empty, required |-> TRUE]

catalog ==
  [postgres |->
     [compose_template |-> <<ph("instance"), ph("password"), ph("db"),
                            ph("port"), ph("instance"), ph("instance")>>,
      params |-> <<param("instance", "pg"), needed("password"),
                  param("db", "app"), param("port", "5432")>>],
   static_site |->
     [compose_template |-> <<ph("instance"), ph("port"), ph("webroot")>>,
      params |-> <<param("instance", "site"), param("port", "8080"),
                  needed("webroot")>>]]

Declared(m) == {m.params[i].key : i \in DOMAIN m.params}
placeholders(m) == {m.compose_template[i].ph : i \in DOMAIN m.compose_template}

(* What a user may type: plain text, nothing, a line break, or a            *)
(* placeholder.                                                             *)
Value == {text("x"), text(empty), text("newline"), ph("port")}

validate_value_lax(v) == v # text("newline")   \* mutant: delimiters pass
validate_value(v) == v # text("newline") /\ "ph" \notin DOMAIN v

(* values.get(key).or(default). *)
ValueOf(p, values) ==
  IF p.key \in DOMAIN values THEN values[p.key] ELSE text(p.default)

(* out.replace for one parameter after another. *)
Substitute(out, p, values) ==
  [i \in DOMAIN out |-> IF out[i] = ph(p.key) THEN ValueOf(p, values) ELSE out[i]]

(* out[n] is the text after the first n parameters. *)
render_compose(m, values) ==
  LET out[n \in 0..Len(m.params)] ==
        IF n = 0 THEN m.compose_template
        ELSE Substitute(out[n - 1], m.params[n], values)
  IN out[Len(m.params)]

Renders(m, values) ==
  /\ placeholders(m) \subseteq Declared(m)
  /\ DOMAIN values \subseteq Declared(m)
  /\ \A i \in DOMAIN m.params :
       /\ m.params[i].required => m.params[i].key \in DOMAIN values
       /\ validate_value(ValueOf(m.params[i], values))

AInit == installed = <<>>

(* InstalledApp, with the compose text that its request was answered.       *)
record(id, instance_name, values, compose) ==
  installed' = Append(installed,
    [app_id |-> id, instance_name |-> instance_name, values |-> values,
     compose |-> compose])

(* POST /apps/{id}/install; a refused request changes nothing. *)
install_app(id, instance_name, values) ==
  /\ Renders(catalog[id], values)
  /\ record(id, instance_name, values, render_compose(catalog[id], values))

Requests(id) ==
  UNION {[K -> Value] :
           K \in SUBSET (Declared(catalog[id]) \union {"privileged"})}

ANext ==
  /\ Len(installed) < MaxInstalled
  /\ \E id \in DOMAIN catalog, n \in Name :
       \E values \in Requests(id) : install_app(id, n, values)

ASpec == AInit /\ [][ANext]_installed

(* What was rendered is the template with, for each of its placeholders,    *)
(* what the user typed there or else the default: nothing is left over, no  *)
(* value is expanded a second time, none breaks the line, and none is empty *)
(* unless the user left it empty.                                           *)
RenderedAsTyped ==
  \A i \in DOMAIN installed :
    LET r == installed[i]
        m == catalog[r.app_id]
    IN \A j \in DOMAIN m.compose_template : \E p \in Range(m.params) :
         /\ m.compose_template[j] = ph(p.key)
         /\ r.compose[j] =
               IF p.key \in DOMAIN r.values
                 THEN r.values[p.key] ELSE text(p.default)
         /\ r.compose[j] # text("newline")
         /\ r.compose[j] = text(empty) => p.key \in DOMAIN r.values
=============================================================================
