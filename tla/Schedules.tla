----------------------------- MODULE Schedules ------------------------------
(***************************************************************************)
(* The value objects a resource is made of: weekly schedules, pricing      *)
(* rules, attributes and attribute schemas, with the checks their          *)
(* factories and the Resource aggregate make.  Times of day count quarter  *)
(* hours from midnight; intervals are half-open.                           *)
(***************************************************************************)
EXTENDS Naturals, Sequences

CONSTANT Weekdays

\* SlotDuration.ALLOWED, in quarter hours: 30, 45, 60, 90 and 120 minutes.
SlotDurations == {2, 3, 4, 6, 8}

\* TimeWindow.create.
WindowAccepted(w) == w.start < w.end

OnGrid(slot, w) == w.start % slot = 0 /\ (w.end - w.start) % slot = 0

Within(w, o) == o.start <= w.start /\ w.end <= o.end

Overlaps(v, w) == v.start < w.end /\ w.start < v.end

\* WeeklySchedule.create: every window on the grid, each one after the window
\* before it.  A schedule maps a weekday to its sequence of windows.
ScheduleAccepted(slot, hours) ==
  \A d \in Weekdays : \A n \in DOMAIN hours[d] :
    /\ WindowAccepted(hours[d][n]) /\ OnGrid(slot, hours[d][n])
    /\ n > 1 => /\ hours[d][n - 1].start <= hours[d][n].start
                /\ hours[d][n - 1].end <= hours[d][n].start

\* PricingRule.create.
RuleAccepted(rule) == rule.days # {} /\ WindowAccepted(rule.window)

InOpeningHours(hours, rule) ==
  \A d \in rule.days : \E n \in DOMAIN hours[d] : Within(rule.window, hours[d][n])

RulesClash(p, q) == p.days \cap q.days # {} /\ Overlaps(p.window, q.window)

\* Resource._validate_pricing_rules.
RulesAccepted(slot, hours, rules) ==
  \A n \in DOMAIN rules :
    /\ RuleAccepted(rules[n]) /\ OnGrid(slot, rules[n].window)
    /\ InOpeningHours(hours, rules[n])
    /\ \A m \in 1..(n - 1) : ~RulesClash(rules[n], rules[m])

\* Resource._validate_custom_attributes: base attributes map keys to values,
\* custom attributes are a sequence of keys.
AttributesDisjoint(base, customs) ==
  \A n \in DOMAIN customs :
    /\ customs[n] \notin DOMAIN base
    /\ \A m \in 1..(n - 1) : customs[m] # customs[n]

\* An attribute schema is a sequence of definitions [key, type, required, enum];
\* a raw value is [kind, val]; a Python bool is not taken for an int.
ValueFits(def, v) ==
  CASE def.type = "STRING" -> v.kind = "str"
    [] def.type = "INT"    -> v.kind = "int"
    [] def.type = "BOOL"   -> v.kind = "bool"
    [] def.type = "ENUM"   -> v.kind = "str" /\ v.val \in def.enum

KeysDistinct(schema) ==
  \A m, n \in DOMAIN schema : schema[m].key = schema[n].key => m = n

\* AttributeDefinition.create: an ENUM has values, nothing else has.
DefinitionAccepted(def) == def.type = "ENUM" <=> def.enum # {}

SchemaAccepted(schema) ==
  KeysDistinct(schema) /\ \A n \in DOMAIN schema : DefinitionAccepted(schema[n])

\* ResourceType.validate_attributes.
Conforms(schema, base) ==
  /\ \A n \in DOMAIN schema : schema[n].required => schema[n].key \in DOMAIN base
  /\ \A k \in DOMAIN base : \E n \in DOMAIN schema :
       schema[n].key = k /\ ValueFits(schema[n], base[k])

\* The rule that prices a slot starting at time t of day d, as compute_price
\* finds it: the first that matches, else the base price.
Matches(rule, d, t) == d \in rule.days /\ rule.window.start <= t /\ t < rule.window.end

SlotPrice(rules, basePrice, d, t) ==
  IF \E n \in DOMAIN rules : Matches(rules[n], d, t)
  THEN rules[CHOOSE n \in DOMAIN rules :
               /\ Matches(rules[n], d, t)
               /\ \A m \in 1..(n - 1) : ~Matches(rules[m], d, t)].price
  ELSE basePrice

Open(hours, d, t) ==
  \E n \in DOMAIN hours[d] : hours[d][n].start <= t /\ t < hours[d][n].end
=============================================================================
