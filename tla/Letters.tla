--------------------------------- MODULE Letters ---------------------------------
(***************************************************************************)
(* POST /disputes/letters and /disputes/letters/batch: one letter, or up   *)
(* to ten of which those without a variation are given one in turn.  A     *)
(* template is its variation, the placeholders it uses and the number of   *)
(* its citations.                                                          *)
(***************************************************************************)
EXTENDS Integers, Sequences, FiniteSets, Functions

CONSTANTS Batches,     \* the batches that are sent: sequences of letter requests
          NoVariation  \* None

Template(variation, fields, citations) ==
  [variation |-> variation, fields |-> fields, citations |-> citations]
DebtFields == {"account_number", "amount", "consumer_name", "creditor"}
ReportFields == {"account_number", "bureau_name", "consumer_name", "creditor"}

\* letter_templates.py: two or three variations of each kind of letter.
ValidationTemplates ==
  <<Template(1, DebtFields, 2), Template(2, DebtFields, 1), Template(3, DebtFields, 1)>>
InaccuracyTemplates ==
  LET fields == ReportFields \cup {"description"}
  IN  <<Template(1, fields, 2), Template(2, fields, 1), Template(3, fields, 2)>>
CompletenessTemplates ==
  LET fields == ReportFields \cup {"description"}
  IN  <<Template(1, fields, 2), Template(2, fields, 1)>>
ObsoleteTemplates ==
  LET fields == ReportFields \cup {"date"}
  IN  <<Template(1, fields, 1), Template(2, fields, 2), Template(3, fields, 1)>>
IdentityTheftTemplates ==
  LET fields == ReportFields \cup {"amount"}
  IN  <<Template(1, fields, 2), Template(2, fields, 1)>>

TEMPLATES ==
  [validation |-> ValidationTemplates, inaccuracy |-> InaccuracyTemplates,
   completeness |-> CompletenessTemplates, obsolete_item |-> ObsoleteTemplates,
   identity_theft |-> IdentityTheftTemplates]
LetterTypes == DOMAIN TEMPLATES

\* BUREAU_ADDRESSES has an entry for each of the bureaus a request may name.
AddressedBureaus == {"equifax", "experian", "transunion"}

\* LetterRequest: what a request may ask for; the kind and the bureau are enumerations.
LetterRequests ==
  [type : LetterTypes, variation : Int \cup {NoVariation}, bureau : AddressedBureaus,
   name : STRING, description : STRING]

\* A batch has one to ten requests.
ASSUME LettersAssumption ==
  /\ NoVariation \notin Int
  /\ \A b \in Batches : b \in Seq(LetterRequests) /\ Len(b) \in 1 .. 10

\* _build_placeholder_values: every placeholder gets a value, if only "N/A".
PlaceholderValues(r) ==
  [consumer_name |-> r.name, consumer_address |-> "given or empty", creditor |-> "given or N/A",
   account_number |-> "given or N/A", amount |-> "given or 0.00",
   date |-> "reported, first delinquent or N/A", description |-> r.description,
   bureau_name |-> r.bureau, bureau_address |-> r.bureau]

\* get_template: the template of a given variation, or any when none is given.
TemplatesFor(type, variation) ==
  {t \in Range(TEMPLATES[type]) : variation = NoVariation \/ t.variation = variation}

VARIABLES batch,      \* the requests, or one request
          single,     \* the request came to /disputes/letters
          counters,   \* type_counters
          letters,    \* results
          outcome     \* none, sent, or failed: a ValueError ends the request

letterVars == <<batch, single, counters, letters, outcome>>

LettersInit ==
  /\ batch \in Batches /\ single \in {Len(batch) = 1, FALSE}
  /\ counters = [t \in LetterTypes |-> 0] /\ letters = <<>> /\ outcome = "none"

Current == batch[Len(letters) + 1]

\* generate, once the variation is settled; format_map fails on a missing value.
Generate(variation) ==
  \/ /\ \/ TemplatesFor(Current.type, variation) = {}
        \/ \E t \in TemplatesFor(Current.type, variation) :
             ~ t.fields \subseteq DOMAIN PlaceholderValues(Current)
     /\ outcome' = "failed" /\ UNCHANGED letters
  \/ \E t \in TemplatesFor(Current.type, variation) :
       /\ t.fields \subseteq DOMAIN PlaceholderValues(Current)
       /\ letters' = Append(letters, [type |-> Current.type, bureau |-> Current.bureau,
                                      variation |-> t.variation, citations |-> t.citations,
                                      auto |-> Current.variation = NoVariation])
       /\ outcome' = IF Len(letters) + 1 = Len(batch) THEN "sent" ELSE "none"

\* The variation that generate_batch gives to a request without one.
\* Mutant: the number of letters so far decides, whatever their type.
AutoVariationOverall(type) ==
  TEMPLATES[type][1 + (Len(letters) % Len(TEMPLATES[type]))].variation
AutoVariation(type) ==
  TEMPLATES[type][1 + (counters[type] % Len(TEMPLATES[type]))].variation

GenerateSingle ==
  /\ outcome = "none" /\ single
  /\ Generate(Current.variation) /\ UNCHANGED <<batch, single, counters>>

\* One turn of generate_batch: only a request without a variation is counted.
\* Mutant: an invalid variation is skipped, and the rest of the batch is sent.
GenerateNextSkipping ==
  /\ outcome = "none" /\ ~single
  /\ IF Current.variation # NoVariation /\ TemplatesFor(Current.type, Current.variation) = {}
     THEN /\ batch' = SubSeq(batch, 1, Len(letters)) \o SubSeq(batch, Len(letters) + 2, Len(batch))
          /\ outcome' = IF Len(letters) + 1 = Len(batch) THEN "sent" ELSE "none"
          /\ UNCHANGED <<counters, letters>>
     ELSE /\ Generate(IF Current.variation = NoVariation THEN AutoVariation(Current.type)
                      ELSE Current.variation)
          /\ UNCHANGED <<batch, counters>>
  /\ UNCHANGED single
GenerateNext ==
  /\ outcome = "none" /\ ~single
  /\ IF Current.variation = NoVariation
     THEN /\ Generate(AutoVariation(Current.type))
          /\ counters' = [counters EXCEPT ![Current.type] = @ + 1]
     ELSE Generate(Current.variation) /\ UNCHANGED counters
  /\ UNCHANGED <<batch, single>>

LettersNext == GenerateSingle \/ GenerateNext
LettersSpec == LettersInit /\ [][LettersNext]_letterVars
--------------------------------------------------------------------------------
\* A batch is answered whole or not at all: it fails exactly when one of its
\* requests names a variation its kind of letter has not, and a batch that is
\* sent has a letter for every request in the order of the requests, each with
\* the variation asked for; no template meets a placeholder without a value
\* (letter_generator.py, generate_batch).
BatchAllOrNothing ==
  LET Bad(k) == TemplatesFor(batch[k].type, batch[k].variation) = {}
  IN  /\ outcome = "failed" => \E k \in DOMAIN batch : Bad(k)
      /\ outcome = "sent" =>
           /\ Len(letters) = Len(batch) /\ \A k \in DOMAIN batch : ~Bad(k)
           /\ \A k \in DOMAIN batch :
                /\ letters[k].type = batch[k].type
                /\ batch[k].variation # NoVariation => letters[k].variation = batch[k].variation

\* The letters of a kind that were given a variation.
AutoUses(type, v) ==
  {k \in DOMAIN letters : letters[k].type = type /\ letters[k].auto /\ letters[k].variation = v}

\* The letters of one kind that left the choice to the batch use the variations
\* of the kind evenly: no variation is taken twice more than another, so no
\* template comes back before every other one was used.
AutoVariationsSpread ==
  ~single =>
    \A type \in LetterTypes : \A t, u \in Range(TEMPLATES[type]) :
      Cardinality(AutoUses(type, t.variation)) <= Cardinality(AutoUses(type, u.variation)) + 1

\* Batches: all of the letters or none, and as many variations as there are
\* (letter_generator.py, generate_batch).
LettersSound == BatchAllOrNothing /\ AutoVariationsSpread
================================================================================
