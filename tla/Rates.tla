------------------------------- MODULE Rates -------------------------------
(***************************************************************************)
(* What a token costs.  Operators publish versions of a rate document, row *)
(* by row, then its manifest, then a pointer; every worker merges the      *)
(* document that the pointer names over the table of a price source over   *)
(* the bundled floor, and keeps the result for a while.  A request freezes *)
(* one rate from it, reserves a bound that is priced at that rate, and is  *)
(* charged at that rate for what the provider says it used.                *)
(*                                                                         *)
(* A document is a function from pricing keys to rates, a rate a function  *)
(* from the four billable legs to micro-dollars per MTok tokens.           *)
(***************************************************************************)
EXTENDS Integers, FiniteSets, FiniteSetsExt, Functions, TLC

CONSTANTS
  None,          \* no version, no manifest, no table
  Keys,          \* pricing keys that documents price
  Asked,         \* pricing keys that requests are priced by
  Default,       \* the key that prices every key without a rate
  VllmKeys,      \* keys that a self-hosted model uses
  Floor,         \* the bundled table
  Sources,       \* the tables that the price source may hold
  Versions,      \* names of published documents
  Documents,     \* the documents that operators publish
  Publishers,    \* operators' calls of set_rates in flight
  Workers,       \* processes, each with its caches
  Requests,      \* requests in flight
  WorkerOf,      \* the worker that serves each of them
  Payloads,      \* what is sent: [protocol, bytes, blocks, unsent, estimate], where unsent is the tokens
                 \* that the provider adds: of a conversation that it holds, of what its own tools
                 \* find; a block that is not text is [kind, format, inline, nested (in a tool's
                 \* result), pixels]
  Settings,      \* how a tenant is bounded: [pool (it has one), gate, measuring]
  MaxOutput,     \* tokens that a request lets the provider write
  MTok,          \* tokens that a rate is the price of
  PixelsPerToken,
  MaxPublications \* bound: calls of set_rates, and removals of the pointer

BUILTIN_VERSION == "builtin"
PRICE_SOURCE_SENTINEL == "price-source"
INPUT_SIDE == {"input", "cache_read", "cache_write"}
BILLABLE_LEGS == INPUT_SIDE \cup {"output"}

ASSUME RatesAssumption ==
  /\ Default \in DOMAIN Floor /\ MTok \in Nat \ {0} /\ PixelsPerToken \in Nat \ {0}
  /\ \A table \in Documents \cup Sources \cup {Floor} : \A key \in DOMAIN table :
       table[key] \in [BILLABLE_LEGS -> Nat]
  /\ Versions \cap {BUILTIN_VERSION, PRICE_SOURCE_SENTINEL, None} = {}

(***************************************************************************)
(* Arithmetic: costs are rounded up, leg by leg.                           *)
(***************************************************************************)
mtok_cost(tokens, rate) == (tokens * rate + MTok - 1) \div MTok
worst_rate_in_group(rate, group) == Max({rate[leg] : leg \in group})

\* The slack is left out: what one sum rounds to is taken for what its parts round to.
rounding_slackM(group, tokens) == 0

\* One rounding is in the bound itself; every further leg with a token may round up once more.
rounding_slack(group, tokens) ==
  Max({Min({Cardinality(group), tokens}) - 1, 0})

(***************************************************************************)
(* The survey of a payload before it is sent: what its blocks may cost     *)
(* beside the bytes, if that can be told.  Each protocol has its own.      *)
(***************************************************************************)
Formats == {"png", "gif", "jpeg", "webp"}
image_dimensions(block) == IF block.format \in Formats THEN block.pixels ELSE None
inline_dimensions(block) == IF block.inline THEN image_dimensions(block) ELSE None

\* Responses takes no image and no file, but does not look for them in the result of a tool.
validate_input(payload) ==
  payload.protocol = "responses" => \A i \in DOMAIN payload.blocks : payload.blocks[i].nested

\* Converse carries bytes only, and its walk enters the result of a tool.
survey_converse(block) == IF block.kind = "image" THEN image_dimensions(block) ELSE 0
\* Of an image by address the size is not known; any other kind of part is not looked at.
survey_openai_chat(block) == IF block.kind = "image" THEN inline_dimensions(block) ELSE 0
\* Nor is that of a file.  The result of a tool is text here, or is not looked at.
survey_openai_responses(block) ==
  CASE block.nested -> 0 [] block.kind = "image" -> inline_dimensions(block)
    [] block.kind = "file" -> None [] OTHER -> 0

survey(payload) == [i \in DOMAIN payload.blocks |->
  CASE payload.protocol = "converse" -> survey_converse(payload.blocks[i])
    [] payload.protocol = "chat" -> survey_openai_chat(payload.blocks[i])
    [] OTHER -> survey_openai_responses(payload.blocks[i])]

image_token_bound(pixels) == (pixels + PixelsPerToken - 1) \div PixelsPerToken

\* What cannot be told is nothing.
assess_boundability(payload) == None \notin Range(survey(payload))
extra_input_tokens(payload) == LET pixels == survey(payload) IN
  MapThenSumSet(LAMBDA i : IF pixels[i] = None THEN 0 ELSE image_token_bound(pixels[i]), DOMAIN pixels)

reservation_for(rate, tokens) ==
  mtok_cost(tokens, worst_rate_in_group(rate, INPUT_SIDE)) + mtok_cost(MaxOutput, rate["output"])
  + rounding_slack(INPUT_SIDE, tokens) + rounding_slack({"output"}, MaxOutput)

\* The bound: every byte of the envelope may be a token of the dearest input leg.
strict_reservation(rate, payload) == reservation_for(rate, payload.bytes + extra_input_tokens(payload))
\* The estimate is priced the same way, from a guess at the tokens.
estimate_cost_from_rates(rate, payload) == reservation_for(rate, payload.estimate)

rate_usage(rate, usage) == LET cost(leg) == mtok_cost(usage[leg], rate[leg]) IN
  cost("input") + cost("output") + cost("cache_read") + cost("cache_write")

\* What a provider may count: the input legs share the prompt out between them.  It may
\* write more than it was allowed.
Usages == [payload \in Payloads |->
  LET seen == MapThenSumSet(LAMBDA i : image_token_bound(payload.blocks[i].pixels), DOMAIN payload.blocks)
      tokens == payload.bytes + seen + payload.unsent
  IN  {usage \in [BILLABLE_LEGS -> 0 .. Max({tokens, MaxOutput + 1})] :
         usage["output"] <= MaxOutput + 1 /\ MapThenSumSet(LAMBDA leg : usage[leg], INPUT_SIDE) <= tokens}]

(***************************************************************************)
(* State.                                                                  *)
(***************************************************************************)
VARIABLES
  rows,      \* the rows that are stored, by version
  manifest,  \* the number of rows of each version, once that is stored
  current,   \* the version that the pointer names
  calls,     \* set_rates, by publisher
  published, \* how often it was called
  source,    \* the table that the price source holds
  cache,     \* the rates that a worker charges, and what they are merged from
  frozen,    \* rows that a worker has read and keeps for good: <<version, key>> -> rate
  request    \* requests in flight

vars == <<rows, manifest, current, calls, published, source, cache, frozen, request>>
documents == <<rows, manifest, current, calls, published>>

NoCall == [at |-> "idle"]
NewRequest == [at |-> "new"]
EmptyTable == << >>

new_cache == [version |-> None, overrides |-> EmptyTable, rates |-> Floor, table |-> EmptyTable,
              from_source |-> {}, fresh |-> FALSE, reading |-> None]

Init ==
  /\ rows = [v \in Versions |-> EmptyTable] /\ manifest = [v \in Versions |-> None] /\ current = None
  /\ calls = [p \in Publishers |-> NoCall] /\ published = 0
  /\ source \in Sources
  /\ cache = [w \in Workers |-> new_cache] /\ frozen = [w \in Workers |-> EmptyTable]
  /\ request = [r \in Requests |-> NewRequest]

(***************************************************************************)
(* Publication.  A row is immutable, and so is the number of rows.         *)
(***************************************************************************)
default_floor_violations(rate) == {leg \in BILLABLE_LEGS : rate[leg] < Floor[Default][leg]}

set_rates(p, v, document) ==
  /\ calls[p] = NoCall /\ published < MaxPublications
  /\ Default \in DOMAIN document => default_floor_violations(document[Default]) = {}
  /\ calls' = [calls EXCEPT ![p] = [at |-> "rows", version |-> v, document |-> document,
                                    left |-> DOMAIN document]]
  /\ published' = published + 1
  /\ UNCHANGED <<rows, manifest, current, source, cache, frozen, request>>

\* The condition of the put is left out.
MayPutM(stored, key, rate) == TRUE

\* A rate row is put if there is none, or the same one.
MayPut(stored, key, rate) == key \in DOMAIN stored => stored[key] = rate

put_rate_row(p) == \E key \in Keys :
  LET call == calls[p]
      taken == MayPut(rows[call.version], key, call.document[key])
  IN  /\ call.at = "rows" /\ key \in call.left
      /\ rows' = IF taken THEN [rows EXCEPT ![call.version] = (key :> call.document[key]) @@ @] ELSE rows
      /\ calls' = [calls EXCEPT ![p] = CASE ~taken -> NoCall
                     [] call.left = {key} -> [call EXCEPT !.left = {}, !.at = "manifest"]
                     [] OTHER -> [call EXCEPT !.left = @ \ {key}]]
      /\ UNCHANGED <<manifest, current, published, source, cache, frozen, request>>

put_manifest(p) ==
  LET call == calls[p]
      count == Cardinality(DOMAIN call.document)
      taken == manifest[call.version] \in {None, count}
  IN  /\ call.at = "manifest"
      /\ manifest' = IF taken THEN [manifest EXCEPT ![call.version] = count] ELSE manifest
      /\ calls' = [calls EXCEPT ![p] = IF taken THEN [call EXCEPT !.at = "pointer"] ELSE NoCall]
      /\ UNCHANGED <<rows, current, published, source, cache, frozen, request>>

put_pointer(p) ==
  /\ calls[p].at = "pointer"
  /\ current' = calls[p].version /\ calls' = [calls EXCEPT ![p] = NoCall]
  /\ UNCHANGED <<rows, manifest, published, source, cache, frozen, request>>

publisher_dies(p) ==
  /\ calls[p] # NoCall
  /\ calls' = [calls EXCEPT ![p] = NoCall]
  /\ UNCHANGED <<rows, manifest, current, published, source, cache, frozen, request>>

\* An operator takes the pointer away, and with it every override.
pointer_is_removed ==
  /\ current # None /\ published < MaxPublications
  /\ current' = None /\ published' = published + 1
  /\ UNCHANGED <<rows, manifest, calls, source, cache, frozen, request>>

(***************************************************************************)
(* The rates that a worker charges.  The layer above wins; two rules hold  *)
(* of the result whatever layer it came from.                              *)
(***************************************************************************)
with_vllm_cache_rates_zeroed(table) ==
  [key \in DOMAIN table |->
     IF key \in VllmKeys THEN [table[key] EXCEPT !["cache_read"] = 0, !["cache_write"] = 0] ELSE table[key]]

floored_default(rate) == [leg \in BILLABLE_LEGS |-> Max({rate[leg], Floor[Default][leg]})]

enforce_charged_invariants(table) ==
  [with_vllm_cache_rates_zeroed(table) EXCEPT ![Default] = floored_default(@)]

baseline(c) == c.table @@ Floor

\* The cache after a refresh that found these overrides.
refreshed(c, version, overrides) ==
  [c EXCEPT !.version = version, !.overrides = overrides, !.from_source = DOMAIN c.table,
            !.rates = enforce_charged_invariants(overrides @@ baseline(c)), !.fresh = TRUE, !.reading = None]

Ready(r) == request' = [request EXCEPT ![r] = [at |-> "ready"]]
Refused(r) == request' = [request EXCEPT ![r] = NewRequest]

\* The source is read before the lock is taken; a table that cannot be read leaves the last.
TablesRead(c) == {c.table, source}

\* A version that is held already is not read again; any other is read row by row.
refresh(r) == LET w == WorkerOf[r] IN \E table \in TablesRead(cache[w]) :
  LET c == [cache[w] EXCEPT !.table = table]
      held == current \in {None, c.version}
      kept == IF current = None THEN EmptyTable ELSE c.overrides
  IN  /\ request[r].at = "asked" /\ ~cache[w].fresh /\ cache[w].reading = None
      /\ cache' = [cache EXCEPT ![w] = IF held THEN refreshed(c, current, kept)
                     ELSE [c EXCEPT !.reading = [by |-> r, version |-> current]]]
      /\ IF held THEN Ready(r) ELSE UNCHANGED request
      /\ UNCHANGED <<documents, source, frozen>>

\* A document with more or fewer rows than its manifest says is not one.
Whole(table, count) == count \in {None, Cardinality(DOMAIN table)}

\* The reads of a document are eventually consistent: what was written last may be missing.
\* (A pointer that is read late is a refresh that came earlier.)
Late(table) == {Restrict(table, seen) : seen \in SUBSET DOMAIN table}

load_rates(w) == LET c == cache[w] IN
  /\ c.reading # None
  /\ \E table \in Late(rows[c.reading.version]), count \in {None, manifest[c.reading.version]} :
       \/ /\ Whole(table, count)
          /\ cache' = [cache EXCEPT ![w] = refreshed(c, c.reading.version, table)] /\ Ready(c.reading.by)
       \/ /\ ~Whole(table, count)
          /\ cache' = [cache EXCEPT ![w].reading = None] /\ Refused(c.reading.by)
  /\ UNCHANGED <<documents, source, frozen>>

\* A read that fails leaves the last rates, and the cache as old as it was.
refresh_fails(w) ==
  /\ cache[w].reading # None
  /\ Ready(cache[w].reading.by)
  /\ cache' = [cache EXCEPT ![w].reading = None]
  /\ UNCHANGED <<documents, source, frozen>>

cache_ages(w) ==
  /\ cache[w].fresh
  /\ cache' = [cache EXCEPT ![w].fresh = FALSE]
  /\ UNCHANGED <<documents, source, frozen, request>>

\* Another thread of the worker is reading, or has just read.
cache_is_fresh(r) ==
  /\ request[r].at = "asked" /\ cache[WorkerOf[r]].fresh
  /\ Ready(r)
  /\ UNCHANGED <<documents, source, cache, frozen>>

source_moves ==
  /\ source' \in Sources \ {source}
  /\ UNCHANGED <<documents, cache, frozen, request>>

worker_restarts(w) ==
  /\ cache' = [cache EXCEPT ![w] = new_cache] /\ frozen' = [frozen EXCEPT ![w] = EmptyTable]
  /\ request' = [r \in Requests |-> IF WorkerOf[r] = w THEN NewRequest ELSE request[r]]
  /\ UNCHANGED <<documents, source>>

(***************************************************************************)
(* A request.                                                              *)
(***************************************************************************)
arrives(r) ==
  /\ request[r].at \in {"new", "settled"}
  /\ request' = [request EXCEPT ![r] = [at |-> "asked"]]
  /\ UNCHANGED <<documents, source, cache, frozen>>

Snapshot(version, key, rate) == [version |-> version, key |-> key, rate |-> rate]

\* A pool bounds a request if it exists and its gate is on; a request that cannot be
\* measured is refused only there.
dollar_pool_bound_state(s) ==
  CASE s.pool /\ s.gate -> "enforced" [] s.pool /\ ~s.gate -> "shadow"
    [] ~s.pool /\ s.measuring -> "measured" [] OTHER -> "accounting"
bound_refuses(payload, state) == state = "enforced" /\ ~assess_boundability(payload)
reserved_for(rate, payload, state) ==
  IF state = "enforced" THEN strict_reservation(rate, payload) ELSE estimate_cost_from_rates(rate, payload)

\* Everything is priced from the frozen rate: what is reserved here and what is charged at last.
Holding(r, snapshot) == \E payload \in Payloads, state \in {dollar_pool_bound_state(s) : s \in Settings} :
  /\ validate_input(payload) /\ ~bound_refuses(payload, state)
  /\ request' = [request EXCEPT ![r] = [at |-> "held", snapshot |-> snapshot, payload |-> payload, state |-> state,
                                        reserved |-> reserved_for(snapshot.rate, payload, state)]]

\* A key that no layer knows is priced by the default, and labelled by where that came from.
tag_for(c, key) == IF key \in c.from_source THEN PRICE_SOURCE_SENTINEL ELSE BUILTIN_VERSION
effective_snapshot(c, key) ==
  LET label == IF key \in DOMAIN c.rates THEN key ELSE Default
  IN  Snapshot(tag_for(c, label), key, c.rates[label])

Overridden(c, key) == c.version # None /\ key \in DOMAIN c.overrides

\* The cache is read once, under its lock.  A key that the document prices is frozen from
\* its stored row, which a worker reads once.
snapshot_inputs(r) == LET w == WorkerOf[r] c == cache[WorkerOf[r]] IN \E key \in Asked :
  /\ request[r].at = "ready"
  /\ IF Overridden(c, key) /\ <<c.version, key>> \notin DOMAIN frozen[w]
     THEN request' = [request EXCEPT ![r] = [at |-> "row", version |-> c.version, key |-> key]]
     ELSE Holding(r, IF Overridden(c, key) THEN Snapshot(c.version, key, frozen[w][<<c.version, key>>])
                     ELSE effective_snapshot(c, key))
  /\ UNCHANGED <<documents, source, cache, frozen>>

get_rates_for_version(r) == LET w == WorkerOf[r] asked == request[r] IN
  /\ asked.at = "row"
  /\ LET stored == rows[asked.version] IN
     IF asked.key \in DOMAIN stored
     THEN /\ frozen' = [frozen EXCEPT ![w] = (<<asked.version, asked.key>> :> stored[asked.key]) @@ @]
          /\ Holding(r, Snapshot(asked.version, asked.key, stored[asked.key]))
     ELSE Refused(r) /\ UNCHANGED frozen
  /\ UNCHANGED <<documents, source, cache>>

\* A charge above what was reserved is named.
overrun_cause(asked, usage, charge) ==
  CASE charge <= asked.reserved \/ asked.state # "enforced" -> None
    [] usage["output"] > MaxOutput -> "output_ceiling_exceeded"
    [] OTHER -> "bound_exceeded"

settle(r) == LET asked == request[r] IN
  /\ asked.at = "held"
  /\ \E outcome \in {[at |-> "settled",
                      cause |-> overrun_cause(asked, usage, rate_usage(asked.snapshot.rate, usage))] :
                       usage \in Usages[asked.payload]} :
       request' = [request EXCEPT ![r] = outcome]
  /\ UNCHANGED <<documents, source, cache, frozen>>

Next ==
  \/ \E p \in Publishers :
       \/ \E v \in Versions, document \in Documents : set_rates(p, v, document)
       \/ put_rate_row(p) \/ put_manifest(p) \/ put_pointer(p) \/ publisher_dies(p)
  \/ pointer_is_removed \/ source_moves
  \/ \E w \in Workers : load_rates(w) \/ refresh_fails(w)
                        \/ cache_ages(w) \/ worker_restarts(w)
  \/ \E r \in Requests : arrives(r) \/ refresh(r) \/ cache_is_fresh(r) \/ snapshot_inputs(r)
                         \/ get_rates_for_version(r) \/ settle(r)

Spec == Init /\ [][Next]_vars

(***************************************************************************)
(* Properties.                                                             *)
(***************************************************************************)

\* A rate that a request or a worker holds under the name of a published version is the row
\* that is stored under it, for as long as anyone can dispute the charge: rows are written
\* once, whatever publications overlap, die half-way or are repeated.
FrozenIsStored ==
  /\ \A w \in Workers : \A at \in DOMAIN frozen[w] :
       at[2] \in DOMAIN rows[at[1]] /\ frozen[w][at] = rows[at[1]][at[2]]
  /\ \A r \in Requests : request[r].at = "held" =>
       LET s == request[r].snapshot IN
       s.version \in Versions => s.key \in DOMAIN rows[s.version] /\ s.rate = rows[s.version][s.key]

\* Tokens that no surveyor sees: what the provider adds itself, a part of a chat that is
\* neither text nor an image, what stands in the result of a tool of Responses.
PassedOver(payload) ==
  \/ payload.unsent > 0
  \/ payload.protocol = "chat" /\ \E i \in DOMAIN payload.blocks : payload.blocks[i].kind # "image"
  \/ payload.protocol = "responses" /\ \E i \in DOMAIN payload.blocks : payload.blocks[i].nested

\* What an enforced pool reserved covers what is charged, whatever the legs the provider
\* shares the prompt out to and whatever is published in between, unless the provider wrote
\* more than it was allowed or counted what the survey passes over.
BoundCovers == [][\A r \in Requests :
  request[r].at = "held" /\ request'[r].at = "settled" /\ ~PassedOver(request[r].payload)
    => request'[r].cause # "bound_exceeded"]_vars

\* What operators are told of strict mode (reservation_bound.py:314 to 321): beside a hold that
\* was reaped, only a provider that wrote more than it was allowed makes a charge exceed what was
\* reserved.  Beside the runs: whatever the survey passes over refutes it (MCRateThirdWay.cfg).
NoThirdWay == \A r \in Requests : request[r].at = "settled" => request[r].cause # "bound_exceeded"
=============================================================================
