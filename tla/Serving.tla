------------------------------ MODULE Serving ------------------------------
(***************************************************************************)
(* One process serving requests: the eight routes, each with a reservation *)
(* in hand, a call to a provider whose work is billed whether or not its   *)
(* answer arrives, and clients who may leave at any await or yield.  A     *)
(* handler claims the one ending of its reservation and has it written by  *)
(* itself or by a thread of the pool: charge what was seen, return it, or  *)
(* keep it because nobody knows.  The OpenAI-compatible routes share a     *)
(* bearer token that is minted, refreshed ahead of its end, and dropped    *)
(* when the provider refuses it.                                           *)
(***************************************************************************)
EXTENDS Integers, FiniteSets, Sequences

CONSTANTS
  Requests,
  RoutesOf,    \* the routes that a request may take
  Targets,     \* the targets a streamed message may be sent to, in order
  Enforced,    \* whether an unknown outcome keeps the reservation
  FailuresOf,  \* the ways a call of a request may fail, see the outcomes below
  MaxMints     \* bound: tokens that can be minted

Converse == {"messages", "chat", "messages_stream", "chat_stream"}
OpenAI == {"chat_openai", "responses", "chat_openai_stream", "responses_stream"}
Streams == {"messages_stream", "chat_stream", "chat_openai_stream", "responses_stream"}
Threads == {"messages", "chat", "chat_openai"}     \* plain functions: nothing cancels them

None == "none"
Failures == {"connect", "throttled", "rejected", "unauthorized", "server_error", "timeout", "empty"}

ASSUME ServingAssumption ==
  /\ \A r \in Requests : RoutesOf[r] \subseteq Converse \cup OpenAI
  /\ \A r \in Requests : FailuresOf[r] \subseteq Failures
  /\ Requests \cap {None, "refresher"} = {}      \* who else has the lock of the token
  /\ Enforced \in BOOLEAN /\ MaxMints \in Nat

VARIABLES
  req,       \* the requests
  cooled,    \* targets in their cooldown
  tok,       \* the cached token: which, and how old
  lock,      \* who holds the lock of the token
  refresh,   \* a refresh is scheduled
  minted,    \* tokens minted so far
  revoked    \* tokens that the provider no longer accepts

vars == <<req, cooled, tok, lock, refresh, minted, revoked>>
tokens == <<tok, lock, refresh, minted, revoked>>

\* What is known of a request: how far it is, what was sent and seen, its ending, and
\* what the provider really did, which no handler reads.
NoRequest ==
  [route |-> None, pc |-> "idle", auth |-> 0, saw |-> 0, thread |-> None,
   sent |-> FALSE, left |-> FALSE, responded |-> FALSE, usage |-> FALSE,
   target |-> 1, try |-> 1, got |-> None, last |-> None,
   state |-> None, charge |-> None, queued |-> 0, started |-> FALSE,
   effect |-> None, writes |-> 0, worked |-> FALSE]

Init ==
  /\ req = [r \in Requests |-> NoRequest]
  /\ cooled = {}
  /\ tok = [n |-> 0, age |-> "dead"]
  /\ lock = None /\ refresh = FALSE /\ minted = 0 /\ revoked = {}

Put(r, q) == req' = [req EXCEPT ![r] = q]
At(q, pc) == [q EXCEPT !.pc = pc]

(***************************************************************************)
(* What an outcome means.  "connect": no connection.  "throttled",         *)
(* "rejected", "unauthorized": refused before any work.  "server_error",   *)
(* "timeout", "empty": nobody knows.                                       *)
(***************************************************************************)
Refusals == {"throttled", "rejected", "unauthorized"}

\* External: the provider works unless there was no connection or it refused.
MayWork(kind) == IF kind \in Refusals \cup {"connect"} THEN {FALSE} ELSE BOOLEAN

classify_exception(kind) ==
  CASE kind = "connect" -> "not_submitted"
    [] kind \in Refusals -> "rejected_pre_inference"
    [] OTHER -> "submitted_unsettled"

classify_http_status(kind) ==
  IF kind \in Refusals THEN "rejected_pre_inference" ELSE "submitted_unsettled"

\* An answer of the OpenAI-compatible endpoint with a status, and not an exception.
HasStatus(kind) == kind \in Refusals \cup {"server_error"}

Outcome(kind) == IF HasStatus(kind) THEN classify_http_status(kind) ELSE classify_exception(kind)

liability_for(state) ==
  CASE state \in {"not_submitted", "rejected_pre_inference"} -> "none"
    [] state = "settled_final" -> "observed_amount"
    [] OTHER -> "full_ceiling"

refunds_immediately(state) == liability_for(state) = "none"

(***************************************************************************)
(* Hold: at most one ending is claimed.                                    *)
(***************************************************************************)
claimed(q) == q.state # None

\* A clean end without a final usage is charged the whole reservation.
claim_settle(q, clean, final) ==
  IF claimed(q) THEN q
  ELSE [q EXCEPT !.state = "settled_final",
                 !.charge = IF clean /\ ~final THEN "bound"
                            ELSE IF q.usage THEN "observed" ELSE "zero"]

claim_unobserved(q, state) ==
  IF claimed(q) THEN q ELSE [q EXCEPT !.state = state]

claim_not_submitted(q) == claim_unobserved(q, "not_submitted")

claim_stream_interrupted(q, state) ==
  CASE ~q.sent -> claim_not_submitted(q)
    [] q.sent /\ (q.usage \/ ~Enforced) -> claim_settle(q, FALSE, TRUE)
    [] q.sent /\ ~q.usage /\ Enforced /\ q.responded -> claim_unobserved(q, "submitted_unsettled")
    [] OTHER -> claim_unobserved(q, state)

\* detached and awaited hand the write to the pool of threads.
detached(q) == IF claimed(q) THEN [q EXCEPT !.queued = @ + 1] ELSE q

\* dispatch_pending: an ending that was claimed and that no thread has begun.
dispatch_pending(q) == claimed(q) /\ ~q.started

\* The generator is closed with its ending claimed and not handed over.
closeM(q) ==
  IF claimed(q) THEN q
  ELSE detached(claim_stream_interrupted(q, "submitted_unsettled"))

close(q) ==
  IF dispatch_pending(q) THEN detached(q)
  ELSE IF claimed(q) THEN q
  ELSE detached(claim_stream_interrupted(q, "submitted_unsettled"))

Closed(q) == At(close(q), "closed")

\* The write itself; a reservation whose call never left is returned.
EffectM(q) ==
  IF q.state = "settled_final" THEN "settled"
  ELSE IF refunds_immediately(q.state) \/ ~Enforced \/ ~q.responded THEN "returned"
  ELSE "kept"

Effect(q) ==
  IF q.state = "settled_final" THEN "settled"
  ELSE IF refunds_immediately(q.state) \/ ~Enforced \/ ~q.left THEN "returned"
  ELSE "kept"

\* What the handler saw is of no use any more.
Write(q) ==
  [q EXCEPT !.started = TRUE, !.effect = Effect(q), !.writes = q.writes + 1, !.auth = 0, !.saw = 0,
            !.sent = FALSE, !.left = FALSE, !.responded = FALSE, !.usage = FALSE,
            !.got = None, !.target = 1, !.try = 1]

\* Two dispatches of one ending both write.
run_endingM(q) == Write(q)

run_ending(q) == IF q.started THEN q ELSE Write(q)

\* A thread of the pool takes a write.
executor(r) ==
  /\ req[r].queued > 0
  /\ Put(r, run_ending([req[r] EXCEPT !.queued = @ - 1]))
  /\ UNCHANGED <<cooled, tokens>>

(***************************************************************************)
(* A request is refused before it reserves, or has its reservation.        *)
(***************************************************************************)
Open(r, route, pc) ==
  /\ req[r].pc = "idle" /\ route \in RoutesOf[r]
  /\ Put(r, [req[r] EXCEPT !.route = route, !.pc = pc])
  /\ UNCHANGED tokens
  /\ IF route = "messages_stream" THEN cooled' \in SUBSET (1 .. Len(Targets)) ELSE UNCHANGED cooled

\* The other requests of the process may have cooled any target down.
stream_messages(r) == Open(r, "messages_stream", "prologue")
messages(r) == Open(r, "messages", "call")
chat_completions(r) == Open(r, "chat", "call")
stream_chat(r) == Open(r, "chat_stream", "prologue")
openai_chat_completion(r) == Open(r, "chat_openai", "auth")
proxy(r) == Open(r, "chat_openai_stream", "auth")
create_response(r) == Open(r, "responses", "auth")
stream_response(r) == Open(r, "responses_stream", "auth")

\* run_stream sends its first frames before it calls.
prologue(r) ==
  /\ req[r].pc = "prologue"
  /\ Put(r, At(req[r], "call"))
  /\ UNCHANGED <<cooled, tokens>>

(***************************************************************************)
(* The bearer token.                                                       *)
(***************************************************************************)
Live == tok.n # 0 /\ tok.age # "dead"

\* The token n is the request's; it calls, if its client has not left.
Authorise(q, n) ==
  [q EXCEPT !.auth = n, !.thread = None, !.pc = IF q.pc = "auth" THEN "call" ELSE q.pc]

Authorised(q) == Authorise(q, tok.n)

\* A token close to its end is used, and refreshed by the one thread that does so.
cached_headers(r) ==
  /\ req[r].pc = "auth" /\ req[r].thread = None /\ Live
  /\ Put(r, Authorised(req[r]))
  /\ refresh' = (refresh \/ tok.age = "due")
  /\ UNCHANGED <<cooled, tok, lock, minted, revoked>>

auth_headers(r) ==
  /\ req[r].pc = "auth" /\ req[r].thread = None /\ ~Live
  /\ Put(r, [req[r] EXCEPT !.thread = "lock"])
  /\ UNCHANGED <<cooled, tokens>>

\* Under the lock: another thread may have minted meanwhile.
token_lock(r) ==
  /\ req[r].thread = "lock" /\ lock = None
  /\ IF Live THEN Put(r, Authorised(req[r])) /\ UNCHANGED lock
             ELSE Put(r, [req[r] EXCEPT !.thread = "mint"]) /\ lock' = r
  /\ UNCHANGED <<cooled, tok, refresh, minted, revoked>>

NewToken == tok' = [n |-> minted + 1, age |-> "fresh"] /\ minted' = minted + 1

mint_and_store(r) ==
  /\ lock = r /\ minted < MaxMints
  /\ NewToken /\ lock' = None
  /\ Put(r, Authorise(req[r], minted + 1))
  /\ UNCHANGED <<cooled, refresh, revoked>>

\* Minting raises.  The plain chat route has opened its hold and is not yet inside its try.
mint_fails(r) ==
  LET q == [req[r] EXCEPT !.thread = None] IN
  /\ lock = r /\ lock' = None
  /\ Put(r, CASE q.pc # "auth" -> q
              [] q.pc = "auth" /\ q.route = "chat_openai" -> At(q, "raised")
              [] q.pc = "auth" /\ q.route = "responses" ->
                   At(detached(claim_unobserved(q, "submitted_unsettled")), "awaiting")
              [] OTHER -> Closed(q))
  /\ UNCHANGED <<cooled, tok, refresh, minted, revoked>>

refresh_now ==
  /\ refresh /\ lock = None
  /\ IF Live /\ tok.age = "fresh" THEN refresh' = FALSE /\ UNCHANGED lock
                                  ELSE lock' = "refresher" /\ UNCHANGED refresh
  /\ UNCHANGED <<req, cooled, tok, minted, revoked>>

refresh_ends ==
  /\ lock = "refresher"
  /\ IF minted < MaxMints THEN NewToken ELSE UNCHANGED <<tok, minted>>
  /\ lock' = None /\ refresh' = FALSE
  /\ UNCHANGED <<req, cooled, revoked>>

token_ages ==
  /\ Live
  /\ tok' = [tok EXCEPT !.age = IF @ = "fresh" THEN "due" ELSE "dead"]
  /\ UNCHANGED <<req, cooled, lock, refresh, minted, revoked>>

\* External: the credentials behind a token are withdrawn.
provider_revokes ==
  /\ tok.n \notin revoked \cup {0}
  /\ revoked' = revoked \cup {tok.n}
  /\ UNCHANGED <<req, cooled, tok, lock, refresh, minted>>

\* The endpoint refused the token that was sent: the handler looks at the cached one,
token_refused(r) ==
  LET q == req[r] IN
  /\ q.pc = "got" /\ q.got = "unauthorized" /\ q.route \in OpenAI
  /\ Put(r, [q EXCEPT !.pc = "refused", !.saw = tok.n])
  /\ UNCHANGED <<cooled, tokens>>

Drop(r, dropped) ==
  /\ req[r].pc = "refused"
  /\ tok' = IF dropped THEN [tok EXCEPT !.n = 0] ELSE tok
  /\ Put(r, At(req[r], "dropped"))
  /\ UNCHANGED <<cooled, lock, refresh, minted, revoked>>

\* Mutant: whatever was seen is dropped, whoever was refused.
invalidate_tokenM(r) == Drop(r, req[r].saw # 0)

\* and, if it is the one that was sent, drops what is cached by now: it takes no lock,
\* and a refresh may have come between.
invalidate_token(r) == Drop(r, req[r].saw = req[r].auth)

(***************************************************************************)
(* The call.                                                               *)
(***************************************************************************)
\* Every call site announces the departure, but for one.
announces(route) == route # "responses_stream"

provider_call_starting(r) ==
  /\ req[r].pc = "call"
  /\ Put(r, [req[r] EXCEPT !.pc = IF req[r].route = "messages_stream" THEN "route" ELSE "waiting",
                            !.sent = TRUE, !.left = announces(req[r].route)])
  /\ UNCHANGED <<cooled, tokens>>

\* External: the provider answers or does not.
provider_answers(r) ==
  /\ req[r].pc = "waiting"
  /\ \/ \E kind \in FailuresOf[r] : \E w \in MayWork(kind) :
          /\ kind = "unauthorized" => req[r].auth \in revoked
          /\ kind = "empty" => req[r].route = "messages_stream"
          /\ Put(r, [req[r] EXCEPT !.pc = "got", !.got = kind, !.worked = req[r].worked \/ w])
     \/ /\ req[r].route \in OpenAI => req[r].auth \notin revoked
        /\ \E usage \in IF req[r].route \in Streams THEN {FALSE} ELSE BOOLEAN :
             Put(r, [req[r] EXCEPT !.pc = "got", !.got = "answer", !.usage = usage,
                                   !.worked = TRUE])
  /\ UNCHANGED <<cooled, tokens>>

(***************************************************************************)
(* route_stream tries target after target until one gives a first event.   *)
(***************************************************************************)
classify(kind) ==
  CASE kind \in {"throttled", "timeout", "connect", "empty"} -> "failover"
    [] kind = "server_error" -> "retry_same"
    [] OTHER -> "fatal"

MaxTries == 2

route_stream(r) ==
  LET q == req[r] IN
  /\ q.pc = "route"
  /\ Put(r, CASE q.target > Len(Targets) ->
                     [q EXCEPT !.pc = "got", !.got = IF q.last = None THEN "exhausted" ELSE q.last]
              [] q.target <= Len(Targets) /\ q.target \in cooled -> [q EXCEPT !.target = @ + 1]
              [] OTHER -> At(q, "waiting"))
  /\ UNCHANGED <<cooled, tokens>>

\* An attempt failed and the chain goes on.
attempt_failed(r) ==
  LET q == req[r] IN
  /\ q.route = "messages_stream" /\ q.pc = "got" /\ q.target <= Len(Targets)
  /\ q.got # "answer" /\ classify(q.got) # "fatal"
  /\ IF classify(q.got) = "retry_same" /\ q.try < MaxTries
     THEN Put(r, [q EXCEPT !.pc = "route", !.last = q.got, !.try = q.try + 1]) /\ UNCHANGED cooled
     ELSE /\ cooled' = cooled \cup {q.target}
          /\ Put(r, [q EXCEPT !.pc = "route", !.last = q.got, !.try = 1, !.target = q.target + 1])
  /\ UNCHANGED tokens

cooldown_ends(t) ==
  /\ t \in cooled /\ cooled' = cooled \ {t}
  /\ \E r \in Requests : req[r].pc = "route"      \* nobody else looks
  /\ UNCHANGED <<req, tokens>>

(***************************************************************************)
(* How each route ends.                                                    *)
(***************************************************************************)
Got(r, routes) == req[r].pc = "got" /\ req[r].route \in routes

\* A thread writes by itself.
Ended(q) == At(run_ending(q), "closed")

ConverseEnd(r) ==
  LET q == req[r] IN
  /\ Put(r, Ended(CASE q.got # "answer" -> claim_unobserved(q, classify_exception(q.got))
                    [] q.got = "answer" /\ ~q.usage -> claim_unobserved(q, "submitted_unsettled")
                    [] OTHER -> claim_settle(q, TRUE, TRUE)))
  /\ UNCHANGED <<cooled, tokens>>

messages_end(r) == Got(r, {"messages"}) /\ ConverseEnd(r)
chat_end(r) == Got(r, {"chat"}) /\ ConverseEnd(r)

\* The OpenAI-compatible routes drop a token that was refused before they end.
Answered(r, routes) ==
  /\ req[r].route \in routes
  /\ req[r].pc = IF req[r].got = "unauthorized" THEN "dropped" ELSE "got"

\* An answer without a usage block reads as one of zero tokens.
openai_chat_end(r) ==
  LET q == req[r] IN
  /\ Answered(r, {"chat_openai"})
  /\ Put(r, Ended(IF q.got = "answer" THEN claim_settle(q, TRUE, TRUE)
                  ELSE claim_unobserved(q, Outcome(q.got))))
  /\ UNCHANGED <<cooled, tokens>>

create_response_end(r) ==
  LET q == req[r] IN
  /\ Answered(r, {"responses"})
  /\ Put(r, At(detached(CASE q.got # "answer" -> claim_unobserved(q, Outcome(q.got))
                            [] q.got = "answer" /\ ~q.usage -> claim_unobserved(q, "submitted_unsettled")
                            [] OTHER -> claim_settle(q, TRUE, TRUE)), "awaiting"))
  /\ UNCHANGED <<cooled, tokens>>

\* A stream that did not begin: the ending is claimed, then the error frame is sent.
run_stream_fails(r) ==
  LET q == req[r] IN
  /\ Got(r, {"messages_stream", "chat_stream"}) /\ q.got # "answer"
  /\ q.route = "messages_stream" => classify(q.got) = "fatal" \/ q.target > Len(Targets)
  /\ Put(r, At(claim_unobserved(q, classify_exception(q.got)), "frame"))
  /\ UNCHANGED <<cooled, tokens>>

proxy_fails(r) ==
  LET q == req[r] IN
  /\ Answered(r, {"chat_openai_stream", "responses_stream"}) /\ q.got # "answer"
  /\ Put(r, IF HasStatus(q.got) THEN At(claim_unobserved(q, Outcome(q.got)), "frame")
            ELSE LET c == claim_stream_interrupted(q, Outcome(q.got)) IN
                 IF q.route = "responses_stream" THEN At(c, "frame")
                 ELSE At(detached(c), "awaiting"))
  /\ UNCHANGED <<cooled, tokens>>

stream_begins(r) ==
  /\ Got(r, Streams) /\ req[r].got = "answer"
  /\ Put(r, [req[r] EXCEPT !.pc = "streaming", !.responded = (req[r].route = "messages_stream")])
  /\ UNCHANGED <<cooled, tokens>>

\* An event, and the last one, which has the usage.
Absorb(r, routes) ==
  /\ req[r].pc = "streaming" /\ req[r].route \in routes
  /\ \E usage \in {req[r].usage, TRUE} : Put(r, [req[r] EXCEPT !.responded = TRUE, !.usage = usage])
  /\ UNCHANGED <<cooled, tokens>>

absorb(r) == Absorb(r, Converse)
proxy_event(r) == Absorb(r, {"chat_openai_stream"})
response_event(r) == Absorb(r, {"responses_stream"})

\* The provider's stream breaks.
stream_breaks(r) ==
  LET q == req[r]
      c == claim_stream_interrupted(q, "submitted_unsettled") IN
  /\ q.pc = "streaming"
  /\ Put(r, IF q.route = "chat_openai_stream" THEN At(detached(c), "awaiting")
            ELSE At(c, "frame"))
  /\ UNCHANGED <<cooled, tokens>>

\* It ends; the proxy cannot tell a usage of zero from none.
run_stream_ends(r) ==
  /\ req[r].pc = "streaming" /\ req[r].route \in Converse
  /\ Put(r, At(claim_settle(req[r], TRUE, req[r].usage), "frame"))
  /\ UNCHANGED <<cooled, tokens>>

proxy_ends(r) ==
  /\ req[r].pc = "streaming" /\ req[r].route = "chat_openai_stream"
  /\ Put(r, At(detached(claim_settle(req[r], TRUE, TRUE)), "awaiting"))
  /\ UNCHANGED <<cooled, tokens>>

stream_response_ends(r) ==
  LET q == req[r] IN
  /\ q.pc = "streaming" /\ q.route = "responses_stream"
  /\ Put(r, At(detached(IF q.usage THEN claim_settle(q, TRUE, TRUE)
                          ELSE claim_unobserved(q, "submitted_unsettled")), "awaiting"))
  /\ UNCHANGED <<cooled, tokens>>

\* The last frame is out and the write is handed over and awaited.
frame_sent(r) ==
  /\ req[r].pc = "frame"
  /\ Put(r, At(detached(req[r]), "awaiting"))
  /\ UNCHANGED <<cooled, tokens>>

awaited(r) ==
  /\ req[r].pc = "awaiting" /\ req[r].started
  /\ Put(r, At(req[r], "closed"))
  /\ UNCHANGED <<cooled, tokens>>

(***************************************************************************)
(* The client leaves.  What a call in flight goes on to do is not known.   *)
(***************************************************************************)
\* While run_stream waits for its call to answer.
run_stream_cancelled(r) ==
  LET q == req[r] IN
  /\ q.route \in Converse /\ q.pc \in {"route", "waiting"}
  /\ q.route \notin Threads
  /\ \E w \in IF q.pc = "waiting" THEN BOOLEAN ELSE {FALSE} :
       Put(r, Closed(detached(claim_unobserved([q EXCEPT !.worked = @ \/ w], "submitted_unsettled"))))
  /\ UNCHANGED <<cooled, tokens>>

create_response_cancelled(r) ==
  LET q == req[r] IN
  /\ q.route = "responses" /\ q.pc \in {"auth", "waiting", "awaiting"}
  /\ \E w \in IF q.pc = "waiting" THEN BOOLEAN ELSE {FALSE} :
       LET p == [q EXCEPT !.worked = @ \/ w] IN
       Put(r, At(IF q.pc = "awaiting" THEN p
                   ELSE detached(IF q.sent THEN claim_unobserved(p, "submitted_unsettled")
                                 ELSE claim_not_submitted(p)), "closed"))
  /\ UNCHANGED <<cooled, tokens>>

\* Anywhere else a generator is closed; the body of a refusal is read before the ending
\* is claimed.
Reading(q) == /\ q.route \in OpenAI /\ HasStatus(q.got)
              /\ q.pc = IF q.got = "unauthorized" THEN "dropped" ELSE "got"
generator_closed(r) ==
  LET q == req[r] IN
  /\ q.route \in Streams
  /\ \/ q.pc \in {"prologue", "auth", "streaming", "frame", "awaiting"}
     \/ q.pc = "waiting" /\ q.route \in OpenAI
     \/ Reading(q)
  /\ \E w \in IF q.pc = "waiting" THEN BOOLEAN ELSE {FALSE} :
       Put(r, Closed([q EXCEPT !.worked = @ \/ w]))
  /\ UNCHANGED <<cooled, tokens>>

client_leaves(r) == run_stream_cancelled(r) \/ create_response_cancelled(r) \/ generator_closed(r)

Begin(r) ==
  \/ messages(r) \/ stream_messages(r) \/ chat_completions(r) \/ stream_chat(r)
  \/ openai_chat_completion(r) \/ proxy(r) \/ create_response(r) \/ stream_response(r)

\* The steps that a handler, the pool or the provider owes.
Step(r) ==
  \/ executor(r) \/ prologue(r)
  \/ cached_headers(r) \/ auth_headers(r) \/ token_lock(r) \/ mint_and_store(r) \/ mint_fails(r)
  \/ provider_call_starting(r) \/ provider_answers(r) \/ route_stream(r) \/ attempt_failed(r)
  \/ token_refused(r) \/ invalidate_token(r)
  \/ messages_end(r) \/ chat_end(r) \/ openai_chat_end(r) \/ create_response_end(r)
  \/ run_stream_fails(r) \/ proxy_fails(r) \/ stream_begins(r)
  \/ stream_breaks(r) \/ run_stream_ends(r) \/ proxy_ends(r) \/ stream_response_ends(r)
  \/ frame_sent(r) \/ awaited(r)

Event(r) == absorb(r) \/ proxy_event(r) \/ response_event(r)

Refresher == refresh_now \/ refresh_ends

Next ==
  \/ \E r \in Requests : Begin(r) \/ Step(r) \/ Event(r) \/ client_leaves(r)
  \/ Refresher \/ token_ages \/ provider_revokes
  \/ \E t \in cooled : cooldown_ends(t)

Spec == Init /\ [][Next]_vars

\* Threads run, the lock is handed on, and a call is answered or times out.
FairSpec ==
  /\ Spec /\ WF_vars(Refresher)
  /\ \A r \in Requests :
       /\ WF_vars(Step(r)) /\ WF_vars(executor(r)) /\ SF_vars(token_lock(r))

(***************************************************************************)
(* Properties.                                                             *)
(***************************************************************************)
\* A reservation goes back to its tenant only if the provider did no work for it.
ReturnedMeansNoWork ==
  \A r \in Requests : req[r].effect = "returned" => ~req[r].worked

\* What the provider did is charged, or its reservation is kept, whatever the client,
\* the chain of targets and the pool of threads did.  Three exceptions are the code's: the
\* route that does not announce its departure, a chain that lost one call and was refused
\* by the next target, and an OpenAI-compatible chat whose answer has no usage.
WorkIsNotForgotten ==
  \A r \in Requests : req[r].worked /\ req[r].writes > 0 =>
    \/ req[r].effect = "kept"
    \/ req[r].effect = "settled" /\ (req[r].charge # "zero" \/ req[r].route \in {"chat_openai", "chat_openai_stream"})
    \/ req[r].effect = "returned" /\ ~announces(req[r].route)
    \/ req[r].effect = "returned" /\ req[r].last # None /\ req[r].state # "submitted_unsettled"

\* However often an ending is dispatched, by its handler, by a cancelled await and by the
\* closing of the generator, it is written once.
WrittenOnce == \A r \in Requests : req[r].writes <= 1

\* A token that is good leaves the cache only by a handler that had seen there, before this
\* token came, the refused one that it had sent: a refusal of an older token that looks at
\* the cache when this one is there drops nothing (invalidate_token).
SeenTokenStays ==
  [][tok.n # 0 /\ tok.n \notin revoked /\ tok'.n = 0 =>
       \E r \in Requests : /\ req[r].pc = "refused" /\ req'[r].pc = "dropped"
                           /\ req[r].saw = req[r].auth /\ req[r].saw \in revoked]_vars

\* What invalidate_token's docstring says, a compare-and-pop, and does not hold: that no
\* handler drops a good token, which a refresh had just installed.
GoodTokenStays ==
  [][tok.n # 0 /\ tok.n \notin revoked => tok'.n # 0]_tok

\* Every reservation is ended by its request, in whatever way its client leaves and
\* its call fails, but for the plain chat route whose token could not be minted.
EveryHoldEnds ==
  \A r \in Requests :
    req[r].pc # "idle" ~> (req[r].writes > 0 \/ (req[r].pc = "raised" /\ req[r].route = "chat_openai"))

=============================================================================
