---------------------------- MODULE ServingProofs ----------------------------
(***************************************************************************)
(* The safety properties of Serving, for every number of requests, routes, *)
(* targets, tokens and ways to fail.  What is said of a request is said of *)
(* its record alone: each step gives one request its next record, and the  *)
(* lemmas show that this record is as sound as the one before.             *)
(***************************************************************************)
EXTENDS Serving, TLAPS

Routes == Converse \cup OpenAI
Before == {"idle", "prologue", "auth", "call"}
HasAnswer == {"got", "refused", "dropped"}
Calling == {"route", "waiting", "streaming"} \cup HasAnswer
After == {"frame", "awaiting", "closed"}
Failovers == {"throttled", "timeout", "connect", "empty", "server_error"}
States == {"not_submitted", "rejected_pre_inference", "submitted_unsettled", "settled_final"}

\* The record of a request.
Rec ==
  [route : Routes \cup {None}, pc : Before \cup Calling \cup After \cup {"raised"},
   auth : Nat, saw : Nat, thread : {None, "lock", "mint"},
   sent : BOOLEAN, left : BOOLEAN, responded : BOOLEAN, usage : BOOLEAN,
   target : Nat, try : Nat, got : Failures \cup {None, "answer", "exhausted"},
   last : Failovers \cup {None}, state : States \cup {None},
   charge : {None, "bound", "observed", "zero"}, queued : Nat, started : BOOLEAN,
   effect : {None, "settled", "returned", "kept"}, writes : Nat, worked : BOOLEAN]

Pcs == Before \cup Calling \cup After \cup {"raised"}

(***************************************************************************)
(* What is known of a request.                                             *)
(***************************************************************************)
\* Before the call nothing has left, and nothing is claimed until it has answered.
Unsent(q) ==
  q.pc \in Before =>
    /\ ~claimed(q) /\ ~q.sent /\ ~q.worked /\ ~q.responded /\ ~q.usage /\ q.last = None /\ q.got = None
    /\ q.pc # "idle" => q.route # None

Underway(q) ==
  q.pc \in Calling =>
    /\ ~claimed(q) /\ q.sent /\ q.left = announces(q.route) /\ q.route # None
    /\ q.pc \in {"route", "waiting"} =>
         ~q.usage /\ q.got # "answer" /\ (q.worked => q.last # None)
    /\ q.pc \in HasAnswer /\ q.got # "answer" =>
         ~q.usage /\ (q.worked /\ q.last = None => q.got \notin Refusals \cup {"connect"})
    /\ q.pc \in HasAnswer => q.got # None
    /\ q.pc \in {"refused", "dropped"} => q.got = "unauthorized"

Blind(q) == q.route \in {"chat_openai", "chat_openai_stream"}
Excused(q) == q.last # None \/ ~announces(q.route)

\* An ending that was claimed is one that the property allows, once it is written.
Just(q) ==
  \/ q.state = "settled_final" /\ (q.charge # "zero" \/ Blind(q))
  \/ q.state \in {"not_submitted", "rejected_pre_inference"} /\ Excused(q)
  \/ q.state = "submitted_unsettled" /\ (q.left \/ ~announces(q.route))

\* What WorkIsNotForgotten says of a request whose ending is written.
Remembered(q) ==
  \/ q.effect = "kept"
  \/ q.effect = "settled" /\ (q.charge # "zero" \/ Blind(q))
  \/ q.effect = "returned" /\ ~announces(q.route)
  \/ q.effect = "returned" /\ q.last # None /\ q.state # "submitted_unsettled"

\* A claim comes last, and before any dispatch of it.
Claims(q) ==
  /\ q.pc \in After => claimed(q)
  /\ q.pc = "raised" => ~claimed(q) /\ ~q.worked
  /\ q.queued > 0 \/ q.started => claimed(q)

\* A thread that waits for a token, or mints one, has not called.
Threaded(q) == q.thread # None => q.got = None /\ q.pc \in {"auth", "closed"}

\* Work that was done is remembered where an unknown outcome keeps the reservation.
Worked(q) ==
  Enforced /\ q.worked =>
    /\ claimed(q) /\ ~q.started => Just(q)
    /\ q.started => Remembered(q)

\* WrittenOnce is not inductive without it: what is written has been started.
Once(q) == q.writes = IF q.started THEN 1 ELSE 0

Sound(q) == Unsent(q) /\ Underway(q) /\ Claims(q) /\ Threaded(q) /\ Worked(q) /\ Once(q)
Good(q) == q \in Rec /\ Sound(q)

\* A request was refused the token it holds only if the provider no longer takes it.
Refused(p, q) ==
  p.got = "unauthorized" => p.auth \in revoked \/ (q.got = "unauthorized" /\ q.auth = p.auth)

\* A step of a request, after which its thread does th; most have nothing to do with the
\* lock of the token.
Turns(r, th) == \E p : Put(r, p) /\ Good(p) /\ Refused(p, req[r]) /\ p.thread = th
Goes(r) == \E p : Put(r, p) /\ Good(p) /\ Refused(p, req[r]) /\ p.thread = req[r].thread

USE DEF None

\* A request that has not begun is good.
LEMMA FirstGood == Good(NoRequest)
BY DEF Good, Rec, NoRequest, Sound, Unsent, Underway, Claims, Threaded, Worked, Once, claimed, Before,
       Calling, HasAnswer, After, Routes, Failures, Failovers, States

-----------------------------------------------------------------------------
(* Endings: what is claimed, dispatched and moved on leaves the rest alone. *)

Same(p, q) ==
  /\ p.route = q.route /\ p.auth = q.auth /\ p.thread = q.thread /\ p.sent = q.sent /\ p.left = q.left
  /\ p.responded = q.responded /\ p.usage = q.usage /\ p.got = q.got /\ p.last = q.last
  /\ p.started = q.started /\ p.effect = q.effect /\ p.writes = q.writes /\ p.worked = q.worked

\* One field is rewritten; several are rewritten one after the other.
LEMMA PcField ==
  ASSUME NEW q \in Rec, NEW v \in Pcs
  PROVE  [q EXCEPT !.pc = v] \in Rec
BY DEF Rec, Pcs

\* The route of a record.
LEMMA RouteField ==
  ASSUME NEW q \in Rec, NEW v \in Routes
  PROVE  [q EXCEPT !.route = v] \in Rec
BY DEF Rec

\* Its token, when its thread is done with the lock.
LEMMA TokenFields ==
  ASSUME NEW q \in Rec, NEW n \in Nat
  PROVE  [q EXCEPT !.auth = n, !.thread = None] \in Rec
BY DEF Rec

\* What was sent and what has left.
LEMMA SentFields ==
  ASSUME NEW q \in Rec, NEW sent \in BOOLEAN, NEW left \in BOOLEAN
  PROVE  [q EXCEPT !.sent = sent, !.left = left] \in Rec
BY DEF Rec

\* What the provider answered.
LEMMA GotField ==
  ASSUME NEW q \in Rec, NEW v \in Failures \cup {None, "answer", "exhausted"}
  PROVE  [q EXCEPT !.got = v] \in Rec
BY DEF Rec

\* Whether usage was seen.
LEMMA UsageField ==
  ASSUME NEW q \in Rec, NEW v \in BOOLEAN
  PROVE  [q EXCEPT !.usage = v] \in Rec
BY DEF Rec

\* Whether the provider worked.
LEMMA WorkedField ==
  ASSUME NEW q \in Rec, NEW v \in BOOLEAN
  PROVE  [q EXCEPT !.worked = v] \in Rec
BY DEF Rec

\* Whether an ending was started.
LEMMA StartedField ==
  ASSUME NEW q \in Rec, NEW v \in BOOLEAN
  PROVE  [q EXCEPT !.started = v] \in Rec
BY DEF Rec

\* What the ending did.
LEMMA EffectField ==
  ASSUME NEW q \in Rec, NEW v \in {None, "settled", "returned", "kept"}
  PROVE  [q EXCEPT !.effect = v] \in Rec
BY DEF Rec

\* The number of writes, and the token.
LEMMA WriteFields ==
  ASSUME NEW q \in Rec, NEW writes \in Nat, NEW n \in Nat
  PROVE  [q EXCEPT !.writes = writes, !.auth = n, !.saw = n] \in Rec
BY DEF Rec

\* The token seen in the cache.
LEMMA SawField ==
  ASSUME NEW q \in Rec, NEW n \in Nat
  PROVE  [q EXCEPT !.saw = n] \in Rec
BY DEF Rec

\* Moving a record on changes its step only.
LEMMA AtIs ==
  ASSUME NEW q \in Rec, NEW pc \in Pcs
  PROVE  /\ At(q, pc) \in Rec /\ Same(At(q, pc), q) /\ At(q, pc).pc = pc
         /\ At(q, pc).state = q.state /\ At(q, pc).charge = q.charge /\ At(q, pc).queued = q.queued
<1>1. At(q, pc) \in Rec
  BY DEF At, Rec, Pcs
<1>3. Same(At(q, pc), q)
  BY DEF At, Rec, Same
<1>2. At(q, pc) = [q EXCEPT !.pc = pc]
  BY DEF At
<1>4. /\ [q EXCEPT !.pc = pc].pc = pc /\ [q EXCEPT !.pc = pc].state = q.state
      /\ [q EXCEPT !.pc = pc].charge = q.charge /\ [q EXCEPT !.pc = pc].queued = q.queued
  BY DEF Rec
<1> QED  BY <1>1, <1>2, <1>3, <1>4

\* A claim without usage changes the claimed state only.
LEMMA UnobservedIs ==
  ASSUME NEW q \in Rec, ~claimed(q), NEW state \in States
  PROVE  /\ claim_unobserved(q, state) \in Rec /\ Same(claim_unobserved(q, state), q)
         /\ claim_unobserved(q, state).pc = q.pc /\ claim_unobserved(q, state).state = state
         /\ claim_unobserved(q, state).charge = q.charge /\ claim_unobserved(q, state).queued = q.queued
<1>1. claim_unobserved(q, state) = [q EXCEPT !.state = state]
  BY DEF claim_unobserved
<1>2. [q EXCEPT !.state = state] \in Rec /\ Same([q EXCEPT !.state = state], q)
  BY DEF Rec, Same
<1>3. /\ [q EXCEPT !.state = state].pc = q.pc /\ [q EXCEPT !.state = state].state = state
      /\ [q EXCEPT !.state = state].charge = q.charge /\ [q EXCEPT !.state = state].queued = q.queued
  BY DEF Rec
<1> QED  BY <1>1, <1>2, <1>3

Charge(q, clean, final) ==
  IF clean /\ ~final THEN "bound" ELSE IF q.usage THEN "observed" ELSE "zero"

\* The charge of a record.
LEMMA ChargeIs ==
  ASSUME NEW q \in Rec, NEW ch \in {None, "bound", "observed", "zero"}
  PROVE  [q EXCEPT !.charge = ch] \in Rec
BY DEF Rec

\* A claim to settle changes the claimed state and the charge only.
LEMMA SettleIs ==
  ASSUME NEW q \in Rec, ~claimed(q), NEW clean \in BOOLEAN, NEW final \in BOOLEAN
  PROVE  /\ claim_settle(q, clean, final) \in Rec /\ Same(claim_settle(q, clean, final), q)
         /\ claim_settle(q, clean, final).pc = q.pc /\ claim_settle(q, clean, final).state = "settled_final"
         /\ claim_settle(q, clean, final).charge = Charge(q, clean, final)
         /\ claim_settle(q, clean, final).queued = q.queued
<1>1. PICK ch \in {None, "bound", "observed", "zero"} : ch = Charge(q, clean, final)
  BY DEF Charge
<1> DEFINE p == [q EXCEPT !.state = "settled_final", !.charge = ch]
<1>2. claim_settle(q, clean, final) = p
  BY <1>1 DEF claim_settle, Charge
<1>3. p \in Rec
  <2>1. q \in Rec /\ "settled_final" \in States \cup {None}
    BY DEF States
  <2>2. [q EXCEPT !.state = "settled_final"] \in Rec
    BY <2>1 DEF Rec
  <2>3. p = [[q EXCEPT !.state = "settled_final"] EXCEPT !.charge = ch]
    BY DEF Rec
  <2> QED  BY <2>2, <2>3, ChargeIs
<1>4. Same(p, q)
  BY DEF Rec, Same
<1>5. p.pc = q.pc /\ p.state = "settled_final" /\ p.charge = ch /\ p.queued = q.queued
  BY DEF Rec
<1> QED  BY <1>1, <1>2, <1>3, <1>4, <1>5

\* Handing the write to a task changes neither the claim nor what is known.
LEMMA DetachedIs ==
  ASSUME NEW q \in Rec
  PROVE  /\ detached(q) \in Rec /\ Same(detached(q), q) /\ detached(q).pc = q.pc
         /\ detached(q).state = q.state /\ detached(q).charge = q.charge
<1> DEFINE p == [q EXCEPT !.queued = @ + 1]
<1>1. p \in Rec /\ Same(p, q) /\ p.pc = q.pc /\ p.state = q.state /\ p.charge = q.charge
  BY DEF Rec, Same
<1> QED  BY <1>1 DEF detached, Same

\* A stream that is interrupted is charged what was seen, or the reservation is kept.
LEMMA InterruptedIs ==
  ASSUME NEW q \in Rec, ~claimed(q), NEW state \in States,
         q.sent => q.left = announces(q.route),
         ~q.sent => ~q.worked,
         q.worked /\ ~q.usage => state = "submitted_unsettled" \/
           (Excused(q) /\ state \in {"not_submitted", "rejected_pre_inference"})
  PROVE  /\ claim_stream_interrupted(q, state) \in Rec /\ Same(claim_stream_interrupted(q, state), q)
         /\ claim_stream_interrupted(q, state).pc = q.pc /\ claimed(claim_stream_interrupted(q, state))
         /\ Enforced /\ q.worked => Just(claim_stream_interrupted(q, state))
<1> USE DEF claimed
<1>1. CASE ~q.sent
  <2>1. claim_stream_interrupted(q, state) = claim_unobserved(q, "not_submitted")
    BY <1>1 DEF claim_stream_interrupted, claim_not_submitted
  <2> QED  BY <1>1, <2>1, UnobservedIs DEF States
<1>2. CASE q.sent /\ (q.usage \/ ~Enforced)
  <2>1. claim_stream_interrupted(q, state) = claim_settle(q, FALSE, TRUE)
    BY <1>2 DEF claim_stream_interrupted
  <2>2. Enforced => Charge(q, FALSE, TRUE) = "observed"
    BY <1>2 DEF Charge
  <2>3. LET p == claim_settle(q, FALSE, TRUE) IN
        p \in Rec /\ Same(p, q) /\ p.pc = q.pc /\ p.state = "settled_final" /\ p.charge = Charge(q, FALSE, TRUE)
    BY SettleIs
  <2> QED  BY <2>1, <2>2, <2>3 DEF Just
<1>3. CASE q.sent /\ ~q.usage /\ Enforced
  <2>1. PICK s \in {"submitted_unsettled", state} :
        claim_stream_interrupted(q, state) = claim_unobserved(q, s)
    BY <1>3 DEF claim_stream_interrupted
  <2>2. s \in States
    BY <2>1 DEF States
  <2>3. LET p == claim_unobserved(q, s) IN
        p \in Rec /\ Same(p, q) /\ p.pc = q.pc /\ p.state = s
    BY <2>2, UnobservedIs
  <2>4. q.worked => Just(claim_unobserved(q, s))
    BY <1>3, <2>1, <2>3 DEF Just, Excused, Same
  <2> QED  BY <2>1, <2>2, <2>3, <2>4 DEF States
<1> QED  BY <1>1, <1>2, <1>3, ServingAssumption DEF Rec

\* An ending that is claimed, where the work that was done allows it.
LEMMA Ends ==
  ASSUME NEW q \in Rec, ~claimed(q), ~q.started, Once(q), NEW p \in Rec, Same(p, q), claimed(p),
         p.pc \in After, q.thread # None => q.got = None /\ p.pc = "closed",
         Enforced /\ q.worked => Just(p)
  PROVE  Good(p)
BY DEF Good, Sound, Unsent, Underway, Claims, Threaded, Worked, Once, Same, Before, Calling, HasAnswer, After

\* An ending that was claimed is handed over again, or its handler moves on.
LEMMA Dispatches ==
  ASSUME NEW q, Good(q), claimed(q), NEW p \in Rec, Same(p, q), p.state = q.state, p.charge = q.charge,
         p.pc \in After, p.pc = "closed" \/ q.pc # "closed"
  PROVE  Good(p)
BY DEF Good, Sound, Unsent, Underway, Claims, Threaded, Worked, Just, Remembered, Blind, Excused, Once, Same,
       Before, Calling, HasAnswer, After, claimed

\* Records that are the same but for the ending agree about a refused token.
LEMMA SameRefused ==
  ASSUME NEW p, NEW q, Same(p, q)
  PROVE  Refused(p, q) /\ p.thread = q.thread
BY DEF Same, Refused

-----------------------------------------------------------------------------
(* What a step makes of a record. *)

\* A request begins.
LEMMA OpenIs ==
  ASSUME NEW q, Good(q), NEW route \in Routes, NEW pc \in {"prologue", "call", "auth"}, q.pc = "idle"
  PROVE  LET p == [q EXCEPT !.route = route, !.pc = pc] IN Good(p) /\ Refused(p, q) /\ p.thread = q.thread
<1>1. q \in Rec
  BY DEF Good
<1> DEFINE p == [q EXCEPT !.route = route, !.pc = pc]
<1>2. [q EXCEPT !.route = route, !.pc = pc] = p
  OBVIOUS
<1>0. route # None
  BY DEF Routes, Converse, OpenAI
<1>3. p \in Rec
  <2> DEFINE h == [q EXCEPT !.route = route]
  <2>1. h \in Rec /\ pc \in Pcs
    BY <1>1, RouteField DEF Pcs, Before
  <2>2. p = [h EXCEPT !.pc = pc]
    OBVIOUS
  <2> HIDE DEF h, p
  <2> QED  BY <2>1, <2>2, PcField
<1>4. /\ p.route = route /\ p.pc = pc
      /\ p.auth = q.auth /\ p.thread = q.thread /\ p.sent = q.sent /\ p.left = q.left
      /\ p.responded = q.responded /\ p.usage = q.usage /\ p.got = q.got /\ p.last = q.last
      /\ p.state = q.state /\ p.charge = q.charge /\ p.queued = q.queued
      /\ p.started = q.started /\ p.effect = q.effect /\ p.writes = q.writes
      /\ p.worked = q.worked
  BY <1>1 DEF Rec
<1> HIDE DEF p
<1>5. Sound(p) /\ Refused(p, q)
  BY <1>0, <1>1, <1>4 DEF Refused, Good, Sound, Unsent, Underway, Claims, Threaded, Worked, Just,
                          Remembered, Blind, Excused, Once, claimed, Before, Calling, HasAnswer, After
<1> QED  BY <1>2, <1>3, <1>4, <1>5 DEF Good

\* The first frames are out.
LEMMA PrologueIs ==
  ASSUME NEW q, Good(q), q.pc = "prologue"
  PROVE  LET p == At(q, "call") IN Good(p) /\ Refused(p, q) /\ p.thread = q.thread
<1>1. q \in Rec
  BY DEF Good
<1> DEFINE p == At(q, "call")
<1>2. At(q, "call") = p
  OBVIOUS
<1>3. p \in Rec
  BY <1>1, AtIs DEF Pcs, Before
<1>4. /\ p.pc = "call"
      /\ p.route = q.route /\ p.auth = q.auth /\ p.thread = q.thread /\ p.sent = q.sent
      /\ p.left = q.left /\ p.responded = q.responded /\ p.usage = q.usage /\ p.got = q.got
      /\ p.last = q.last /\ p.state = q.state /\ p.charge = q.charge /\ p.queued = q.queued
      /\ p.started = q.started /\ p.effect = q.effect /\ p.writes = q.writes
      /\ p.worked = q.worked
  BY <1>1, AtIs DEF Same, Pcs, Before
<1> HIDE DEF p
<1>5. Sound(p) /\ Refused(p, q)
  BY <1>1, <1>4 DEF Refused, Good, Sound, Unsent, Underway, Claims, Threaded, Worked, Just, Remembered,
                    Blind, Excused, Once, claimed, Before, Calling, HasAnswer, After
<1> QED  BY <1>2, <1>3, <1>4, <1>5 DEF Good

\* It has its token.
LEMMA AuthoriseIs ==
  ASSUME NEW q, Good(q), NEW n \in Nat, q.pc = "auth" \/ q.thread # None
  PROVE  LET p == Authorise(q, n) IN Good(p) /\ Refused(p, q)
<1>1. q \in Rec
  BY DEF Good
<1>v0. PICK pc \in Before \cup Calling \cup After \cup {"raised"} :
        pc = (IF q.pc = "auth" THEN "call" ELSE q.pc)
  BY <1>1 DEF Rec, Before
<1> DEFINE p == [q EXCEPT !.auth = n, !.thread = None, !.pc = pc]
<1>2. Authorise(q, n) = p
  BY <1>v0 DEF Authorise
<1>3. p \in Rec
  <2> DEFINE h == [q EXCEPT !.auth = n, !.thread = None]
  <2>1. h \in Rec /\ pc \in Pcs
    BY <1>1, TokenFields DEF Pcs
  <2>2. p = [h EXCEPT !.pc = pc]
    OBVIOUS
  <2> HIDE DEF h, p
  <2> QED  BY <2>1, <2>2, PcField
<1>4. /\ p.auth = n /\ p.thread = None /\ p.pc = pc
      /\ p.route = q.route /\ p.sent = q.sent /\ p.left = q.left /\ p.responded = q.responded
      /\ p.usage = q.usage /\ p.got = q.got /\ p.last = q.last /\ p.state = q.state
      /\ p.charge = q.charge /\ p.queued = q.queued /\ p.started = q.started
      /\ p.effect = q.effect /\ p.writes = q.writes /\ p.worked = q.worked
  BY <1>1 DEF Rec
<1> HIDE DEF p
<1>5. Sound(p) /\ Refused(p, q)
  BY <1>1, <1>4, <1>v0 DEF Refused, Good, Sound, Unsent, Underway, Claims, Threaded, Worked, Just,
                           Remembered, Blind, Excused, Once, claimed, Before, Calling, HasAnswer, After
<1> QED  BY <1>2, <1>3, <1>4, <1>5, <1>v0 DEF Good

\* Its thread waits for the lock, mints, or does neither.
LEMMA ThreadIs ==
  ASSUME NEW q, Good(q), NEW th \in {"lock", "mint", None}, th # None => q.pc = "auth" \/ q.thread # None
  PROVE  LET p == [q EXCEPT !.thread = th] IN Good(p) /\ Refused(p, q)
<1>1. q \in Rec
  BY DEF Good
<1> DEFINE p == [q EXCEPT !.thread = th]
<1>2. [q EXCEPT !.thread = th] = p
  OBVIOUS
<1>3. p \in Rec
  BY <1>1 DEF Rec
<1>4. /\ p.thread = th
      /\ p.route = q.route /\ p.pc = q.pc /\ p.auth = q.auth /\ p.sent = q.sent
      /\ p.left = q.left /\ p.responded = q.responded /\ p.usage = q.usage /\ p.got = q.got
      /\ p.last = q.last /\ p.state = q.state /\ p.charge = q.charge /\ p.queued = q.queued
      /\ p.started = q.started /\ p.effect = q.effect /\ p.writes = q.writes
      /\ p.worked = q.worked
  BY <1>1 DEF Rec
<1> HIDE DEF p
<1>5. Sound(p) /\ Refused(p, q)
  BY <1>1, <1>4 DEF Refused, Good, Sound, Unsent, Underway, Claims, Threaded, Worked, Just, Remembered,
                    Blind, Excused, Once, claimed, Before, Calling, HasAnswer, After
<1> QED  BY <1>2, <1>3, <1>4, <1>5 DEF Good

\* It calls.
LEMMA CallIs ==
  ASSUME NEW q, Good(q), q.pc = "call"
  PROVE  LET p == [q EXCEPT !.pc = IF q.route = "messages_stream" THEN "route" ELSE "waiting",
                           !.sent = TRUE, !.left = announces(q.route)]
         IN Good(p) /\ Refused(p, q) /\ p.thread = q.thread
<1>1. q \in Rec
  BY DEF Good
<1>v0. PICK pc \in Before \cup Calling \cup After \cup {"raised"} :
        pc = (IF q.route = "messages_stream" THEN "route" ELSE "waiting")
  BY <1>1 DEF Calling
<1>v1. PICK left \in BOOLEAN : left = (announces(q.route))
  BY <1>1 DEF announces
<1> DEFINE p == [q EXCEPT !.pc = pc,
                           !.sent = TRUE, !.left = left]
<1>2. [q EXCEPT !.pc = IF q.route = "messages_stream" THEN "route" ELSE "waiting",
                           !.sent = TRUE, !.left = announces(q.route)] = p
  BY <1>v0, <1>v1
<1>3. p \in Rec
  <2> DEFINE h == [q EXCEPT !.pc = pc]
  <2>1. h \in Rec
    BY <1>1, PcField DEF Pcs
  <2>2. p = [h EXCEPT !.sent = TRUE, !.left = left]
    OBVIOUS
  <2> HIDE DEF h, p
  <2> QED  BY <2>1, <2>2, SentFields
<1>4. /\ p.pc = pc /\ p.sent = TRUE /\ p.left = left
      /\ p.route = q.route /\ p.auth = q.auth /\ p.thread = q.thread
      /\ p.responded = q.responded /\ p.usage = q.usage /\ p.got = q.got /\ p.last = q.last
      /\ p.state = q.state /\ p.charge = q.charge /\ p.queued = q.queued
      /\ p.started = q.started /\ p.effect = q.effect /\ p.writes = q.writes
      /\ p.worked = q.worked
  BY <1>1 DEF Rec
<1> HIDE DEF p
<1>5. Sound(p) /\ Refused(p, q)
  BY <1>1, <1>4, <1>v0, <1>v1 DEF Refused, Good, Sound, Unsent, Underway, Claims, Threaded, Worked,
                                  Just, Remembered, Blind, Excused, Once, claimed, Before, Calling, HasAnswer,
                                  After
<1> QED  BY <1>2, <1>3, <1>4, <1>5, <1>v0, <1>v1 DEF Good

\* What is known of the provider's work once a call has failed in this way.
FailsWith(q, kind, worked) ==
  worked \in BOOLEAN /\ \E w \in MayWork(kind) : worked = (q.worked \/ w)

\* Its call fails.
LEMMA FailIs ==
  ASSUME NEW q, Good(q), NEW kind \in Failures, q.pc = "waiting",
         kind = "unauthorized" => q.auth \in revoked, NEW worked, FailsWith(q, kind, worked)
  PROVE  LET p == [q EXCEPT !.pc = "got", !.got = kind, !.worked = worked]
         IN Good(p) /\ Refused(p, q) /\ p.thread = q.thread
<1>1. q \in Rec
  BY DEF Good
<1>v0. worked \in BOOLEAN /\ \E w \in MayWork(kind) : worked = (q.worked \/ w)
  BY DEF FailsWith
<1> DEFINE p == [q EXCEPT !.pc = "got", !.got = kind, !.worked = worked]
<1>2. [q EXCEPT !.pc = "got", !.got = kind, !.worked = worked] = p
  OBVIOUS
<1>3. p \in Rec
  <2> DEFINE h == [q EXCEPT !.pc = "got"]
             k == [h EXCEPT !.got = kind]
  <2>1. h \in Rec
    BY <1>1, PcField DEF Pcs, Calling, HasAnswer
  <2>2. p = [k EXCEPT !.worked = worked]
    OBVIOUS
  <2> HIDE DEF h, p
  <2>3. k \in Rec
    BY <2>1, GotField
  <2> HIDE DEF k
  <2> QED  BY <1>v0, <2>2, <2>3, WorkedField
<1>4. /\ p.pc = "got" /\ p.got = kind /\ p.worked = worked
      /\ p.route = q.route /\ p.auth = q.auth /\ p.thread = q.thread /\ p.sent = q.sent
      /\ p.left = q.left /\ p.responded = q.responded /\ p.usage = q.usage /\ p.last = q.last
      /\ p.state = q.state /\ p.charge = q.charge /\ p.queued = q.queued
      /\ p.started = q.started /\ p.effect = q.effect /\ p.writes = q.writes
  BY <1>1 DEF Rec
<1> HIDE DEF p
<1>5. Sound(p) /\ Refused(p, q)
  BY <1>1, <1>4, <1>v0 DEF Refused, MayWork, Failures, Refusals, Good, Sound, Unsent, Underway, Claims,
                           Threaded, Worked, Just, Remembered, Blind, Excused, Once, claimed, Before,
                           Calling, HasAnswer, After
<1> QED  BY <1>2, <1>3, <1>4, <1>5 DEF Good

\* Its call is answered.
LEMMA AnswerIs ==
  ASSUME NEW q, Good(q), NEW usage \in BOOLEAN, q.pc = "waiting"
  PROVE  LET p == [q EXCEPT !.pc = "got", !.got = "answer", !.usage = usage, !.worked = TRUE]
         IN Good(p) /\ Refused(p, q) /\ p.thread = q.thread
<1>1. q \in Rec
  BY DEF Good
<1> DEFINE p == [q EXCEPT !.pc = "got", !.got = "answer", !.usage = usage, !.worked = TRUE]
<1>2. [q EXCEPT !.pc = "got", !.got = "answer", !.usage = usage, !.worked = TRUE] = p
  OBVIOUS
<1>3. p \in Rec
  <2> DEFINE h == [q EXCEPT !.pc = "got"]
             k == [h EXCEPT !.got = "answer"]
             l == [k EXCEPT !.usage = usage]
  <2>1. h \in Rec
    BY <1>1, PcField DEF Pcs, Calling, HasAnswer
  <2>2. p = [l EXCEPT !.worked = TRUE]
    OBVIOUS
  <2> HIDE DEF h, p
  <2>3. k \in Rec
    BY <2>1, GotField
  <2> HIDE DEF k
  <2>4. l \in Rec
    BY <2>3, UsageField
  <2> HIDE DEF l
  <2> QED  BY <2>2, <2>4, WorkedField
<1>4. /\ p.pc = "got" /\ p.got = "answer" /\ p.usage = usage /\ p.worked = TRUE
      /\ p.route = q.route /\ p.auth = q.auth /\ p.thread = q.thread /\ p.sent = q.sent
      /\ p.left = q.left /\ p.responded = q.responded /\ p.last = q.last /\ p.state = q.state
      /\ p.charge = q.charge /\ p.queued = q.queued /\ p.started = q.started
      /\ p.effect = q.effect /\ p.writes = q.writes
  BY <1>1 DEF Rec
<1> HIDE DEF p
<1>5. Sound(p) /\ Refused(p, q)
  BY <1>1, <1>4 DEF Refused, Good, Sound, Unsent, Underway, Claims, Threaded, Worked, Just, Remembered,
                    Blind, Excused, Once, claimed, Before, Calling, HasAnswer, After
<1> QED  BY <1>2, <1>3, <1>4, <1>5 DEF Good

\* Its chain of targets is at its end.
LEMMA GiveUpIs ==
  ASSUME NEW q, Good(q), q.pc = "route"
  PROVE  LET p == [q EXCEPT !.pc = "got", !.got = IF q.last = None THEN "exhausted" ELSE q.last]
         IN Good(p) /\ Refused(p, q) /\ p.thread = q.thread
<1>1. q \in Rec
  BY DEF Good
<1>v0. PICK got \in Failures \cup {None, "answer", "exhausted"} :
        got = (IF q.last = None THEN "exhausted" ELSE q.last)
  BY <1>1 DEF Rec, Failures, Failovers
<1> DEFINE p == [q EXCEPT !.pc = "got", !.got = got]
<1>2. [q EXCEPT !.pc = "got", !.got = IF q.last = None THEN "exhausted" ELSE q.last] = p
  BY <1>v0
<1>3. p \in Rec
  <2> DEFINE h == [q EXCEPT !.pc = "got"]
  <2>1. h \in Rec
    BY <1>1, PcField DEF Pcs, Calling, HasAnswer
  <2>2. p = [h EXCEPT !.got = got]
    OBVIOUS
  <2> HIDE DEF h, p
  <2> QED  BY <2>1, <2>2, GotField
<1>4. /\ p.pc = "got" /\ p.got = got
      /\ p.route = q.route /\ p.auth = q.auth /\ p.thread = q.thread /\ p.sent = q.sent
      /\ p.left = q.left /\ p.responded = q.responded /\ p.usage = q.usage /\ p.last = q.last
      /\ p.state = q.state /\ p.charge = q.charge /\ p.queued = q.queued
      /\ p.started = q.started /\ p.effect = q.effect /\ p.writes = q.writes
      /\ p.worked = q.worked
  BY <1>1 DEF Rec
<1> HIDE DEF p
<1>5. Sound(p) /\ Refused(p, q)
  BY <1>1, <1>4, <1>v0 DEF Refused, Failovers, Refusals, Rec, Good, Sound, Unsent, Underway, Claims,
                           Threaded, Worked, Just, Remembered, Blind, Excused, Once, claimed, Before,
                           Calling, HasAnswer, After
<1> QED  BY <1>2, <1>3, <1>4, <1>5, <1>v0 DEF Good

\* A target in its cooldown is passed over.
LEMMA SkipIs ==
  ASSUME NEW q, Good(q), q.pc = "route"
  PROVE  LET p == [q EXCEPT !.target = @ + 1] IN Good(p) /\ Refused(p, q) /\ p.thread = q.thread
<1>1. q \in Rec
  BY DEF Good
<1> DEFINE p == [q EXCEPT !.target = @ + 1]
<1>2. [q EXCEPT !.target = @ + 1] = p
  OBVIOUS
<1>3. p \in Rec
  BY <1>1 DEF Rec
<1>4. /\ p.pc = q.pc
      /\ p.route = q.route /\ p.auth = q.auth /\ p.thread = q.thread /\ p.sent = q.sent
      /\ p.left = q.left /\ p.responded = q.responded /\ p.usage = q.usage /\ p.got = q.got
      /\ p.last = q.last /\ p.state = q.state /\ p.charge = q.charge /\ p.queued = q.queued
      /\ p.started = q.started /\ p.effect = q.effect /\ p.writes = q.writes
      /\ p.worked = q.worked
  BY <1>1 DEF Rec
<1> HIDE DEF p
<1>5. Sound(p) /\ Refused(p, q)
  BY <1>1, <1>4 DEF Refused, Good, Sound, Unsent, Underway, Claims, Threaded, Worked, Just, Remembered,
                    Blind, Excused, Once, claimed, Before, Calling, HasAnswer, After
<1> QED  BY <1>2, <1>3, <1>4, <1>5 DEF Good

\* A target is tried.
LEMMA TryIs ==
  ASSUME NEW q, Good(q), q.pc = "route"
  PROVE  LET p == At(q, "waiting") IN Good(p) /\ Refused(p, q) /\ p.thread = q.thread
<1>1. q \in Rec
  BY DEF Good
<1> DEFINE p == At(q, "waiting")
<1>2. At(q, "waiting") = p
  OBVIOUS
<1>3. p \in Rec
  BY <1>1, AtIs DEF Pcs, Calling, HasAnswer
<1>4. /\ p.pc = "waiting"
      /\ p.route = q.route /\ p.auth = q.auth /\ p.thread = q.thread /\ p.sent = q.sent
      /\ p.left = q.left /\ p.responded = q.responded /\ p.usage = q.usage /\ p.got = q.got
      /\ p.last = q.last /\ p.state = q.state /\ p.charge = q.charge /\ p.queued = q.queued
      /\ p.started = q.started /\ p.effect = q.effect /\ p.writes = q.writes
      /\ p.worked = q.worked
  BY <1>1, AtIs DEF Same, Pcs, Calling
<1> HIDE DEF p
<1>5. Sound(p) /\ Refused(p, q)
  BY <1>1, <1>4 DEF Refused, Good, Sound, Unsent, Underway, Claims, Threaded, Worked, Just, Remembered,
                    Blind, Excused, Once, claimed, Before, Calling, HasAnswer, After
<1> QED  BY <1>2, <1>3, <1>4, <1>5 DEF Good

\* An attempt failed, and the chain goes on.
LEMMA NextTryIs ==
  ASSUME NEW q, Good(q), NEW try \in Nat, NEW target \in Nat, q.pc = "got", q.got \in Failovers
  PROVE  LET p == [q EXCEPT !.pc = "route", !.last = q.got, !.try = try, !.target = target]
         IN Good(p) /\ Refused(p, q) /\ p.thread = q.thread
<1>1. q \in Rec
  BY DEF Good
<1> DEFINE p == [q EXCEPT !.pc = "route", !.last = q.got, !.try = try, !.target = target]
<1>2. [q EXCEPT !.pc = "route", !.last = q.got, !.try = try, !.target = target] = p
  OBVIOUS
<1>3. p \in Rec
  BY <1>1 DEF Rec, Calling
<1>4. /\ p.pc = "route" /\ p.last = q.got
      /\ p.route = q.route /\ p.auth = q.auth /\ p.thread = q.thread /\ p.sent = q.sent
      /\ p.left = q.left /\ p.responded = q.responded /\ p.usage = q.usage /\ p.got = q.got
      /\ p.state = q.state /\ p.charge = q.charge /\ p.queued = q.queued
      /\ p.started = q.started /\ p.effect = q.effect /\ p.writes = q.writes
      /\ p.worked = q.worked
  BY <1>1 DEF Rec
<1> HIDE DEF p
<1>5. Sound(p) /\ Refused(p, q)
  BY <1>1, <1>4 DEF Refused, Failovers, Good, Sound, Unsent, Underway, Claims, Threaded, Worked, Just,
                    Remembered, Blind, Excused, Once, claimed, Before, Calling, HasAnswer, After
<1> QED  BY <1>2, <1>3, <1>4, <1>5 DEF Good

\* Its stream begins.
LEMMA BeginIs ==
  ASSUME NEW q, Good(q), q.pc = "got", q.got = "answer"
  PROVE  LET p == [q EXCEPT !.pc = "streaming", !.responded = (q.route = "messages_stream")]
         IN Good(p) /\ Refused(p, q) /\ p.thread = q.thread
<1>1. q \in Rec
  BY DEF Good
<1>v0. PICK responded \in BOOLEAN : responded = (q.route = "messages_stream")
  BY <1>1 DEF Rec
<1> DEFINE p == [q EXCEPT !.pc = "streaming", !.responded = responded]
<1>2. [q EXCEPT !.pc = "streaming", !.responded = (q.route = "messages_stream")] = p
  BY <1>v0
<1>3. p \in Rec
  BY <1>1 DEF Rec, Calling
<1>4. /\ p.pc = "streaming" /\ p.responded = responded
      /\ p.route = q.route /\ p.auth = q.auth /\ p.thread = q.thread /\ p.sent = q.sent
      /\ p.left = q.left /\ p.usage = q.usage /\ p.got = q.got /\ p.last = q.last
      /\ p.state = q.state /\ p.charge = q.charge /\ p.queued = q.queued
      /\ p.started = q.started /\ p.effect = q.effect /\ p.writes = q.writes
      /\ p.worked = q.worked
  BY <1>1 DEF Rec
<1> HIDE DEF p
<1>5. Sound(p) /\ Refused(p, q)
  BY <1>1, <1>4, <1>v0 DEF Refused, Good, Sound, Unsent, Underway, Claims, Threaded, Worked, Just,
                           Remembered, Blind, Excused, Once, claimed, Before, Calling, HasAnswer, After
<1> QED  BY <1>2, <1>3, <1>4, <1>5, <1>v0 DEF Good

\* An event of its stream.
LEMMA EventIs ==
  ASSUME NEW q, Good(q), NEW usage \in BOOLEAN, q.pc = "streaming"
  PROVE  LET p == [q EXCEPT !.responded = TRUE, !.usage = usage]
         IN Good(p) /\ Refused(p, q) /\ p.thread = q.thread
<1>1. q \in Rec
  BY DEF Good
<1> DEFINE p == [q EXCEPT !.responded = TRUE, !.usage = usage]
<1>2. [q EXCEPT !.responded = TRUE, !.usage = usage] = p
  OBVIOUS
<1>3. p \in Rec
  BY <1>1 DEF Rec
<1>4. /\ p.responded = TRUE /\ p.usage = usage
      /\ p.route = q.route /\ p.pc = q.pc /\ p.auth = q.auth /\ p.thread = q.thread
      /\ p.sent = q.sent /\ p.left = q.left /\ p.got = q.got /\ p.last = q.last
      /\ p.state = q.state /\ p.charge = q.charge /\ p.queued = q.queued
      /\ p.started = q.started /\ p.effect = q.effect /\ p.writes = q.writes
      /\ p.worked = q.worked
  BY <1>1 DEF Rec
<1> HIDE DEF p
<1>5. Sound(p) /\ Refused(p, q)
  BY <1>1, <1>4 DEF Refused, Good, Sound, Unsent, Underway, Claims, Threaded, Worked, Just, Remembered,
                    Blind, Excused, Once, claimed, Before, Calling, HasAnswer, After
<1> QED  BY <1>2, <1>3, <1>4, <1>5 DEF Good

\* A thread of the pool takes a write.
LEMMA DequeueIs ==
  ASSUME NEW q, Good(q), q.queued > 0
  PROVE  LET p == [q EXCEPT !.queued = @ - 1] IN
         p \in Rec /\ Same(p, q) /\ p.pc = q.pc /\ p.state = q.state /\ p.charge = q.charge /\ Good(p)
<1> DEFINE p == [q EXCEPT !.queued = @ - 1]
<1>1. q \in Rec /\ claimed(q)
  BY DEF Good, Sound, Claims
<1>2. p \in Rec
  BY <1>1 DEF Rec
<1>3. Same(p, q)
  BY <1>1 DEF Rec, Same
<1>4. p.pc = q.pc /\ p.state = q.state /\ p.charge = q.charge /\ p.queued = q.queued - 1
  BY <1>1 DEF Rec
<1> HIDE DEF p
<1>5. Sound(p)
  BY <1>1, <1>3, <1>4 DEF Good, Sound, Unsent, Underway, Claims, Threaded, Worked, Just, Remembered, Blind,
                          Excused, Once, claimed, Same, Before, Calling, HasAnswer, After
<1> QED  BY <1>2, <1>3, <1>4, <1>5 DEF p, Good

\* What was seen of an attempt can be cleared.
LEMMA SeenCleared ==
  ASSUME NEW q \in Rec
  PROVE  [q EXCEPT !.sent = FALSE, !.left = FALSE, !.responded = FALSE, !.usage = FALSE] \in Rec
BY DEF Rec

\* So can its answer, with the chain back at its first target.
LEMMA CallCleared ==
  ASSUME NEW q \in Rec
  PROVE  [q EXCEPT !.got = None, !.target = 1, !.try = 1] \in Rec
BY DEF Rec

\* The ending is written, and what the handler saw is dropped.
LEMMA WriteIs ==
  ASSUME NEW q \in Rec, claimed(q), ~q.started, Once(q), Enforced /\ q.worked => Just(q)
  PROVE  LET p == Write(q) IN
         /\ p \in Rec /\ claimed(p) /\ p.started /\ Once(p) /\ Worked(p)
         /\ p.pc = q.pc /\ p.got = None /\ p.thread = q.thread
<1>1. PICK effect \in {None, "settled", "returned", "kept"} : effect = Effect(q)
  BY DEF Effect
<1>2. PICK writes \in Nat : writes = q.writes + 1
  BY DEF Rec
<1> DEFINE p == [q EXCEPT !.started = TRUE, !.effect = effect, !.writes = writes, !.auth = 0,
                          !.saw = 0, !.sent = FALSE, !.left = FALSE, !.responded = FALSE, !.usage = FALSE,
                          !.got = None, !.target = 1, !.try = 1]
<1>3. Write(q) = p
  BY <1>1, <1>2 DEF Write
<1>4. p \in Rec
  <2> DEFINE half == [q EXCEPT !.started = TRUE, !.effect = effect, !.writes = writes, !.auth = 0, !.saw = 0]
  <2>1. half \in Rec
    <3> DEFINE g == [q EXCEPT !.started = TRUE]
               h == [g EXCEPT !.effect = effect]
    <3>1. g \in Rec
      BY StartedField
    <3>2. half = [h EXCEPT !.writes = writes, !.auth = 0, !.saw = 0]
      OBVIOUS
    <3> HIDE DEF g, half
    <3>3. h \in Rec
      BY <3>1, EffectField
    <3> HIDE DEF h
    <3> QED  BY <3>2, <3>3, WriteFields
  <2>2. p = [half EXCEPT !.sent = FALSE, !.left = FALSE, !.responded = FALSE, !.usage = FALSE,
                         !.got = None, !.target = 1, !.try = 1]
    OBVIOUS
  <2> HIDE DEF half, p
  <2>3. p = [[half EXCEPT !.sent = FALSE, !.left = FALSE, !.responded = FALSE, !.usage = FALSE]
               EXCEPT !.got = None, !.target = 1, !.try = 1]
    BY <2>2
  <2> QED  BY <2>1, <2>3, SeenCleared, CallCleared
<1>5. /\ p.started = TRUE /\ p.effect = effect /\ p.writes = writes /\ p.got = None
      /\ p.route = q.route /\ p.pc = q.pc /\ p.thread = q.thread /\ p.last = q.last
      /\ p.state = q.state /\ p.charge = q.charge /\ p.worked = q.worked
  BY DEF Rec
<1> HIDE DEF p
<1>6. claimed(p) /\ Once(p)
  BY <1>2, <1>5 DEF claimed, Once, Rec
<1>7. Worked(p)
  BY <1>1, <1>5 DEF Worked, Just, Remembered, Blind, Excused, claimed, Effect, refunds_immediately,
                    liability_for, announces
<1> QED  BY <1>3, <1>4, <1>5, <1>6, <1>7

\* A record that is claimed, started and past the call is good.
LEMMA WrittenGood ==
  ASSUME NEW p \in Rec, claimed(p), p.started, Once(p), Worked(p), p.got = None, p.pc \in After,
         p.thread # None => p.pc = "closed"
  PROVE  Good(p)
BY DEF Good, Sound, Unsent, Underway, Claims, Threaded, Before, Calling, HasAnswer, After

\* After a step of one request all are good, and only its thread has moved.
LEMMA PutTurns ==
  ASSUME req \in [Requests -> Rec], \A x \in Requests : Good(req[x]), NEW r \in Requests, NEW th, Turns(r, th)
  PROVE  /\ req' \in [Requests -> Rec]
         /\ \A x \in Requests : /\ Good(req'[x]) /\ Refused(req'[x], req[x])
                                 /\ req'[x].thread = IF x = r THEN th ELSE req[x].thread
<1>1. PICK p : Put(r, p) /\ Good(p) /\ Refused(p, req[r]) /\ p.thread = th
  BY DEF Turns
<1>2. p \in Rec /\ req' = [req EXCEPT ![r] = p]
  BY <1>1 DEF Put, Good
<1>3. req' \in [Requests -> Rec] /\ req'[r] = p /\ \A x \in Requests \ {r} : req'[x] = req[x]
  BY <1>2
<1>4. \A x \in Requests : Refused(req[x], req[x])
  BY DEF Refused
<1> QED  BY <1>1, <1>3, <1>4

-----------------------------------------------------------------------------
(* The steps of a request. *)

\* A request that begins stays good.
LEMMA BeginGoes ==
  ASSUME NEW r \in Requests, Good(req[r]), Begin(r)
  PROVE  Goes(r)
<1>1. ASSUME NEW route \in Routes, NEW pc \in {"prologue", "call", "auth"}, Open(r, route, pc)
      PROVE  Goes(r)
  <2>1. Put(r, [req[r] EXCEPT !.route = route, !.pc = pc]) /\ req[r].pc = "idle"
    BY <1>1 DEF Open
  <2> DEFINE q == req[r]
             p == [q EXCEPT !.route = route, !.pc = pc]
  <2>2. Good(p) /\ Refused(p, q) /\ p.thread = q.thread
    BY <2>1, OpenIs
  <2>3. Put(r, p)
    BY <2>1
  <2> HIDE DEF p
  <2> QED  BY <2>2, <2>3 DEF Goes
<1> QED
  BY <1>1 DEF Begin, messages, stream_messages, chat_completions, stream_chat, openai_chat_completion, proxy,
              create_response, stream_response, Routes, Converse, OpenAI

\* So does one past its prologue.
LEMMA PrologueGoes ==
  ASSUME NEW r \in Requests, Good(req[r]), prologue(r)
  PROVE  Goes(r)
<1>1. Put(r, At(req[r], "call")) /\ req[r].pc = "prologue"
  BY DEF prologue
<1> QED  BY <1>1, PrologueIs DEF Goes

\* So does one whose call starts.
LEMMA CallGoes ==
  ASSUME NEW r \in Requests, Good(req[r]), provider_call_starting(r)
  PROVE  Goes(r)
<1>1. /\ req[r].pc = "call"
      /\ Put(r, [req[r] EXCEPT !.pc = IF req[r].route = "messages_stream" THEN "route" ELSE "waiting",
                               !.sent = TRUE, !.left = announces(req[r].route)])
  BY DEF provider_call_starting
<1> QED  BY <1>1, CallIs DEF Goes

\* So does one whose provider answers or fails.
LEMMA AnswerGoes ==
  ASSUME NEW r \in Requests, Good(req[r]), provider_answers(r)
  PROVE  Goes(r)
<1> USE DEF Goes
<1>1. ASSUME NEW kind \in FailuresOf[r], NEW w \in MayWork(kind),
             kind = "unauthorized" => req[r].auth \in revoked, req[r].pc = "waiting",
             Put(r, [req[r] EXCEPT !.pc = "got", !.got = kind, !.worked = req[r].worked \/ w])
      PROVE  Goes(r)
  <2>1. kind \in Failures
    BY ServingAssumption
  <2>2. PICK worked \in BOOLEAN : worked = (req[r].worked \/ w)
    BY DEF Good, Rec, MayWork
  <2> DEFINE p == [req[r] EXCEPT !.pc = "got", !.got = kind, !.worked = worked]
  <2>3. Put(r, p)
    BY <1>1, <2>2
  <2>4. Good(p) /\ Refused(p, req[r]) /\ p.thread = req[r].thread
    <3> DEFINE q == req[r]
               t == [q EXCEPT !.pc = "got", !.got = kind, !.worked = worked]
    <3>1. Good(q) /\ q.pc = "waiting" /\ (kind = "unauthorized" => q.auth \in revoked)
      BY <1>1
    <3>2. FailsWith(q, kind, worked)
      BY <1>1, <2>2 DEF FailsWith
    <3> HIDE DEF q
    <3>3. Good(t) /\ Refused(t, q) /\ t.thread = q.thread
      BY <2>1, <3>1, <3>2, FailIs, Zenon
    <3> QED  BY <3>3 DEF q
  <2> HIDE DEF p
  <2> QED  BY <2>3, <2>4
<1>2. ASSUME NEW usage \in BOOLEAN, req[r].pc = "waiting",
             Put(r, [req[r] EXCEPT !.pc = "got", !.got = "answer", !.usage = usage, !.worked = TRUE])
      PROVE  Goes(r)
  BY <1>2, AnswerIs
<1> QED  BY <1>1, <1>2 DEF provider_answers

\* So does one whose stream finds its target.
LEMMA RouteGoes ==
  ASSUME NEW r \in Requests, Good(req[r]), route_stream(r)
  PROVE  Goes(r)
<1> DEFINE q == req[r]
<1>1. q.pc = "route"
  BY DEF route_stream
<1>2. \/ Put(r, [q EXCEPT !.pc = "got", !.got = IF q.last = None THEN "exhausted" ELSE q.last])
      \/ Put(r, [q EXCEPT !.target = @ + 1])
      \/ Put(r, At(q, "waiting"))
  BY Zenon DEF route_stream
<1>3. ASSUME NEW p, Put(r, p), Good(p), Refused(p, q), p.thread = q.thread PROVE Goes(r)
  BY <1>3 DEF Goes
<1>4. CASE Put(r, [q EXCEPT !.pc = "got", !.got = IF q.last = None THEN "exhausted" ELSE q.last])
  BY <1>1, <1>3, <1>4, GiveUpIs
<1>5. CASE Put(r, [q EXCEPT !.target = @ + 1])
  BY <1>1, <1>3, <1>5, SkipIs
<1>6. CASE Put(r, At(q, "waiting"))
  BY <1>1, <1>3, <1>6, TryIs
<1> QED  BY <1>2, <1>4, <1>5, <1>6

\* So does one whose attempt failed, and goes on to the next or gives up.
LEMMA AttemptGoes ==
  ASSUME NEW r \in Requests, Good(req[r]), attempt_failed(r)
  PROVE  Goes(r)
<1> DEFINE q == req[r]
<1>1. q.pc = "got" /\ q.got \in Failovers /\ q.try \in Nat /\ q.target \in Nat
  BY DEF attempt_failed, classify, Failovers, Good, Rec
<1>2. \/ Put(r, [q EXCEPT !.pc = "route", !.last = q.got, !.try = q.try + 1])
      \/ Put(r, [q EXCEPT !.pc = "route", !.last = q.got, !.try = 1, !.target = q.target + 1])
  BY DEF attempt_failed
<1>3. [q EXCEPT !.pc = "route", !.last = q.got, !.try = q.try + 1]
        = [q EXCEPT !.pc = "route", !.last = q.got, !.try = q.try + 1, !.target = q.target]
  BY DEF Good, Rec
<1>4. ASSUME NEW try \in Nat, NEW target \in Nat,
             Put(r, [q EXCEPT !.pc = "route", !.last = q.got, !.try = try, !.target = target])
      PROVE  Goes(r)
  <2>1. LET p == [q EXCEPT !.pc = "route", !.last = q.got, !.try = try, !.target = target]
        IN  Good(p) /\ Refused(p, q) /\ p.thread = q.thread
    <3>1. Good(q)
      OBVIOUS
    <3> HIDE DEF q
    <3> QED  BY <1>1, <3>1, NextTryIs
  <2> QED  BY <1>4, <2>1 DEF Goes
<1>5. q.try + 1 \in Nat /\ 1 \in Nat /\ q.target + 1 \in Nat
  BY <1>1
<1> HIDE DEF q
<1> QED  BY <1>1, <1>2, <1>3, <1>4, <1>5

\* So does one whose stream begins or brings an event.
LEMMA StreamGoes ==
  ASSUME NEW r \in Requests, Good(req[r]), stream_begins(r) \/ Event(r)
  PROVE  Goes(r)
<1>1. CASE stream_begins(r)
  <2>1. /\ req[r].pc = "got" /\ req[r].got = "answer"
        /\ Put(r, [req[r] EXCEPT !.pc = "streaming", !.responded = (req[r].route = "messages_stream")])
    BY <1>1 DEF stream_begins, Got
  <2> QED  BY <2>1, BeginIs DEF Goes
<1>2. CASE Event(r)
  <2>1. PICK usage \in {req[r].usage, TRUE} :
          req[r].pc = "streaming" /\ Put(r, [req[r] EXCEPT !.responded = TRUE, !.usage = usage])
    BY <1>2 DEF Event, absorb, proxy_event, response_event, Absorb
  <2>2. usage \in BOOLEAN
    BY DEF Good, Rec
  <2> QED  BY <2>1, <2>2, EventIs DEF Goes
<1> QED  BY <1>1, <1>2

\* What was claimed is handed over again, or its handler moves on.
LEMMA DispatchGoes ==
  ASSUME NEW r \in Requests, Good(req[r]), claimed(req[r]), NEW p \in Rec, Put(r, p), Same(p, req[r]),
         p.state = req[r].state, p.charge = req[r].charge, p.pc \in After, p.pc = "closed" \/ req[r].pc # "closed"
  PROVE  Goes(r)
BY Dispatches, SameRefused DEF Goes

\* So does one that sends a frame or is resumed.
LEMMA FrameGoes ==
  ASSUME NEW r \in Requests, Good(req[r]), frame_sent(r) \/ awaited(r)
  PROVE  Goes(r)
<1> DEFINE q == req[r]
<1>1. q \in Rec /\ claimed(q) /\ q.pc \in {"frame", "awaiting"}
  BY DEF Good, Sound, Claims, After, frame_sent, awaited
<1>2. CASE frame_sent(r)
  <2>1. Put(r, At(detached(q), "awaiting"))
    BY <1>2 DEF frame_sent
  <2>2. LET d == detached(q) IN d \in Rec /\ Same(d, q) /\ d.state = q.state /\ d.charge = q.charge
    BY <1>1, DetachedIs
  <2>3. LET p == At(detached(q), "awaiting") IN
        p \in Rec /\ Same(p, q) /\ p.state = q.state /\ p.charge = q.charge /\ p.pc = "awaiting"
    BY <2>2, AtIs DEF Same, Pcs, After
  <2> QED  BY <1>1, <2>1, <2>3, DispatchGoes DEF After
<1>3. CASE awaited(r)
  <2>1. Put(r, At(q, "closed"))
    BY <1>3 DEF awaited
  <2>2. LET p == At(q, "closed") IN
        p \in Rec /\ Same(p, q) /\ p.state = q.state /\ p.charge = q.charge /\ p.pc = "closed"
    BY <1>1, AtIs DEF Pcs, After
  <2> QED  BY <1>1, <2>1, <2>2, DispatchGoes DEF After
<1> QED  BY <1>2, <1>3

\* So does one whose queued ending the executor runs.
LEMMA ExecutorGoes ==
  ASSUME NEW r \in Requests, Good(req[r]), executor(r)
  PROVE  Goes(r)
<1> DEFINE q == req[r]
           d == [q EXCEPT !.queued = @ - 1]
<1>1. q.queued > 0 /\ Put(r, run_ending(d))
  BY DEF executor
<1>2. d \in Rec /\ Same(d, q) /\ d.pc = q.pc /\ d.state = q.state /\ d.charge = q.charge /\ Good(d)
  BY <1>1, DequeueIs
<1>3. claimed(d) /\ d.pc \in After /\ (d.thread # None => d.pc = "closed")
  BY <1>1, <1>2 DEF Good, Sound, Unsent, Underway, Claims, Threaded, Rec, claimed, After
<1> HIDE DEF d
<1>4. CASE d.started
  BY <1>1, <1>2, <1>4, SameRefused DEF run_ending, Goes
<1>5. CASE ~d.started
  <2>1. Once(d) /\ (Enforced /\ d.worked => Just(d))
    BY <1>2, <1>3, <1>5 DEF Good, Sound, Worked
  <2>2. LET p == Write(d) IN Good(p) /\ p.thread = q.thread /\ p.got = None
    BY <1>2, <1>3, <1>5, <2>1, WriteIs, WrittenGood DEF Same
  <2>3. run_ending(d) = Write(d)
    BY <1>5 DEF run_ending
  <2> QED  BY <1>1, <2>2, <2>3 DEF Goes, Refused
<1> QED  BY <1>4, <1>5

-----------------------------------------------------------------------------
(* How a request ends. *)

\* A claim without usage is just, as long as it takes no work for a refusal.
LEMMA UnobservedJust ==
  ASSUME NEW q \in Rec, ~claimed(q), NEW state \in States \ {"settled_final"},
         q.worked => \/ state = "submitted_unsettled" /\ (q.left \/ ~announces(q.route))
                     \/ state # "submitted_unsettled" /\ Excused(q)
  PROVE  LET c == claim_unobserved(q, state) IN
         /\ c \in Rec /\ Same(c, q) /\ c.pc = q.pc /\ claimed(c)
         /\ Enforced /\ q.worked => Just(c)
<1> DEFINE c == claim_unobserved(q, state)
<1>1. c \in Rec /\ Same(c, q) /\ c.pc = q.pc /\ c.state = state
  BY UnobservedIs
<1> HIDE DEF c
<1>2. claimed(c)
  BY <1>1 DEF claimed, States
<1>3. q.worked => Just(c)
  BY <1>1 DEF Just, Excused, Same, States
<1> QED  BY <1>1, <1>2, <1>3 DEF c

\* A claim to settle is just: it has usage, or the route may settle without.
LEMMA SettleJust ==
  ASSUME NEW q \in Rec, ~claimed(q), NEW clean \in BOOLEAN, NEW final \in BOOLEAN,
         q.usage \/ (clean /\ ~final) \/ Blind(q)
  PROVE  LET c == claim_settle(q, clean, final) IN
         /\ c \in Rec /\ Same(c, q) /\ c.pc = q.pc /\ claimed(c)
         /\ Just(c)
<1> DEFINE c == claim_settle(q, clean, final)
<1>1. c \in Rec /\ Same(c, q) /\ c.pc = q.pc /\ c.state = "settled_final" /\ c.charge = Charge(q, clean, final)
  BY SettleIs
<1> HIDE DEF c
<1>2. claimed(c)
  BY <1>1 DEF claimed
<1>3. Just(c)
  BY <1>1 DEF Just, Blind, Same, Charge
<1> QED  BY <1>1, <1>2, <1>3 DEF c

\* A call that failed after work was done is not taken for one that was refused.
LEMMA FailureJust ==
  ASSUME NEW q, Good(q), q.pc \in HasAnswer, q.got # "answer"
  PROVE  /\ {classify_exception(q.got), Outcome(q.got)} \subseteq States \ {"settled_final"}
         /\ \A state \in {classify_exception(q.got), Outcome(q.got)} :
              q.worked => \/ state = "submitted_unsettled" /\ (q.left \/ ~announces(q.route))
                          \/ state # "submitted_unsettled" /\ Excused(q)
<1>1. /\ q.left = announces(q.route) /\ q.left \in BOOLEAN
      /\ q.worked /\ q.last = None => q.got \notin Refusals \cup {"connect"}
  BY DEF Good, Sound, Underway, Calling, Rec
<1>2. \/ q.got \in Refusals \cup {"connect"} /\
           classify_exception(q.got) \in {"not_submitted", "rejected_pre_inference"}
      \/ q.got \notin Refusals \cup {"connect"} /\ classify_exception(q.got) = "submitted_unsettled"
  BY Zenon DEF classify_exception
<1>3. \/ q.got \in Refusals \cup {"connect"} /\
           Outcome(q.got) \in {"not_submitted", "rejected_pre_inference"}
      \/ q.got \notin Refusals \cup {"connect"} /\ Outcome(q.got) = "submitted_unsettled"
  BY <1>2 DEF Outcome, HasStatus, classify_http_status, Refusals
<1>4. q.left \/ ~announces(q.route)
  BY <1>1
<1>5. q.worked /\ q.got \in Refusals \cup {"connect"} => Excused(q)
  BY <1>1 DEF Excused
<1>6. {classify_exception(q.got), Outcome(q.got)} \subseteq States \ {"settled_final"}
  BY <1>2, <1>3 DEF States
<1>7. ASSUME NEW state \in {classify_exception(q.got), Outcome(q.got)}, q.worked
      PROVE  \/ state = "submitted_unsettled" /\ (q.left \/ ~announces(q.route))
             \/ state # "submitted_unsettled" /\ Excused(q)
  BY <1>2, <1>3, <1>4, <1>5, <1>7
<1> QED  BY <1>6, <1>7

\* A claim that is moved on, or handed over, is the claim it was.
LEMMA Handed ==
  ASSUME NEW c \in Rec, claimed(c), NEW pc \in Pcs, NEW p, p = At(c, pc) \/ p = At(detached(c), pc)
  PROVE  p \in Rec /\ Same(p, c) /\ claimed(p) /\ p.pc = pc /\ p.state = c.state /\ p.charge = c.charge
         /\ (Just(c) => Just(p))
<1>1. LET d == detached(c) IN d \in Rec /\ Same(d, c) /\ d.state = c.state /\ d.charge = c.charge
  BY DetachedIs
<1>2. PICK d \in Rec : p = At(d, pc) /\ Same(d, c) /\ d.state = c.state /\ d.charge = c.charge
  BY <1>1 DEF Same
<1>3. p \in Rec /\ Same(p, c) /\ p.pc = pc /\ p.state = c.state /\ p.charge = c.charge
  BY <1>2, AtIs DEF Same
<1> QED  BY <1>3 DEF claimed, Just, Blind, Excused, Same

\* An ending that is claimed and handed over by itself.
LEMMA EndIs ==
  ASSUME NEW q \in Rec, ~claimed(q), ~q.started, Once(q),
         NEW c \in Rec, Same(c, q), claimed(c), Enforced /\ q.worked => Just(c),
         NEW pc \in After, q.thread # None => q.got = None /\ pc = "closed",
         NEW p, p = At(c, pc) \/ p = At(detached(c), pc)
  PROVE  Good(p) /\ Same(p, q)
<1>1. p \in Rec /\ Same(p, c) /\ claimed(p) /\ p.pc = pc /\ (Just(c) => Just(p))
  BY Handed DEF Pcs
<1>2. Same(p, q)
  BY <1>1 DEF Same
<1> QED  BY <1>1, <1>2, Ends

\* A claim that is just, dispatched once, ends a request that stays good.
LEMMA EndGoes ==
  ASSUME NEW r \in Requests, Good(req[r]), NEW q \in Rec, ~claimed(q), ~q.started, Once(q),
         q.got = req[r].got, q.auth = req[r].auth, q.thread = req[r].thread,
         NEW c \in Rec, Same(c, q), claimed(c), Enforced /\ q.worked => Just(c),
         NEW pc \in After, q.thread # None => q.got = None /\ pc = "closed",
         NEW p, p = At(c, pc) \/ p = At(detached(c), pc), Put(r, p)
  PROVE  Goes(r)
<1>1. Good(p) /\ Same(p, q)
  BY EndIs
<1> QED  BY <1>1 DEF Goes, Refused, Same

\* A thread ends its request by itself.
LEMMA EndedGoes ==
  ASSUME NEW r \in Requests, Good(req[r]), NEW c \in Rec, Same(c, req[r]), claimed(c), ~c.started, Once(c),
         Enforced /\ c.worked => Just(c), Put(r, Ended(c))
  PROVE  Goes(r)
<1>1. LET w == Write(c) IN
      w \in Rec /\ claimed(w) /\ w.started /\ Once(w) /\ Worked(w) /\ w.got = None /\ w.thread = c.thread
  BY WriteIs
<1>2. Ended(c) = At(Write(c), "closed")
  BY DEF Ended, run_ending
<1>3. PICK w \in Rec : /\ Ended(c) = At(w, "closed") /\ claimed(w) /\ w.started /\ Once(w) /\ Worked(w)
                       /\ w.got = None /\ w.thread = c.thread
  BY <1>1, <1>2
<1>4. LET p == At(w, "closed") IN
      p \in Rec /\ Same(p, w) /\ p.pc = "closed" /\ p.state = w.state /\ p.charge = w.charge
  BY AtIs DEF Pcs, After
<1>5. LET p == At(w, "closed") IN
      claimed(p) /\ p.started /\ Once(p) /\ Worked(p) /\ p.got = None /\ p.thread = c.thread
  BY <1>3, <1>4 DEF Same, claimed, Once, Worked, Just, Remembered, Blind, Excused
<1>6. Good(At(w, "closed"))
  BY <1>4, <1>5, WrittenGood DEF After
<1> QED  BY <1>3, <1>5, <1>6 DEF Goes, Refused, Same

\* The handler has its answer, its failure or its stream, and claims nothing yet.
LEMMA CallingIs ==
  ASSUME NEW q, Good(q), q.pc \in Calling
  PROVE  /\ q \in Rec /\ ~claimed(q) /\ ~q.started /\ Once(q) /\ q.thread = None
         /\ q.sent /\ (q.left \/ ~announces(q.route)) /\ q.left = announces(q.route)
BY DEF Good, Sound, Underway, Claims, Threaded, Calling, HasAnswer, Rec

\* A failure that is claimed as what it means.
LEMMA FailureGoes ==
  ASSUME NEW r \in Requests, Good(req[r]), req[r].pc \in HasAnswer, req[r].got # "answer",
         NEW state \in {classify_exception(req[r].got), Outcome(req[r].got)},
         \/ Put(r, Ended(claim_unobserved(req[r], state)))
         \/ \E pc \in After : \/ Put(r, At(claim_unobserved(req[r], state), pc))
                              \/ Put(r, At(detached(claim_unobserved(req[r], state)), pc))
  PROVE  Goes(r)
<1> DEFINE q == req[r]
           c == claim_unobserved(q, state)
<1>1. q \in Rec /\ ~claimed(q) /\ ~q.started /\ Once(q) /\ q.thread = None
  BY CallingIs DEF Calling, HasAnswer
<1>2. state \in States \ {"settled_final"}
  BY FailureJust
<1>3. c \in Rec /\ Same(c, q) /\ claimed(c) /\ (Enforced /\ q.worked => Just(c))
  BY <1>1, <1>2, FailureJust, UnobservedJust
<1>4. ~c.started /\ Once(c) /\ c.worked = q.worked
  BY <1>1, <1>3 DEF Same, Once
<1> HIDE DEF c
<1>5. CASE Put(r, Ended(c))
  BY <1>3, <1>4, <1>5, EndedGoes
<1>6. ASSUME NEW pc \in After, NEW p, p = At(c, pc) \/ p = At(detached(c), pc), Put(r, p)
      PROVE  Goes(r)
  BY <1>1, <1>3, <1>6, EndGoes
<1> QED  BY <1>5, <1>6 DEF c

\* An answer or a stream that ends without the usage that it should have had.
LEMMA UnknownGoes ==
  ASSUME NEW r \in Requests, Good(req[r]), req[r].pc \in HasAnswer \cup {"streaming"},
         \/ Put(r, Ended(claim_unobserved(req[r], "submitted_unsettled")))
         \/ Put(r, At(detached(claim_unobserved(req[r], "submitted_unsettled")), "awaiting"))
  PROVE  Goes(r)
<1> DEFINE q == req[r]
           c == claim_unobserved(q, "submitted_unsettled")
<1>1. /\ q \in Rec /\ ~claimed(q) /\ ~q.started /\ Once(q) /\ q.thread = None
      /\ q.left \/ ~announces(q.route)
  BY CallingIs DEF Calling, HasAnswer
<1>2. c \in Rec /\ Same(c, q) /\ claimed(c) /\ (Enforced /\ q.worked => Just(c))
  BY <1>1, UnobservedJust DEF States
<1>3. ~c.started /\ Once(c) /\ c.worked = q.worked
  BY <1>1, <1>2 DEF Same, Once
<1> HIDE DEF c
<1>4. CASE Put(r, Ended(c))
  BY <1>2, <1>3, <1>4, EndedGoes
<1>5. CASE Put(r, At(detached(c), "awaiting"))
  BY <1>1, <1>2, <1>5, EndGoes DEF After
<1> QED  BY <1>4, <1>5 DEF c

\* What was seen is charged, or the whole reservation when the end was clean.
LEMMA SettleGoes ==
  ASSUME NEW r \in Requests, Good(req[r]), req[r].pc \in HasAnswer \cup {"streaming"}, NEW final \in BOOLEAN,
         req[r].usage \/ ~final \/ Blind(req[r]),
         \/ Put(r, Ended(claim_settle(req[r], TRUE, final)))
         \/ Put(r, At(claim_settle(req[r], TRUE, final), "frame"))
         \/ Put(r, At(detached(claim_settle(req[r], TRUE, final)), "awaiting"))
  PROVE  Goes(r)
<1> DEFINE q == req[r]
           c == claim_settle(q, TRUE, final)
<1>1. q \in Rec /\ ~claimed(q) /\ ~q.started /\ Once(q) /\ q.thread = None
  BY CallingIs DEF Calling, HasAnswer
<1>2. c \in Rec /\ Same(c, q) /\ claimed(c) /\ Just(c)
  BY <1>1, SettleJust
<1>3. ~c.started /\ Once(c) /\ c.worked = q.worked
  BY <1>1, <1>2 DEF Same, Once
<1> HIDE DEF c
<1>4. CASE Put(r, Ended(c))
  BY <1>2, <1>3, <1>4, EndedGoes
<1>5. ASSUME NEW pc \in After, NEW p, p = At(c, pc) \/ p = At(detached(c), pc), Put(r, p)
      PROVE  Goes(r)
  BY <1>1, <1>2, <1>5, EndGoes
<1> QED  BY <1>4, <1>5 DEF c, After

\* A stream that is interrupted at its call or later.
LEMMA InterruptedGoes ==
  ASSUME NEW r \in Requests, Good(req[r]), NEW state \in States,
         \/ req[r].pc = "streaming" /\ state = "submitted_unsettled"
         \/ req[r].pc \in HasAnswer /\ req[r].got # "answer" /\ state = Outcome(req[r].got),
         \/ Put(r, At(claim_stream_interrupted(req[r], state), "frame"))
         \/ Put(r, At(detached(claim_stream_interrupted(req[r], state)), "awaiting"))
  PROVE  Goes(r)
<1> DEFINE q == req[r]
           c == claim_stream_interrupted(q, state)
<1>1. /\ q \in Rec /\ ~claimed(q) /\ ~q.started /\ Once(q) /\ q.thread = None
      /\ q.sent /\ q.left = announces(q.route)
  BY CallingIs DEF Calling, HasAnswer
<1>2. q.worked => state = "submitted_unsettled" \/
                  (Excused(q) /\ state \in {"not_submitted", "rejected_pre_inference"})
  BY FailureJust DEF States
<1>3. c \in Rec /\ Same(c, q) /\ claimed(c) /\ (Enforced /\ q.worked => Just(c))
  BY <1>1, <1>2, InterruptedIs
<1> HIDE DEF c
<1>4. ASSUME NEW pc \in After, NEW p, p = At(c, pc) \/ p = At(detached(c), pc), Put(r, p)
      PROVE  Goes(r)
  BY <1>1, <1>3, <1>4, EndGoes
<1> QED  BY <1>4 DEF c, After

\* A request that was refused looks at the cached token, and moves on.
LEMMA RefusedGoes ==
  ASSUME NEW r \in Requests, Good(req[r]), tok.n \in Nat, token_refused(r) \/ invalidate_token(r)
  PROVE  Goes(r)
<1> DEFINE q == req[r]
<1>0. q \in Rec /\ q.got = "unauthorized" /\ q.pc \in HasAnswer
  BY DEF token_refused, invalidate_token, Drop, Good, Sound, Underway, Calling, HasAnswer
<1>1. PICK n \in Nat, pc \in {"refused", "dropped"} : Put(r, [q EXCEPT !.pc = pc, !.saw = n])
  <2>1. CASE token_refused(r)
    BY <2>1, Zenon DEF token_refused
  <2>2. CASE invalidate_token(r)
    <3>1. q.saw \in Nat /\ Put(r, [q EXCEPT !.pc = "dropped"])
      BY <1>0, <2>2 DEF invalidate_token, Drop, At, Rec
    <3>2. [q EXCEPT !.pc = "dropped"] = [q EXCEPT !.pc = "dropped", !.saw = q.saw]
      BY <1>0 DEF Rec
    <3> QED  BY <3>1, <3>2
  <2> QED  BY <2>1, <2>2
<1> DEFINE p == [q EXCEPT !.pc = pc, !.saw = n]
<1>2. p \in Rec
  <2> DEFINE h == [q EXCEPT !.pc = pc]
  <2>1. h \in Rec
    BY <1>0, PcField DEF Pcs, Calling, HasAnswer
  <2>2. p = [h EXCEPT !.saw = n]
    OBVIOUS
  <2> HIDE DEF h, p
  <2> QED  BY <2>1, <2>2, SawField
<1>3. /\ Same(p, q) /\ p.pc = pc /\ p.state = q.state /\ p.charge = q.charge /\ p.queued = q.queued
  BY <1>0 DEF Rec, Same
<1>p. Put(r, p)
  BY <1>1
<1> HIDE DEF p
<1>4. Sound(p)
  BY <1>0, <1>2, <1>3 DEF Good, Sound, Unsent, Underway, Claims, Threaded, Worked, Just, Remembered, Blind, Excused,
                     Once, Same, claimed, Before, Calling, HasAnswer, After, HasAnswer
<1> QED  BY <1>2, <1>3, <1>4, <1>p, SameRefused DEF Goes, Good

\* Every ending of every handler is such a claim.
LEMMA HandlerGoes ==
  ASSUME NEW r \in Requests, Good(req[r]),
         \/ messages_end(r) \/ chat_end(r) \/ openai_chat_end(r) \/ create_response_end(r)
         \/ run_stream_fails(r) \/ proxy_fails(r) \/ stream_breaks(r) \/ run_stream_ends(r)
         \/ proxy_ends(r) \/ stream_response_ends(r)
  PROVE  Goes(r)
<1> DEFINE q == req[r]
<1>1. CASE messages_end(r) \/ chat_end(r)
  <2>1. q.pc \in HasAnswer
    BY <1>1 DEF messages_end, chat_end, Got, HasAnswer
  <2>2. \/ q.got # "answer" /\ Put(r, Ended(claim_unobserved(q, classify_exception(q.got))))
        \/ Put(r, Ended(claim_unobserved(q, "submitted_unsettled")))
        \/ q.usage /\ Put(r, Ended(claim_settle(q, TRUE, TRUE)))
    BY <1>1, Zenon DEF messages_end, chat_end, ConverseEnd
  <2> QED  BY <2>1, <2>2, FailureGoes, UnknownGoes, SettleGoes
<1>2. CASE openai_chat_end(r)
  <2>1. q.pc \in HasAnswer /\ Blind(q)
    BY <1>2 DEF openai_chat_end, Answered, HasAnswer, Blind
  <2>2. \/ Put(r, Ended(claim_settle(q, TRUE, TRUE)))
        \/ q.got # "answer" /\ Put(r, Ended(claim_unobserved(q, Outcome(q.got))))
    BY <1>2, Zenon DEF openai_chat_end
  <2> QED  BY <2>1, <2>2, FailureGoes, SettleGoes
<1>3. CASE create_response_end(r)
  <2>1. q.pc \in HasAnswer
    BY <1>3 DEF create_response_end, Answered, HasAnswer
  <2>2. \/ q.got # "answer" /\ Put(r, At(detached(claim_unobserved(q, Outcome(q.got))), "awaiting"))
        \/ Put(r, At(detached(claim_unobserved(q, "submitted_unsettled")), "awaiting"))
        \/ q.usage /\ Put(r, At(detached(claim_settle(q, TRUE, TRUE)), "awaiting"))
    BY <1>3, Zenon DEF create_response_end
  <2> QED  BY <2>1, <2>2, FailureGoes, UnknownGoes, SettleGoes DEF After
<1>4. CASE run_stream_fails(r)
  <2>1. /\ q.pc \in HasAnswer /\ q.got # "answer"
        /\ Put(r, At(claim_unobserved(q, classify_exception(q.got)), "frame"))
    BY <1>4 DEF run_stream_fails, Got, HasAnswer
  <2> QED  BY <2>1, FailureGoes DEF After
<1>5. CASE proxy_fails(r)
  <2>1. q.pc \in HasAnswer /\ q.got # "answer"
    BY <1>5 DEF proxy_fails, Answered, HasAnswer
  <2>2. \/ Put(r, At(claim_unobserved(q, Outcome(q.got)), "frame"))
        \/ Put(r, At(claim_stream_interrupted(q, Outcome(q.got)), "frame"))
        \/ Put(r, At(detached(claim_stream_interrupted(q, Outcome(q.got))), "awaiting"))
    BY <1>5, Zenon DEF proxy_fails
  <2>3. Outcome(q.got) \in States
    BY <2>1, FailureJust
  <2> QED  BY <2>1, <2>2, <2>3, FailureGoes, InterruptedGoes DEF After
<1>6. CASE stream_breaks(r)
  <2>1. /\ q.pc = "streaming"
        /\ \/ Put(r, At(claim_stream_interrupted(q, "submitted_unsettled"), "frame"))
           \/ Put(r, At(detached(claim_stream_interrupted(q, "submitted_unsettled")), "awaiting"))
    BY <1>6, Zenon DEF stream_breaks
  <2> QED  BY <2>1, InterruptedGoes DEF States
<1>7. CASE run_stream_ends(r)
  <2>1. q.pc = "streaming" /\ q.usage \in BOOLEAN /\ Put(r, At(claim_settle(q, TRUE, q.usage), "frame"))
    BY <1>7 DEF run_stream_ends, Good, Rec
  <2> QED  BY <2>1, SettleGoes
<1>8. CASE proxy_ends(r)
  <2>1. q.pc = "streaming" /\ Blind(q) /\ Put(r, At(detached(claim_settle(q, TRUE, TRUE)), "awaiting"))
    BY <1>8 DEF proxy_ends, Blind
  <2> QED  BY <2>1, SettleGoes
<1>9. CASE stream_response_ends(r)
  <2>1. /\ q.pc = "streaming"
        /\ \/ q.usage /\ Put(r, At(detached(claim_settle(q, TRUE, TRUE)), "awaiting"))
           \/ Put(r, At(detached(claim_unobserved(q, "submitted_unsettled")), "awaiting"))
    BY <1>9, Zenon DEF stream_response_ends
  <2> QED  BY <2>1, SettleGoes, UnknownGoes
<1> QED  BY <1>1, <1>2, <1>3, <1>4, <1>5, <1>6, <1>7, <1>8, <1>9

-----------------------------------------------------------------------------
(* The client leaves. *)

\* What a call in flight goes on to do.
LEMMA WorkedIs ==
  ASSUME NEW q \in Rec, NEW w \in BOOLEAN
  PROVE  LET p == [q EXCEPT !.worked = @ \/ w] IN
         /\ p \in Rec /\ p.worked = (q.worked \/ w) /\ (~w => p = q)
         /\ p.route = q.route /\ p.auth = q.auth /\ p.thread = q.thread /\ p.sent = q.sent /\ p.left = q.left
         /\ p.got = q.got /\ p.state = q.state /\ p.started = q.started /\ p.writes = q.writes
<1>1. PICK worked \in BOOLEAN : worked = (q.worked \/ w)
  BY DEF Rec
<1> DEFINE p == [q EXCEPT !.worked = worked]
<1>2. [q EXCEPT !.worked = @ \/ w] = p
  BY <1>1
<1>3. p \in Rec /\ p.worked = worked
  BY DEF Rec
<1>4. /\ p.route = q.route /\ p.auth = q.auth /\ p.thread = q.thread /\ p.sent = q.sent /\ p.left = q.left
      /\ p.got = q.got /\ p.state = q.state /\ p.started = q.started /\ p.writes = q.writes
  BY DEF Rec
<1>5. ~w => p = q
  BY <1>1 DEF Rec
<1> QED  BY <1>1, <1>2, <1>3, <1>4, <1>5

\* A generator that is closed with nothing claimed claims what it can tell.
LEMMA ClosedIs ==
  ASSUME NEW q \in Rec, ~claimed(q), ~q.started, Once(q),
         q.sent => q.left = announces(q.route), ~q.sent => ~q.worked, q.thread # None => q.got = None
  PROVE  Good(Closed(q)) /\ Same(Closed(q), q)
<1> DEFINE c == claim_stream_interrupted(q, "submitted_unsettled")
<1>1. c \in Rec /\ Same(c, q) /\ claimed(c) /\ (Enforced /\ q.worked => Just(c))
  BY InterruptedIs DEF States
<1>2. Closed(q) = At(detached(c), "closed")
  BY DEF Closed, close, dispatch_pending
<1> HIDE DEF c
<1> QED  BY <1>1, <1>2, EndIs DEF After

\* One that is closed with its ending claimed hands it over, unless a thread has begun it.
LEMMA ReclosedIs ==
  ASSUME NEW q \in Rec, claimed(q), NEW p, p = At(q, "closed") \/ p = Closed(q)
  PROVE  p \in Rec /\ Same(p, q) /\ p.state = q.state /\ p.charge = q.charge /\ p.pc = "closed"
<1>1. p = At(q, "closed") \/ p = At(detached(q), "closed")
  BY DEF Closed, close, dispatch_pending
<1> QED  BY <1>1, Handed DEF Pcs, After

\* So is the end of a stream that is cancelled.
LEMMA CancelledGoes ==
  ASSUME NEW r \in Requests, Good(req[r]), run_stream_cancelled(r)
  PROVE  Goes(r)
<1> DEFINE q == req[r]
<1>1. q.pc \in {"route", "waiting"}
  BY DEF run_stream_cancelled
<1>2. /\ q \in Rec /\ ~claimed(q) /\ ~q.started /\ Once(q) /\ q.thread = None
      /\ q.left \/ ~announces(q.route)
  BY <1>1, CallingIs DEF Calling, HasAnswer
<1>3. PICK w \in BOOLEAN :
        Put(r, Closed(detached(claim_unobserved([q EXCEPT !.worked = @ \/ w], "submitted_unsettled"))))
  BY DEF run_stream_cancelled
<1> DEFINE s == [q EXCEPT !.worked = @ \/ w]
           c == claim_unobserved(s, "submitted_unsettled")
           d == detached(c)
<1>4. /\ s \in Rec /\ ~claimed(s) /\ ~s.started /\ Once(s) /\ s.got = q.got /\ s.auth = q.auth
      /\ s.thread = q.thread /\ (s.left \/ ~announces(s.route))
  BY <1>2, WorkedIs DEF claimed, Once
<1>5. Put(r, Closed(d))
  BY <1>3
<1> HIDE DEF s
<1>6. c \in Rec /\ Same(c, s) /\ claimed(c) /\ (Enforced /\ s.worked => Just(c))
  BY <1>4, UnobservedJust DEF States
<1> HIDE DEF c
<1>7. d \in Rec /\ Same(d, c) /\ d.state = c.state /\ d.charge = c.charge
  BY <1>6, DetachedIs
<1> HIDE DEF d
<1>8. Same(d, s) /\ claimed(d) /\ (Enforced /\ s.worked => Just(d))
  BY <1>6, <1>7 DEF Same, claimed, Just, Blind, Excused
<1>9. Closed(d) = At(detached(d), "closed")
  BY <1>4, <1>8 DEF Closed, close, dispatch_pending, Same
<1> QED  BY <1>2, <1>4, <1>5, <1>7, <1>8, <1>9, EndGoes DEF After

\* So is that of a response that is cancelled before it streams.
LEMMA ResponseCancelledGoes ==
  ASSUME NEW r \in Requests, Good(req[r]), create_response_cancelled(r)
  PROVE  Goes(r)
<1> DEFINE q == req[r]
           s(w) == [q EXCEPT !.worked = @ \/ w]
<1>1. q \in Rec /\ q.pc \in {"auth", "waiting", "awaiting"}
  BY DEF create_response_cancelled, Good
<1>2. PICK w \in BOOLEAN :
        /\ q.pc # "waiting" => ~w
        /\ \/ q.pc = "awaiting" /\ Put(r, At(s(w), "closed"))
           \/ q.pc # "awaiting" /\ q.sent /\
                Put(r, At(detached(claim_unobserved(s(w), "submitted_unsettled")), "closed"))
           \/ q.pc # "awaiting" /\ ~q.sent /\ Put(r, At(detached(claim_unobserved(s(w), "not_submitted")), "closed"))
  BY DEF create_response_cancelled, claim_not_submitted
<1>3. CASE q.pc = "awaiting"
  <2>1. Put(r, At(q, "closed"))
    BY <1>1, <1>2, <1>3, WorkedIs
  <2>2. claimed(q)
    BY <1>3 DEF Good, Sound, Claims, After
  <2> QED  BY <1>1, <1>3, <2>1, <2>2, ReclosedIs, DispatchGoes DEF After
<1>4. CASE q.pc # "awaiting"
  <2>1. /\ ~claimed(q) /\ ~q.started /\ Once(q) /\ (q.thread # None => q.got = None)
        /\ q.sent => q.left \/ ~announces(q.route)
        /\ q.pc = "waiting" => q.sent
        /\ q.pc = "auth" => ~q.worked /\ ~q.sent
    BY <1>1, <1>4 DEF Good, Sound, Unsent, Underway, Claims, Threaded, Before, Calling, HasAnswer
  <2> DEFINE p == s(w)
  <2>2. /\ p \in Rec /\ ~claimed(p) /\ ~p.started /\ Once(p) /\ p.got = q.got /\ p.auth = q.auth
        /\ p.thread = q.thread /\ (q.sent => p.left \/ ~announces(p.route))
        /\ ~q.sent => ~p.worked
    BY <1>1, <1>2, <1>4, <2>1, WorkedIs DEF claimed, Once
  <2> HIDE DEF p
  <2>3. PICK state \in {"submitted_unsettled", "not_submitted"} :
          /\ Put(r, At(detached(claim_unobserved(p, state)), "closed"))
          /\ q.sent => state = "submitted_unsettled"
    BY <1>2, <1>4 DEF p
  <2> DEFINE c == claim_unobserved(p, state)
  <2>4. c \in Rec /\ Same(c, p) /\ claimed(c) /\ (Enforced /\ p.worked => Just(c))
    BY <2>2, <2>3, UnobservedJust DEF States
  <2>5. Put(r, At(detached(c), "closed"))
    BY <2>3
  <2> HIDE DEF c
  <2> QED  BY <2>1, <2>2, <2>4, <2>5, EndGoes DEF After
<1> QED  BY <1>3, <1>4

\* So is that of a generator that is closed.
LEMMA ClosedGoes ==
  ASSUME NEW r \in Requests, Good(req[r]), generator_closed(r)
  PROVE  Goes(r)
<1> DEFINE q == req[r]
           s(w) == [q EXCEPT !.worked = @ \/ w]
<1>1. q \in Rec /\ q.pc \in {"prologue", "auth", "streaming", "frame", "awaiting", "waiting", "got", "dropped"}
  BY DEF generator_closed, Reading, Good
<1>2. PICK w \in BOOLEAN : Put(r, Closed(s(w))) /\ (q.pc # "waiting" => ~w)
  BY DEF generator_closed
<1>3. CASE q.pc \in {"frame", "awaiting"}
  <2>1. Put(r, Closed(q))
    BY <1>1, <1>2, <1>3, WorkedIs
  <2>2. claimed(q)
    BY <1>3 DEF Good, Sound, Claims, After
  <2> QED  BY <1>1, <1>3, <2>1, <2>2, ReclosedIs, DispatchGoes DEF After
<1>4. CASE q.pc \in {"prologue", "auth", "streaming", "waiting", "got", "dropped"}
  <2>1. /\ ~claimed(q) /\ ~q.started /\ Once(q) /\ (q.thread # None => q.got = None)
        /\ q.sent => q.left = announces(q.route)
        /\ q.pc \in {"streaming", "waiting", "got", "dropped"} => q.sent
        /\ q.pc \in {"prologue", "auth"} => ~q.worked /\ ~q.sent
    BY <1>1, <1>4 DEF Good, Sound, Unsent, Underway, Claims, Threaded, Before, Calling, HasAnswer
  <2> DEFINE p == s(w)
  <2>2. /\ p \in Rec /\ ~claimed(p) /\ ~p.started /\ Once(p) /\ p.got = q.got /\ p.auth = q.auth
        /\ p.thread = q.thread /\ (p.sent => p.left = announces(p.route)) /\ (~p.sent => ~p.worked)
    BY <1>1, <1>2, <1>4, <2>1, WorkedIs DEF claimed, Once
  <2>3. Put(r, Closed(p))
    BY <1>2
  <2> HIDE DEF p
  <2>4. Good(Closed(p)) /\ Same(Closed(p), p)
    BY <2>1, <2>2, ClosedIs
  <2> QED  BY <2>2, <2>3, <2>4 DEF Goes, Refused, Same
<1> QED  BY <1>1, <1>3, <1>4

-----------------------------------------------------------------------------
(* A request and the lock of the token. *)

\* A request that gets its token is done with the lock.
LEMMA AuthorisedTurns ==
  ASSUME NEW r \in Requests, Good(req[r]), req[r].pc = "auth" \/ req[r].thread # None, NEW n \in Nat,
         Put(r, Authorise(req[r], n))
  PROVE  Turns(r, None)
<1>1. LET p == Authorise(req[r], n) IN Good(p) /\ Refused(p, req[r])
  BY AuthoriseIs
<1>2. Authorise(req[r], n).thread = None
  BY DEF Authorise, Good, Rec
<1> QED  BY <1>1, <1>2 DEF Turns

\* A request that wants one waits for the lock, or holds it and mints.
LEMMA WaitsTurns ==
  ASSUME NEW r \in Requests, Good(req[r]), req[r].pc = "auth" \/ req[r].thread # None,
         NEW th \in {"lock", "mint"}, Put(r, [req[r] EXCEPT !.thread = th])
  PROVE  Turns(r, th)
<1>1. LET p == [req[r] EXCEPT !.thread = th] IN Good(p) /\ Refused(p, req[r])
  BY ThreadIs
<1>2. [req[r] EXCEPT !.thread = th].thread = th
  BY DEF Good, Rec
<1> QED  BY <1>1, <1>2 DEF Turns

\* A route whose token cannot be minted ends its request, but for the plain chat route.
LEMMA MintFailsTurns ==
  ASSUME NEW r \in Requests, Good(req[r]), req[r].thread # None, mint_fails(r)
  PROVE  Turns(r, None)
<1> DEFINE q == [req[r] EXCEPT !.thread = None]
<1>1. Good(q) /\ Refused(q, req[r])
  BY ThreadIs
<1>2. q.thread = None /\ q.got = req[r].got /\ q.auth = req[r].auth /\ q \in Rec
  BY <1>1 DEF Good, Rec
<1>3. \/ Put(r, q)
      \/ q.pc = "auth" /\ Put(r, At(q, "raised"))
      \/ q.pc = "auth" /\ Put(r, At(detached(claim_unobserved(q, "submitted_unsettled")), "awaiting"))
      \/ q.pc = "auth" /\ Put(r, Closed(q))
  BY Zenon DEF mint_fails
<1> HIDE DEF q
<1>4. ASSUME NEW p, Put(r, p), Good(p), Same(p, q) PROVE Turns(r, None)
  BY <1>1, <1>2, <1>4 DEF Turns, Refused, Same
<1>5. CASE Put(r, q)
  BY <1>1, <1>2, <1>5 DEF Turns
<1>6. CASE q.pc = "auth" /\ Put(r, At(q, "raised"))
  <2> DEFINE p == At(q, "raised")
  <2>1. p \in Rec /\ Same(p, q) /\ p.pc = "raised" /\ p.state = q.state /\ p.queued = q.queued
    BY <1>2, AtIs DEF Pcs
  <2> HIDE DEF p
  <2>2. Good(p)
    BY <1>1, <1>2, <1>6, <2>1 DEF Good, Sound, Unsent, Underway, Claims, Threaded, Worked, Once, Same, claimed,
                                  Before, Calling, HasAnswer, After
  <2> QED  BY <1>4, <1>6, <2>1, <2>2 DEF p
<1>7. ASSUME q.pc = "auth"
      PROVE  /\ ~claimed(q) /\ ~q.started /\ Once(q) /\ ~q.sent /\ ~q.worked
  BY <1>1, <1>7 DEF Good, Sound, Unsent, Claims, Before
<1>8. CASE q.pc = "auth" /\ Put(r, At(detached(claim_unobserved(q, "submitted_unsettled")), "awaiting"))
  <2> DEFINE c == claim_unobserved(q, "submitted_unsettled")
  <2>1. c \in Rec /\ Same(c, q) /\ claimed(c) /\ (Enforced /\ q.worked => Just(c))
    BY <1>2, <1>7, <1>8, UnobservedJust DEF States
  <2>2. Put(r, At(detached(c), "awaiting"))
    BY <1>8
  <2> HIDE DEF c
  <2>3. LET p == At(detached(c), "awaiting") IN Good(p) /\ Same(p, q)
    BY <1>2, <1>7, <1>8, <2>1, EndIs DEF After
  <2> QED  BY <1>4, <2>2, <2>3
<1>9. CASE q.pc = "auth" /\ Put(r, Closed(q))
  BY <1>2, <1>4, <1>7, <1>9, ClosedIs
<1> QED  BY <1>3, <1>5, <1>6, <1>8, <1>9

-----------------------------------------------------------------------------
(* The inductive invariant. *)

\* The lock is held by the thread that mints, and a request that was refused was right to
\* be: its token is one that the provider no longer takes.
Tokens ==
  /\ tok \in [n : Nat, age : {"dead", "fresh", "due"}] /\ minted \in Nat
  /\ lock \in Requests \cup {None, "refresher"}
  /\ \A r \in Requests : lock = r => req[r].thread = "mint"
  /\ \A r \in Requests : req[r].got = "unauthorized" => req[r].auth \in revoked

ServingInv == req \in [Requests -> Rec] /\ (\A r \in Requests : Good(req[r])) /\ Tokens

\* The first state satisfies the invariant.
LEMMA ServingInit == Init => ServingInv
<1> SUFFICES ASSUME Init PROVE ServingInv
  OBVIOUS
<1>1. Good(NoRequest) /\ NoRequest \in Rec
  BY FirstGood DEF Good
<1>2. req = [r \in Requests |-> NoRequest] /\ NoRequest.got = None
  BY DEF Init, NoRequest
<1>3. Tokens
  BY <1>2, ServingAssumption DEF Tokens, Init
<1> QED  BY <1>1, <1>2, <1>3 DEF ServingInv

\* A step of a request leaves the tokens, and the lock, as it must.
LEMMA TurnsInv ==
  ASSUME ServingInv, NEW r \in Requests, NEW th, Turns(r, th),
         tok' \in [n : Nat, age : {"dead", "fresh", "due"}], minted' \in Nat, revoked' = revoked,
         lock' \in Requests \cup {None, "refresher"},
         \A x \in Requests : lock' = x => IF x = r THEN th = "mint" ELSE lock = x
  PROVE  ServingInv'
<1>1. /\ req' \in [Requests -> Rec]
      /\ \A x \in Requests : /\ Good(req'[x]) /\ Refused(req'[x], req[x])
                              /\ req'[x].thread = IF x = r THEN th ELSE req[x].thread
  BY PutTurns DEF ServingInv
<1>2. \A x \in Requests : lock' = x => req'[x].thread = "mint"
  BY <1>1 DEF ServingInv, Tokens
<1>3. \A x \in Requests : req'[x].got = "unauthorized" => req'[x].auth \in revoked'
  BY <1>1 DEF ServingInv, Tokens, Refused
<1>4. Tokens'
  BY <1>2, <1>3 DEF Tokens
<1> QED  BY <1>1, <1>4 DEF ServingInv

\* A step that leaves its request good, and the lock and the tokens alone, keeps the invariant.
LEMMA GoesInv ==
  ASSUME ServingInv, NEW r \in Requests, Goes(r), UNCHANGED <<lock, minted, revoked>>,
         tok' \in [n : Nat, age : {"dead", "fresh", "due"}]
  PROVE  ServingInv'
<1>1. Turns(r, req[r].thread)
  BY DEF Goes, Turns
<1> QED  BY <1>1, TurnsInv DEF ServingInv, Tokens

\* A handler may drop the token, the one it saw being the one it sent.
LEMMA DroppedIs ==
  ASSUME Tokens, NEW r \in Requests, invalidate_token(r)
  PROVE  /\ tok' \in [n : Nat, age : {"dead", "fresh", "due"}]
         /\ UNCHANGED tok \/ req[r].saw = req[r].auth
BY DEF Tokens, invalidate_token, Drop

\* A new token has a number of its own, which is not zero.
LEMMA NewTokenIs ==
  ASSUME Tokens, NewToken
  PROVE  tok' \in [n : Nat, age : {"dead", "fresh", "due"}] /\ minted' \in Nat /\ tok'.n # 0
BY DEF Tokens, NewToken

\* The steps of a request that have nothing to do with the lock.
Quiet(r) ==
  \/ Begin(r) \/ Event(r) \/ client_leaves(r)
  \/ executor(r) \/ prologue(r) \/ provider_call_starting(r) \/ provider_answers(r)
  \/ route_stream(r) \/ attempt_failed(r) \/ messages_end(r) \/ chat_end(r) \/ openai_chat_end(r)
  \/ create_response_end(r) \/ run_stream_fails(r) \/ proxy_fails(r) \/ stream_begins(r)
  \/ token_refused(r) \/ invalidate_token(r) \/ stream_breaks(r) \/ run_stream_ends(r) \/ proxy_ends(r) \/ stream_response_ends(r)
  \/ frame_sent(r) \/ awaited(r)

\* A step that has nothing to do with the lock leaves its request good.
LEMMA QuietGoes ==
  ASSUME NEW r \in Requests, Good(req[r]), tok.n \in Nat, Quiet(r)
  PROVE  Goes(r)
BY BeginGoes, StreamGoes, CancelledGoes, ResponseCancelledGoes, ClosedGoes, ExecutorGoes, PrologueGoes,
   CallGoes, AnswerGoes, RouteGoes, AttemptGoes, RefusedGoes, HandlerGoes, FrameGoes DEF Quiet, client_leaves

\* It leaves the tokens alone, or drops the one that is cached.
LEMMA QuietTokens ==
  ASSUME NEW r \in Requests, Quiet(r)
  PROVE  UNCHANGED <<lock, minted, revoked>> /\ (UNCHANGED tok \/ invalidate_token(r))
<1>1. CASE Begin(r)
  BY <1>1 DEF Begin, messages, stream_messages, chat_completions, stream_chat, openai_chat_completion, proxy,
              create_response, stream_response, Open, tokens
<1>2. CASE Event(r) \/ client_leaves(r)
  BY <1>2 DEF Event, absorb, proxy_event, response_event, Absorb, client_leaves, run_stream_cancelled,
              create_response_cancelled, generator_closed, tokens
<1>3. CASE \/ executor(r) \/ prologue(r) \/ provider_call_starting(r) \/ provider_answers(r)
           \/ route_stream(r) \/ attempt_failed(r)
  BY <1>3 DEF executor, prologue, provider_call_starting, provider_answers, route_stream, attempt_failed, tokens
<1>4. CASE \/ messages_end(r) \/ chat_end(r) \/ run_stream_fails(r) \/ stream_begins(r) \/ stream_breaks(r)
           \/ run_stream_ends(r) \/ proxy_ends(r) \/ stream_response_ends(r) \/ frame_sent(r) \/ awaited(r)
  BY <1>4 DEF messages_end, chat_end, ConverseEnd, run_stream_fails, stream_begins, stream_breaks,
              run_stream_ends, proxy_ends, stream_response_ends, frame_sent, awaited, tokens
<1>5. CASE openai_chat_end(r) \/ create_response_end(r) \/ proxy_fails(r) \/ token_refused(r)
  BY <1>5 DEF openai_chat_end, create_response_end, proxy_fails, token_refused, tokens
<1>6. CASE invalidate_token(r)
  BY <1>6 DEF invalidate_token, Drop
<1> QED  BY <1>1, <1>2, <1>3, <1>4, <1>5, <1>6 DEF Quiet

\* Every step about the lock keeps the invariant.
LEMMA LockInv ==
  ASSUME ServingInv, NEW r \in Requests,
         cached_headers(r) \/ auth_headers(r) \/ token_lock(r) \/ mint_and_store(r) \/ mint_fails(r)
  PROVE  ServingInv'
<1> USE DEF ServingInv
<1>1. Good(req[r]) /\ r \notin {None, "refresher"} /\ Tokens
  BY ServingAssumption
<1>2. \A x \in Requests : lock # x \/ req[x].thread = "mint"
  BY DEF Tokens
<1>3. CASE cached_headers(r)
  <2>1. /\ req[r].pc = "auth" /\ req[r].thread = None /\ Put(r, Authorise(req[r], tok.n))
        /\ UNCHANGED <<tok, lock, minted, revoked>> /\ tok.n \in Nat
    BY <1>3 DEF cached_headers, Authorised, Tokens
  <2>2. Turns(r, None)
    BY <1>1, <2>1, AuthorisedTurns
  <2> QED  BY <1>2, <2>1, <2>2, TurnsInv DEF Tokens
<1>4. CASE auth_headers(r)
  <2>1. /\ req[r].pc = "auth" /\ req[r].thread = None /\ Put(r, [req[r] EXCEPT !.thread = "lock"])
        /\ UNCHANGED <<tok, lock, minted, revoked>>
    BY <1>4 DEF auth_headers, tokens
  <2>2. Turns(r, "lock")
    BY <1>1, <2>1, WaitsTurns
  <2> QED  BY <1>2, <2>1, <2>2, TurnsInv DEF Tokens
<1>5. CASE token_lock(r)
  <2>1. /\ req[r].thread = "lock" /\ lock = None /\ UNCHANGED <<tok, minted, revoked>> /\ tok.n \in Nat
    BY <1>5 DEF token_lock, Tokens
  <2>2. CASE Put(r, Authorise(req[r], tok.n)) /\ UNCHANGED lock
    <3>1. Turns(r, None)
      BY <1>1, <2>1, <2>2, AuthorisedTurns
    <3> QED  BY <1>1, <2>1, <2>2, <3>1, TurnsInv, ServingAssumption DEF Tokens
  <2>3. CASE Put(r, [req[r] EXCEPT !.thread = "mint"]) /\ lock' = r
    <3>1. Turns(r, "mint")
      BY <1>1, <2>1, <2>3, WaitsTurns
    <3> QED  BY <1>1, <2>1, <2>3, <3>1, TurnsInv DEF Tokens
  <2> QED  BY <1>5, <2>2, <2>3 DEF token_lock, Authorised
<1>6. CASE mint_and_store(r)
  <2>1. /\ req[r].thread = "mint" /\ lock' = None /\ UNCHANGED revoked /\ NewToken
        /\ Put(r, Authorise(req[r], minted + 1)) /\ minted + 1 \in Nat
    BY <1>1, <1>6 DEF mint_and_store, Tokens
  <2>2. Turns(r, None)
    BY <1>1, <2>1, AuthorisedTurns
  <2> QED  BY <1>1, <2>1, <2>2, TurnsInv, NewTokenIs, ServingAssumption
<1>7. CASE mint_fails(r)
  <2>1. req[r].thread = "mint" /\ lock' = None /\ UNCHANGED <<tok, minted, revoked>>
    BY <1>1, <1>7 DEF mint_fails, Tokens
  <2>2. Turns(r, None)
    BY <1>1, <1>7, <2>1, MintFailsTurns
  <2> QED  BY <2>1, <2>2, TurnsInv, ServingAssumption DEF Tokens
<1> QED  BY <1>3, <1>4, <1>5, <1>6, <1>7

\* What the refresher, time and the provider do to the tokens.
LEMMA RefreshInv ==
  ASSUME ServingInv, Refresher \/ token_ages \/ provider_revokes \/ \E t \in cooled : cooldown_ends(t)
  PROVE  ServingInv' /\ (tok.n # 0 => tok'.n # 0)
<1> USE DEF ServingInv
<1>1. req' = req /\ revoked \subseteq revoked'
  BY DEF Refresher, refresh_now, refresh_ends, token_ages, provider_revokes, cooldown_ends, tokens
<1>2. /\ tok' \in [n : Nat, age : {"dead", "fresh", "due"}] /\ minted' \in Nat
      /\ tok.n # 0 => tok'.n # 0
  <2>1. CASE token_ages
    <3>1. PICK age \in {"dead", "due"} : tok' = [tok EXCEPT !.age = age]
      BY <2>1 DEF token_ages
    <3> QED  BY <2>1, <3>1 DEF token_ages, Tokens
  <2>2. CASE NewToken
    BY <2>2, NewTokenIs
  <2>3. CASE UNCHANGED <<tok, minted>>
    BY <2>3 DEF Tokens
  <2> QED
    BY <2>1, <2>2, <2>3 DEF Refresher, refresh_now, refresh_ends, provider_revokes, cooldown_ends, tokens
<1>3. /\ lock' \in Requests \cup {None, "refresher"}
      /\ \A r \in Requests : lock' = r => lock = r
  BY ServingAssumption DEF Tokens, Refresher, refresh_now, refresh_ends, token_ages, provider_revokes,
                           cooldown_ends, tokens
<1>4. Tokens'
  BY <1>1, <1>2, <1>3 DEF Tokens
<1> QED  BY <1>1, <1>2, <1>4

\* So every step does.
LEMMA ServingNext == ServingInv /\ [Next]_vars => ServingInv'
<1> SUFFICES ASSUME ServingInv, [Next]_vars PROVE ServingInv'
  OBVIOUS
<1>1. ASSUME NEW r \in Requests, Quiet(r) PROVE ServingInv'
  <2>1. Goes(r)
    BY <1>1, QuietGoes DEF ServingInv, Tokens
  <2>2. UNCHANGED <<lock, minted, revoked>> /\ (UNCHANGED tok \/ invalidate_token(r))
    BY <1>1, QuietTokens
  <2>3. tok' \in [n : Nat, age : {"dead", "fresh", "due"}]
    BY <2>2, DroppedIs DEF ServingInv, Tokens
  <2> QED  BY <2>1, <2>2, <2>3, GoesInv
<1>2. CASE UNCHANGED vars
  BY <1>2 DEF vars, ServingInv, Tokens
<1> QED  BY <1>1, <1>2, LockInv, RefreshInv DEF Next, Step, Quiet

\* The invariant holds for good.
LEMMA ServingInvariant == Spec => []ServingInv
BY ServingInit, ServingNext, PTL DEF Spec

-----------------------------------------------------------------------------
(* Theorems. *)

\* Of everything that a provider did, the reservation is charged or is kept, but for the
\* three exceptions of the code: however a client leaves, a target fails or the pool of
\* threads is late, no handler gives work back.  Only where an unknown outcome keeps its
\* reservation, the flag STRATOCLAVE_UNOBSERVED_HOLDS.
THEOREM WorkIsAlwaysRemembered ==
  ASSUME Enforced
  PROVE  Spec => []WorkIsNotForgotten
<1>1. ServingInv => WorkIsNotForgotten
  <2> SUFFICES ASSUME ServingInv, NEW r \in Requests, req[r].worked, req[r].writes > 0
               PROVE  Remembered(req[r])
    BY DEF WorkIsNotForgotten, Remembered, Blind
  <2>1. Once(req[r]) /\ Worked(req[r])
    BY DEF ServingInv, Good, Sound
  <2> QED  BY <2>1 DEF Once, Worked
<1> QED  BY <1>1, ServingInvariant, PTL

\* The ending of a reservation is written once, however many of its handler, a cancelled
\* await and the closing of its generator have dispatched it.
THEOREM EndingsAreWrittenOnce == Spec => []WrittenOnce
<1>1. ServingInv => WrittenOnce
  BY DEF ServingInv, WrittenOnce, Good, Sound, Once
<1> QED  BY <1>1, ServingInvariant, PTL

\* A token that the provider still takes leaves the cache only by a handler that looked
\* there before it came and saw the refused one that it had sent; no refusal that looks at
\* the cache later drops it, however many are late (invalidate_token, _refresh_now).
THEOREM SeenTokensStay == Spec => SeenTokenStays
<1> DEFINE Lost == tok.n # 0 /\ tok.n \notin revoked /\ tok'.n = 0
           Late == \E r \in Requests : /\ req[r].pc = "refused" /\ req'[r].pc = "dropped"
                                       /\ req[r].saw = req[r].auth /\ req[r].saw \in revoked
<1>1. ServingInv /\ [Next]_vars => [Lost => Late]_vars
  <2> SUFFICES ASSUME ServingInv, Next, Lost PROVE Late
    OBVIOUS
  <2>1. ASSUME NEW r \in Requests, Quiet(r) PROVE Late
    <3>1. invalidate_token(r) /\ req[r].saw = req[r].auth
      BY <2>1, QuietTokens, DroppedIs DEF ServingInv
    <3>2. Good(req[r]) /\ req[r].pc = "refused" /\ req' = [req EXCEPT ![r] = At(req[r], "dropped")]
      BY <3>1 DEF invalidate_token, Drop, Put, ServingInv
    <3>3. req[r].got = "unauthorized" /\ req'[r].pc = "dropped"
      BY <3>2 DEF Good, Sound, Underway, Calling, HasAnswer, ServingInv, At, Rec
    <3>4. req[r].auth \in revoked
      BY <3>3 DEF ServingInv, Tokens
    <3> QED  BY <3>1, <3>2, <3>3, <3>4
  <2>2. ASSUME NEW r \in Requests,
               cached_headers(r) \/ auth_headers(r) \/ token_lock(r) \/ mint_and_store(r) \/ mint_fails(r)
        PROVE  tok'.n # 0
    BY <2>2, NewTokenIs DEF ServingInv, cached_headers, auth_headers, token_lock, mint_and_store, mint_fails, tokens
  <2>3. CASE Refresher \/ token_ages \/ provider_revokes \/ \E t \in cooled : cooldown_ends(t)
    BY <2>3, RefreshInv
  <2> QED  BY <2>1, <2>2, <2>3 DEF Next, Step, Quiet
<1> QED  BY <1>1, ServingInvariant, PTL DEF Spec, SeenTokenStays

=============================================================================
