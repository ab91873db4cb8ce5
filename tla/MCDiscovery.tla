---------------------------- MODULE MCDiscovery ----------------------------
(* A small instance of Discovery: two profiles, one of them with room to be re-observed. *)
EXTENDS Discovery, TLC
CONSTANTS p1, p2, w1, w2, o1, o2
Here == [where |-> "east", bounded |-> TRUE]
MCShapes == (p1 :> {[where |-> "east", bounded |-> FALSE]}) @@ (p2 :> {})
MCOffered == [p \in Profiles |-> Here]
MCWorkerOf == [o \in Operators |-> w1]
Entry(id, aliases, family, protocol, served_by) ==
  [id |-> id, aliases |-> aliases, family |-> family, scope |-> "us", prefix |-> "us", bounded |-> FALSE,
   jurisdiction |-> "none", protocol |-> protocol, served_by |-> served_by, region_serves |-> TRUE,
   virtual |-> FALSE, endpoint |-> TRUE, key |-> "tier"]
\* The second names one model twice: no process starts with it.
MCBuilds == {{Entry("m1", {"opus"}, "opus", "messages", "bedrock")},
             {Entry("m2", {"opus"}, "opus", "messages", "bedrock"),
              Entry("m3", {"opus"}, "grok", "responses", "vllm")}}
Wish(p, aliases, key) == [p |-> p, aliases |-> aliases, key |-> key]
MCWishes == {Wish(p1, {"sonnet"}, "tier"), Wish(p1, {}, "tier"),
             Wish(p2, {"sonnet"}, "tier"), Wish(p2, {"opus"}, "tier")}
=============================================================================
