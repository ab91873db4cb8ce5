---------------------------- MODULE MCPriceFeed ----------------------------
(* A small instance of PriceFeed: two models of two feeds that share a key, and one of an operator's. *)
EXTENDS PriceFeed
Row(class, region, price) ==
  [name |-> "known", class |-> class, region |-> region, scope |-> "geo", mode |-> "standard", unit |-> 1, price |-> price]
Batch(row) == [row EXCEPT !.mode = "batch"]
MCKeyOf == ("sold" :> "opus") @@ ("listed" :> "opus") @@ ("own" :> "vllm")
MCOwnerOf == ("sold" :> "agreement") @@ ("listed" :> "price_list") @@ ("own" :> "self_hosted")
MCRegionOf == [m \in Models |-> "east"]
MCProfileOf == ("sold" :> "geo") @@ ("listed" :> "none") @@ ("own" :> "unknown")
MCFloor == [key \in {"opus", "vllm"} |-> "input" :> 1 @@ "cache_read" :> 1]
MCOffers ==
  ("sold" :> {{Row("input", None, 3), Row("cache_read", None, 2), Batch(Row("input", None, 9))}, {Row("input", None, 1)}})
  @@ ("listed" :> {{Row("input", "east", 1), Row("input", "west", 2), [Row("input", "west", 7) EXCEPT !.unit = None]}})
  @@ ("own" :> {{Row("input", None, 1), Row("cache_read", None, 0)}})
Out(raised, skipped, unread, unreachable) ==
  [raised |-> raised, skipped |-> skipped, unread |-> unread, unreachable |-> unreachable]
MCOutages == {Clear, Out({"self_hosted"}, {}, {"west"}, FALSE), Out({"self_hosted"}, {}, {}, TRUE)}
\* The agreement feed uses up the time of a pass, and the feeds behind it are not asked.
MCSkipped == {Clear, Out({}, {"price_list", "self_hosted"}, {}, FALSE)}
=============================================================================
