----------------------------- MODULE MCStartup ------------------------------
(***************************************************************************)
(* Startup on the tables the repository ships: the bundled YAML, the ways  *)
(* it may drift between two reads, and one document per early fault.  The  *)
(* price lists: the prices of the code up to 128K, twice as much beyond    *)
(* for Qwen.                                                               *)
(***************************************************************************)
EXTENDS Spend, Production, TLC

MCModel == DOMAIN ModelCapabilities \cup {"gpt-4o"}

Parsed(rows) == [fault |-> "none", rows |-> rows]

(* The shipped rows with the row of one purpose changed.                   *)
With(p, row) == Parsed([PurposeRouting EXCEPT ![p] = row])

Retuned == With("CHITCHAT", Row("qwen-flash", "qwen-plus", 100, 0, 10))

(* The shipped row of CHITCHAT with one number written differently.        *)
Written(key, type, tenths) ==
    With("CHITCHAT", [PurposeRouting["CHITCHAT"] EXCEPT
                         ![key] = [type |-> type, tenths |-> tenths]])

(* `timeout_ms: "3000"`, `max_retries: true` and `temperature: true`.      *)
Lax ==
    {Written("timeout_ms", "str", 30000), Written("max_retries", "bool", 10),
     Written("temperature", "bool", 10)}

Drifted ==
    {With("CHITCHAT", Row("gpt-4o", "qwen-plus", 5000, 1, 7)),
     With("IMAGE_UNDERSTANDING", Row("qwen-vl-max", "qwen-max", 15000, 1, 3)),
     With("CHITCHAT", Row("qwen-turbo", "qwen-plus", 99, 1, 7)),
     With("CHITCHAT", Row("qwen-turbo", "qwen-plus", 60001, 1, 7)),
     With("CHITCHAT", Row("qwen-turbo", "qwen-plus", 5000, 6, 7)),
     With("CHITCHAT", Row("qwen-turbo", "qwen-plus", 5000, 1, 11)),
     Written("timeout_ms", "float", 30005), Written("timeout_ms", "str", None),
     Written("timeout_ms", "bool", 10),
     With("CHITCHAT", [primary |-> "qwen-turbo", fallback |-> "qwen-plus"]),
     With("CHITCHAT", PurposeRouting["CHITCHAT"] @@ [max_tokens |-> Whole(100)]),
     Parsed([p \in LLMPurpose \ {"CHITCHAT"} |-> PurposeRouting[p]]),
     Parsed([p \in LLMPurpose \cup {"SMALLTALK"} |->
                PurposeRouting[IF p = "SMALLTALK" THEN "CHITCHAT" ELSE p]])}

MCDocument ==
    {Parsed(PurposeRouting), Retuned} \cup Lax \cup Drifted
    \cup [fault : EarlyFault, rows : {<<>>}]

Tier(upto, price, times) ==
    [upto |-> upto, input |-> times * price.input, output |-> times * price.output]

MCPriceList ==
    [m \in DOMAIN ModelPrices |->
        IF m = "deepseek-chat" THEN <<Tier(1000000, Price(2016, 3024), 1)>>
        ELSE <<Tier(128000, ModelPrices[m], 1), Tier(1000000, ModelPrices[m], 2)>>]

MCUsage == {0, 1, 128000, 128001} \X {0, 1, 20000}

(* The lists above are such price lists.                                   *)
ASSUME PriceListsAsVerified == ListsAsVerified

(* The shipped YAML, a retuned one and three written laxly pass every check.*)
ASSUME BundledYamlLoads ==
    \A doc \in {Parsed(PurposeRouting), Retuned} \cup Lax : Loadable(doc)
=============================================================================
