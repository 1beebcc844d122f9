----------------------------- MODULE Production -----------------------------
(***************************************************************************)
(* The tables the repository ships: what each model can do, what each      *)
(* purpose needs, the rows of config/purpose_routing.yaml (temperatures in *)
(* tenths), and the prices per million tokens in thousandths of a CNY      *)
(* (USD_PER_CNY is 1/7.2, so DeepSeek's 0.28 and 0.42 USD are 2016 and     *)
(* 3024).                                                                  *)
(***************************************************************************)
EXTENDS Naturals

LLMPurpose ==
    {"INTENT_CLASSIFICATION", "RETRIEVAL_SELECTOR", "MAIN_GENERATION",
     "NEGOTIATION_GENERATION", "STYLE_REWRITE", "IMAGE_UNDERSTANDING", "CHITCHAT"}

ModelCapabilities ==
    [m \in {"qwen-turbo", "qwen-plus", "qwen-flash", "qwen-max", "qwen-vl-max",
            "qwen-vl-plus", "deepseek-chat"} |->
        {"text", "json_mode"}
        \cup (IF m = "qwen-max" THEN {"tool_use"} ELSE {})
        \cup (IF m \in {"qwen-vl-max", "qwen-vl-plus"} THEN {"vision"} ELSE {})]

PurposeRequirements ==
    [p \in LLMPurpose |->
        {"text"}
        \cup (IF p \in {"MAIN_GENERATION", "NEGOTIATION_GENERATION", "CHITCHAT"}
              THEN {} ELSE {"json_mode"})
        \cup (IF p = "IMAGE_UNDERSTANDING" THEN {"vision"} ELSE {})]

Whole(n) == [type |-> "int", tenths |-> 10 * n]
Tenths(n) == [type |-> "float", tenths |-> n]

(* A row as the YAML parser returns it.                                    *)
Row(primary, fallback, timeout_ms, max_retries, temperature) ==
    [primary |-> primary, fallback |-> fallback, timeout_ms |-> Whole(timeout_ms),
     max_retries |-> Whole(max_retries), temperature |-> Tenths(temperature)]

PurposeRouting ==
    [p \in LLMPurpose |->
        CASE p = "INTENT_CLASSIFICATION"  -> Row("qwen-turbo", "qwen-plus", 3000, 2, 1)
          [] p = "RETRIEVAL_SELECTOR"     -> Row("qwen-turbo", "qwen-plus", 3000, 1, 1)
          [] p = "MAIN_GENERATION"        -> Row("qwen-max", "deepseek-chat", 10000, 2, 7)
          [] p = "NEGOTIATION_GENERATION" -> Row("qwen-max", "deepseek-chat", 10000, 2, 7)
          [] p = "STYLE_REWRITE"          -> Row("qwen-turbo", "deepseek-chat", 5000, 1, 5)
          [] p = "IMAGE_UNDERSTANDING"    -> Row("qwen-vl-max", "qwen-vl-plus", 15000, 1, 3)
          [] p = "CHITCHAT"               -> Row("qwen-turbo", "qwen-plus", 5000, 1, 7)]

Price(input, output) == [input |-> input, output |-> output]

QwenPrices ==
    [m \in DOMAIN ModelCapabilities \ {"deepseek-chat"} |->
        CASE m = "qwen-turbo"   -> Price(300, 600)
          [] m = "qwen-plus"    -> Price(800, 2000)
          [] m = "qwen-flash"   -> Price(150, 1500)
          [] m = "qwen-max"     -> Price(2400, 9600)
          [] m = "qwen-vl-max"  -> Price(1600, 4000)
          [] m = "qwen-vl-plus" -> Price(800, 2000)]

ModelPrices ==
    [m \in DOMAIN QwenPrices \cup {"deepseek-chat"} |->
        IF m \in DOMAIN QwenPrices THEN QwenPrices[m] ELSE Price(2016, 3024)]

TieredModels == DOMAIN QwenPrices
=============================================================================
