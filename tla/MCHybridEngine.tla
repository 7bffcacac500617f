---------------------------- MODULE MCHybridEngine ----------------------------
(* HybridEngine on two groups of two ranks.                                *)
EXTENDS HybridEngine

MCRanks == 1 .. 4
MCGroupOf == <<1, 1, 2, 2>>
MCLeads == {1, 3}

Config(backend, tags, lora, dummy, offParam, offOptim) ==
  [backend |-> backend, tags |-> tags, lora |-> lora, dummy |-> dummy,
   offParam |-> offParam, offOptim |-> offOptim]

\* LoRA with and without the default load format, dummy_dtensor; a vLLM that
\* wakes up in parts and one that does not; SGLang.
MCConfigs ==
  {Config("vllm", TRUE, FALSE, TRUE, TRUE, TRUE),
   Config("vllm", FALSE, FALSE, FALSE, TRUE, TRUE),
   Config("vllm", TRUE, TRUE, FALSE, TRUE, FALSE),
   Config("vllm", TRUE, TRUE, TRUE, FALSE, TRUE),
   Config("sglang", FALSE, FALSE, TRUE, TRUE, TRUE)}

\* One configuration: LoRA, with the default load format.
LoraByDefault == {Config("vllm", TRUE, TRUE, TRUE, FALSE, FALSE)}
=============================================================================
