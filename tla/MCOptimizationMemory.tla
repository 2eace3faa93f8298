-------------------------- MODULE MCOptimizationMemory --------------------------
(* A small instance of OptimizationMemory for TLC: a shipped memory of one  *)
(* state with one technique, a name the LLM makes up, and a bottleneck. The *)
(* shipped state's name contains the bottleneck's.                          *)
EXTENDS OptimizationMemory, TLC

CONSTANTS s1, s2, t1, t2, memory_bound
MCShipped == s1 :> (t1 :> 0)
MCRequests == {{}, {<<s1, t2>>, <<s2, t1>>}}
MCByBottleneck == memory_bound :> {t2}
MCDefaultsFor == memory_bound :> {t2} @@ s1 :> {t2} @@ s2 :> {}
===============================================================================
