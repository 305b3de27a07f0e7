---------------------------- MODULE MCNarratives ----------------------------
EXTENDS Narratives

\* Failover from the enclave, an unknown name with failover to the enclave,
\* and no key at all.
MCDeployments ==
  {[provider |-> "nearai", keys |-> {"nearai", "groq"}],
   [provider |-> "openai", keys |-> {"nearai", "groq"}],
   [provider |-> "groq", keys |-> {}]}
=============================================================================
