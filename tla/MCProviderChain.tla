-------------------------- MODULE MCProviderChain --------------------------
(* Two providers, two attempts each, a threshold of two. *)
EXTENDS ProviderChain

MCProviders == {"ollama", "anthropic"}
MCChain == <<"ollama", "anthropic">>

=============================================================================
