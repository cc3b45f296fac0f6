------------------------ MODULE MCProviderConversation ------------------------
(* ProviderConversation on the requests of MCRecordedLoop. *)
EXTENDS ProviderConversation

CONSTANTS a, aVariant, b, bad, http, threaded

MCRequests == {a, aVariant, b, bad}
MCNormal == (a :> a) @@ (aVariant :> a) @@ (b :> b) @@ (bad :> Rejected)
MCToolName == (a :> http) @@ (aVariant :> http) @@ (b :> threaded) @@ (bad :> threaded)
MCTools == {http, threaded}
MCHttpTools == {http}
=============================================================================
