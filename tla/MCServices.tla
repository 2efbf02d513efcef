----------------------------- MODULE MCServices -----------------------------
(* Model checking Services: a document that is cut by its windows and then *)
(* gets shorter, so that a chunk of it is left over, and a short one.      *)
EXTENDS Services

MCDocuments == <<"caching", "secrets">>
MCEditions  == [caching |-> <<"long", "short">>, secrets |-> <<"brief">>]
MCSections  == [long |-> <<1600, 40>>, short |-> <<60, 400>>, brief |-> <<150>>]

=============================================================================
