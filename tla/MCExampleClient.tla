--------------------------- MODULE MCExampleClient ---------------------------
(* ExampleClient with every kind of question, with and without a target, and *)
(* the three shapes of a result the client knows.                            *)
EXTENDS ExampleClient

MCQuestions == {{}, {"l2"}, {"l2", "mac"}, {"l3"}, {"l2", "l3"}, {"l2", "mac", "l3"}}
MCShapes    == {"envelope", "legacy", "none"}
=============================================================================
