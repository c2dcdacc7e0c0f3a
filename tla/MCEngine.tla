------------------------------- MODULE MCEngine -------------------------------
EXTENDS EngineProperties

Shape(prompt_len, max_tokens) == [prompt_len |-> prompt_len, max_tokens |-> max_tokens]

\* On a pool of three slots the two compete, and the second may have to wait.
EngineShapes == {Shape(1, 3), Shape(2, 1)}
=============================================================================
