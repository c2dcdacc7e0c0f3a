----------------------------- MODULE MCScheduler -----------------------------
EXTENDS SchedulerProperties

Shape(prompt_len, max_tokens) == [prompt_len |-> prompt_len, max_tokens |-> max_tokens]

\* On a pool of twelve slots: a short prompt that generates past a block, and a
\* long one that takes three chunks, the first of two blocks, and outgrows the
\* pool if it goes to the end.
MixedShapes == {Shape(1, 3), Shape(7, 7)}

\* On a pool of five slots, prompts that one chunk covers: one that generates
\* most of a pool, one that may just be admitted, one that fills the pool to the
\* last slot, one that never fits.
ShortShapes == {Shape(1, 4), Shape(4, 1), Shape(4, 2), Shape(6, 2)}

\* Each fits a pool of eight slots by itself, two do not.
LongShapes == {Shape(7, 1)}
=============================================================================
