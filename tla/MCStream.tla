------------------------------- MODULE MCStream -------------------------------
EXTENDS Stream

\* Words; characters of two tokens at the start, at the end, cut short, or
\* without their first token; a special token between words.
SomeGenerations == {
  <<"word", "word", "word">>, <<"lead", "rest", "word">>, <<"word", "lead", "rest">>,
  <<"lead", "word", "lead">>, <<"word", "special", "word">>, <<"rest", "lead", "rest">>}
=============================================================================
