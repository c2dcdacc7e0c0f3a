-------------------------------- MODULE Stream --------------------------------
(***************************************************************************)
(* The text of a stream: module Dispatch, where each token a stream reads  *)
(* also goes through TokenizerWrapper.decode_incremental, which decodes a  *)
(* window of the tokens read so far and sends what is new in its text.     *)
(*                                                                         *)
(* The vocabulary is reduced to what makes incremental decoding hard: a    *)
(* word comes with a space before it that decoding drops at the start of   *)
(* the text, a character can take two tokens, and a special token has no   *)
(* text.                                                                   *)
(***************************************************************************)
EXTENDS Dispatch

CONSTANT Generations   \* what may be generated: sequences of kinds, one per token

ASSUME StreamAssumption ==
  Generations \subseteq [1 .. MaxTokens -> {"word", "lead", "rest", "special"}]

VARIABLES
  generation,       \* the kinds of the tokens generated, for every request
  _decode_windows,  \* _decode_windows[s]: prefix_offset and read_offset
  sent              \* sent[s]: the text of the stream's events so far

text_vars == <<_decode_windows, sent>>
svars == <<vars, generation, text_vars>>
-----------------------------------------------------------------------------
\* What decoding makes of bytes that are no character: _INCOMPLETE_CHAR.
Incomplete == [spaced |-> FALSE, token |-> 0]

\* Decoding reads token by token.  Its text is a sequence of glyphs, named by their
\* token: a word, with the space before it, or a character, or Incomplete.  While a
\* character is begun, the byte there is shows as Incomplete.
Nothing == [text |-> <<>>, begun |-> 0]

Shown(d) == IF d.begun = 0 THEN d.text ELSE Append(d.text, Incomplete)

\* A byte that completes no character is none.
WithToken(d, n) ==
  LET Adding(text, spaced, token) ==
        [text |-> Append(text, [spaced |-> spaced, token |-> token]), begun |-> 0]
  IN CASE generation[n] = "special" -> d
       [] generation[n] = "word" -> Adding(Shown(d), Shown(d) # <<>>, n)
       [] generation[n] = "lead" -> [text |-> Shown(d), begun |-> n]
       [] generation[n] = "rest" -> Adding(d.text, FALSE, d.begun)

Decoding(tokens) ==
  LET upto[k \in 0 .. Len(tokens)] ==
        IF k = 0 THEN Nothing ELSE WithToken(upto[k - 1], tokens[k])
  IN upto[Len(tokens)]

decode(tokens) == Shown(Decoding(tokens))

EndsIncomplete(text) == text # <<>> /\ Last(text) = Incomplete

HeldBackMut_OnlyIfEmpty(text, prefix_text) == Len(text) =< Len(prefix_text)

HeldBack(text, prefix_text) == Len(text) =< Len(prefix_text) \/ EndsIncomplete(text)

\* decode_incremental, on the tokens s has read with the next one.
DecodeIncremental(s, generated) ==
  LET prefix_offset == _decode_windows[s][1]
      read_offset == _decode_windows[s][2]
      prefix_text == decode(SubSeq(generated, prefix_offset + 1, read_offset))
      text == decode(SubSeq(generated, prefix_offset + 1, Len(generated)))
  IN
  IF HeldBack(text, prefix_text) THEN UNCHANGED text_vars
  ELSE /\ _decode_windows' = [_decode_windows EXCEPT ![s] = <<read_offset, Len(generated)>>]
       /\ sent' = [sent EXCEPT ![s] = @ \o SubSeq(text, Len(prefix_text) + 1, Len(text))]

StreamInit ==
  /\ Init
  /\ generation \in Generations
  /\ _decode_windows = [s \in Requests |-> <<0, 0>>]
  /\ sent = [s \in Requests |-> <<>>]

\* The stream of s sends one event per token, with the text completed since the
\* last; a terminal has none.
ReadEvent(s) ==
  /\ Read(s)
  /\ IF got'[s] = got[s] THEN UNCHANGED text_vars ELSE DecodeIncremental(s, got'[s])
  /\ UNCHANGED generation

\* The finally clause: the channel is popped and the window forgotten.
Close(s) ==
  /\ PopChannel(s)
  /\ _decode_windows' = [_decode_windows EXCEPT ![s] = <<0, 0>>]
  /\ UNCHANGED <<generation, sent>>

DeliverBatch == Deliver /\ UNCHANGED <<generation, text_vars>>

StreamNext ==
  \/ (\E s \in Requests : NewOutputChannel(s)) /\ UNCHANGED <<generation, text_vars>>
  \/ Scheduler /\ UNCHANGED <<generation, text_vars>>
  \/ DeliverBatch
  \/ \E s \in Requests : ReadEvent(s) \/ Close(s)

\* As in module Dispatch: the event loop and the streams run, no more.
StreamSpec ==
  /\ StreamInit /\ [][StreamNext]_svars
  /\ WF_svars(DeliverBatch)
  /\ \A s \in Requests : WF_svars(ReadEvent(s))
-----------------------------------------------------------------------------
\* The events of a stream add up to the text of its tokens: decoded in windows,
\* no character is sent twice or skipped, none is sent in pieces, and every space
\* is where decoding all the tokens at once has it, whichever tokens were dropped
\* for a slow client.  Text is held back only while it ends in bytes that are no
\* character yet.
SentIsDecoded ==
  \A s \in Requests : output_channels[s] = "open" =>
    /\ sent[s] = decode(SubSeq(got[s], 1, _decode_windows[s][2]))
    /\ decode(got[s]) = sent[s] \/ EndsIncomplete(decode(got[s]))
=============================================================================
