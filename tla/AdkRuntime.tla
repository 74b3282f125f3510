----------------------------- MODULE AdkRuntime -----------------------------
(***************************************************************************)
(* What the synthesizer makes of a language model's answer                 *)
(* (adk_runtime.py: AdkLlmSynthesisCall, _strip_json_fences,               *)
(* run_text_agent).  An answer is a sequence of lines of which only the    *)
(* kind matters; a JSON document counts as one line, however it is broken. *)
(***************************************************************************)
EXTENDS Subsequences, FiniteSets, FiniteSetsExt

\* A fence is a line of three backticks, bare or with a language tag; an
\* answer is a JSON object of the shape asked for, other JSON is not.
LineKinds == {"bare fence", "tagged fence", "answer", "other json", "prose", "blank"}
Fences    == {"bare fence", "tagged fence"}

\* str.strip: the text from its first line that is not blank to its last.
Trim(text) ==
  LET kept == {i \in DOMAIN text : text[i] # "blank"}
  IN  IF kept = {} THEN <<>> ELSE SubSeq(text, Min(kept), Max(kept))

\* FAULT: the opening fence alone is dropped.
FaultyStripFences(text) ==
  LET all == Trim(text)
  IN  IF all # <<>> /\ all[1] \in Fences THEN Trim(Tail(all)) ELSE all

\* _strip_json_fences: an opening fence of either form goes, and with it a
\* bare fence at the end.
StripFences(text) ==
  LET all  == Trim(text)
      rest == Tail(all)
      body == IF rest # <<>> /\ rest[Len(rest)] = "bare fence"
                THEN SubSeq(rest, 1, Len(rest) - 1) ELSE rest
  IN  IF all # <<>> /\ all[1] \in Fences THEN Trim(body) ELSE all

\* json.loads returns the object that compose asked for: what is left is one
\* document and has the shape.
Usable(text) == StripFences(text) = <<"answer">>

\* What a reader takes for an answer: one document and nothing else but blank
\* lines and the fence it was wrapped in, which need not have been closed.
IsAnswer(text) ==
  LET lines == Subsequence(text, {i \in DOMAIN text : text[i] # "blank"})
  IN  \/ lines = <<"answer">>
      \/ \E fence \in Fences :
           lines \in {<<fence, "answer">>, <<fence, "answer", "bare fence">>}
=============================================================================
