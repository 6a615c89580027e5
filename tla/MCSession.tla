----------------------------- MODULE MCSession -----------------------------
(***************************************************************************)
(* A small instance of Session: one letter, a lexicon that offers whole    *)
(* and prefix candidates for every code, one candidate that claims no      *)
(* input at all, pages of two candidates.                                  *)
(***************************************************************************)
EXTENDS OrderlyFrontend

CONSTANTS a, foreign, whole, prefix

Whole(w)      == [text |-> whole, end |-> Len(w), code |-> w, complete |-> TRUE,
                  exact_phrase |-> Len(w) = 1, lexical |-> TRUE]
Prefix(w, n)  == [text |-> prefix, end |-> n, code |-> SubSeq(w, 1, n),
                  complete |-> FALSE, exact_phrase |-> TRUE, lexical |-> TRUE]

\* The candidate with end 0 is what an InputPipeline other than the
\* ComposablePipeline might offer; the session has to refuse it.
MCResolve(w, injected) ==
  CASE w = <<>> -> <<>>
    [] Len(w) = 1 -> <<Whole(w)>>
    [] Len(w) = 2 -> <<Whole(w), Prefix(w, 1), Prefix(w, 0)>>
    [] OTHER -> <<Prefix(w, 2), Whole(w), Prefix(w, 1)>>

NoMarks == [mark \in {} |-> whole]
MCDeltas == {-1, 2}
MCEpochs == {1, 2}
MCSessions == {1, 2}
=============================================================================
