-------------------------- MODULE MCSessionCompose --------------------------
(***************************************************************************)
(* A schema with punctuation: a letter, a digit, '.' with a full-width     *)
(* form and '|' which offers two symbols.  The lexicon knows letters only, *)
(* and candidates of every other code are the injected ones.               *)
(***************************************************************************)
EXTENDS OrderlyFrontend

CONSTANTS a, one, dot, bar, word, stop, middle

MCCommitMark == [mark \in {dot} |-> stop]
MCListMark   == [mark \in {bar} |-> <<middle, stop>>]

Word(w, n) == [text |-> word, end |-> n, code |-> SubSeq(w, 1, n),
               complete |-> n = Len(w), exact_phrase |-> TRUE, lexical |-> TRUE]

MCResolve(w, injected) ==
  injected \o
    CASE w = <<>> \/ \E i \in DOMAIN w : w[i] \notin Letter -> <<>>
      [] Len(w) = 1 -> <<Word(w, 1)>>
      [] Len(w) = 2 -> <<Word(w, 2), Word(w, 1)>>
      [] OTHER      -> <<Word(w, 2), Word(w, Len(w)), Word(w, 1)>>

\* What RecordCoversInput needs of a pipeline, this one has.
ASSUME CandidatesSpell == CodesSpell

=============================================================================
