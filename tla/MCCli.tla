------------------------------- MODULE MCCli -------------------------------
(***************************************************************************)
(* A small command line: one letter, a digit key, a letter the engine      *)
(* refuses, pages of one candidate.  Codes with a digit in them have no    *)
(* candidates.                                                             *)
(***************************************************************************)
EXTENDS Cli

CONSTANTS a, upper, one, whole, prefix

NoMarks == [mark \in {} |-> whole]
MCDeltas == {-1, 1}
MCDigitKey == <<one>>

Entry(w, text, n) ==
  [text |-> text, end |-> n, code |-> SubSeq(w, 1, n), complete |-> n = Len(w),
   exact_phrase |-> Len(w) = 1, lexical |-> TRUE]

MCResolve(w, injected) ==
  CASE w = <<>> \/ one \in {w[i] : i \in DOMAIN w} -> <<>>
    [] Len(w) = 1 -> <<Entry(w, whole, 1)>>
    [] OTHER -> <<Entry(w, whole, Len(w)), Entry(w, prefix, 1)>>
=============================================================================
