---------------------------- MODULE CommitLedger ----------------------------
(***************************************************************************)
(* What an engine session promises about the platform actions it proposes, *)
(* with everything about composing, candidates and pages left out: an      *)
(* action is numbered when it is proposed, stays open until the platform   *)
(* answers it, is answered at most once, and a phrase is learned only from *)
(* the answer to its own action.                                           *)
(***************************************************************************)
EXTENDS Integers, Sequences

VARIABLES
  issued,     \* actions proposed so far; they are numbered 1 .. issued
  open,       \* actions the platform has not answered
  teaching,   \* the open actions whose commit carries a phrase to learn
  learned     \* the actions a phrase was learned from, in order

ledgerVars == <<issued, open, teaching, learned>>

Init ==
  /\ issued = 0
  /\ open = {}
  /\ teaching = {}
  /\ learned = <<>>

Propose ==
  /\ issued' = issued + 1
  /\ open' = open \cup {issued + 1}
  /\ teaching' \in {teaching, teaching \cup {issued + 1}}
  /\ UNCHANGED learned

Answer(id) ==
  /\ open' = open \ {id}
  /\ teaching' = teaching \ {id}
  /\ learned' \in {learned} \cup {Append(learned, i) : i \in teaching \cap {id}}
  /\ UNCHANGED issued

Next == Propose \/ \E id \in open : Answer(id)

Spec == Init /\ [][Next]_ledgerVars

-----------------------------------------------------------------------------
\* No action is learned from twice, and an action still open has taught
\* nothing: the promise a duplicated or late action result must not break.
LearnedOnce ==
  /\ \A i, j \in 1 .. Len(learned) : learned[i] = learned[j] => i = j
  /\ \A i \in 1 .. Len(learned) : learned[i] \in (1 .. issued) \ open

-----------------------------------------------------------------------------
(***************************************************************************)
(* The promise is inductive once the sets are known to be nested: what     *)
(* teaches is open and what is open was issued.                            *)
(***************************************************************************)
LedgerInv ==
  /\ issued \in Nat
  /\ open \subseteq 1 .. issued
  /\ teaching \subseteq open
  /\ learned \in Seq(Nat)
  /\ LearnedOnce
=============================================================================
