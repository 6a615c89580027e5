--------------------------- MODULE OrderlyFrontend ---------------------------
(***************************************************************************)
(* A frontend that numbers its commands one by one and echoes the engine's *)
(* sequence number in its action results, as SessionDriver does            *)
(* (apps/cheime-cli/src/interactive/drain.rs), but answers in any order,   *)
(* at any time and perhaps never.  It leaves SetPreedit unanswered: that   *)
(* answer changes nothing but pending.  Commands get further in a bounded  *)
(* number of steps than with Session's own environment.                    *)
(***************************************************************************)
EXTENDS Session

Command == [epoch |-> Epoch, session |-> SessionId, sequence |-> last_sequence + 1]
Answer  == [Command EXCEPT !.sequence = last_sequence]

OrderlyNext ==
  \/ /\ last_sequence < MaxSequence
     /\ \/ \E key \in Key : KeyCommand(Command, key)
        \/ UiCommand(Command)
  \/ \E id \in DOMAIN pending, outcome \in {"Applied", "Rejected"} :
       /\ pending[id].effect # "Keep"
       /\ PlatformActionResult(Answer, id, outcome)

OrderlySpec == Init /\ [][OrderlyNext]_vars
=============================================================================
