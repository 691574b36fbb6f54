------------------------- MODULE MC_SessionLifecycle -------------------------
(* Small instances of SessionLifecycle for TLC. *)
EXTENDS SessionLifecycle

CONSTANTS p1, d1

Untouched(s) == s \notin running /\ guard[s] = None /\ server[s] = None

Hard(row) == row.mode = "HARD" /\ row.profile = p1 /\ row.contract = d1

Plain(s) ==
    /\ guard[s] # None => Hard(guard[s])
    /\ hook[s] # None /\ hook[s].step = "WRITE" => Hard(hook[s].row)
    /\ server[s] # None => Beating(s)

(* A state with a lost dossier or with the kill switch on is not followed      *)
(* further. A second profile and dossier, an absent or dead channel and a kill *)
(* are met by one session alone; two sessions meet on a channel that is alive, *)
(* and never are both in the middle of a hook and of an acknowledgement.       *)
InScope ==
    /\ ~raced /\ ~barrier_off
    /\ \/ /\ profile = p1 /\ marker = "live" /\ ~killed
          /\ \A s \in Session : Plain(s)
          /\ \E s \in Session : hook[s] = None \/ ack[s] = None
       \/ \E s \in Session : Untouched(s)
=============================================================================
