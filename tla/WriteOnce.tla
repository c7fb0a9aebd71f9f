------------------------------ MODULE WriteOnce ------------------------------
(***************************************************************************)
(* What publishing an analysis artifact promises, whatever the steps: a    *)
(* name is given one content for good by the first client that offers it;  *)
(* a client is answered "kept" only while the name holds its content, and  *)
(* "refused" only when the name holds another.                             *)
(***************************************************************************)
CONSTANTS Clients, Names, Contents, None

VARIABLES held,     \* held[n]: the content of the name n, or None
          offer,    \* offer[c]: what the client c asks to publish, or None
          answer    \* answer[c]: "kept", "refused", or None for no answer

vars == <<held, offer, answer>>

Offers == [name : Names, content : Contents]

Init == /\ held = [n \in Names |-> None]
        /\ offer = [c \in Clients |-> None]
        /\ answer = [c \in Clients |-> None]

Offer(c) == /\ offer[c] = None
            /\ offer'[c] \in Offers
            /\ offer' = [offer EXCEPT ![c] = offer'[c]]
            /\ UNCHANGED <<held, answer>>

Waits(c) == offer[c] # None /\ answer[c] = None

Hold(c) == /\ Waits(c)
           /\ held[offer[c].name] = None
           /\ held' = [held EXCEPT ![offer[c].name] = offer[c].content]
           /\ answer' = [answer EXCEPT ![c] = "kept"]
           /\ UNCHANGED offer

Compare(c) ==
  /\ Waits(c)
  /\ held[offer[c].name] # None
  /\ answer' = [answer EXCEPT ![c] =
                  IF held[offer[c].name] = offer[c].content THEN "kept" ELSE "refused"]
  /\ UNCHANGED <<held, offer>>

Next == \E c \in Clients : \/ Offer(c)
                           \/ Hold(c)
                           \/ Compare(c)

Spec == Init /\ [][Next]_vars

=============================================================================
