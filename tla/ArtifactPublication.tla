------------------------- MODULE ArtifactPublication -------------------------
(***************************************************************************)
(* publish_artifact, which the seven analyzers repeat: the contents go to  *)
(* a temporary file of the analysis directory, which is then linked under  *)
(* the artifact's name, and a name already taken is compared.  Several     *)
(* analyzers may publish in one Render Result, two of the same name among  *)
(* them, and any of them may fail or be killed at any step.                *)
(*                                                                         *)
(* An artifact is never removed, so that looking for it and reading it are *)
(* one step.                                                               *)
(***************************************************************************)
CONSTANTS Workers,    \* analyzer processes
          Names,      \* artifact names
          Contents,   \* what analyzers may have to publish
          None,
          Partial,    \* a temporary file that is not written to its end
          Posix       \* os.name is not "nt": os.link and not os.rename

ASSUME PublicationAssumption ==
  /\ None \notin Contents \cup [name : Names, content : Contents] \cup {"kept", "refused", Partial}
  /\ Partial \notin Contents
  /\ Posix \in BOOLEAN

VARIABLES pc,         \* where each process stands
          offer,      \* the artifact each has to publish, or None
          outcome,    \* "kept", "refused", or None for a failure
          artifact,   \* artifact[n]: the content of the file n, or None
          temporary   \* the temporary file of each process, or None

publicationVars == <<pc, offer, outcome, artifact, temporary>>

Offers == [name : Names, content : Contents]

Held(w) == artifact[offer[w].name]

Verdict(w) == IF Held(w) = offer[w].content THEN "kept" ELSE "refused"

PublicationInit == /\ pc = [w \in Workers |-> "idle"]
                   /\ offer = [w \in Workers |-> None]
                   /\ outcome = [w \in Workers |-> None]
                   /\ artifact = [n \in Names |-> None]
                   /\ temporary = [w \in Workers |-> None]

(* main: the analysis is encoded and has to be published.                  *)
Offer(w, o) == /\ pc[w] = "idle"
               /\ pc' = [pc EXCEPT ![w] = "publish"]
               /\ offer' = [offer EXCEPT ![w] = o]
               /\ UNCHANGED <<outcome, artifact, temporary>>

(* main: no evidence: the analyzer exits 1.                                *)
Refuse(w) == /\ pc[w] = "idle"
             /\ pc' = [pc EXCEPT ![w] = "done"]
             /\ UNCHANGED <<offer, outcome, artifact, temporary>>

FindExisting(w) == /\ pc[w] = "publish"
                   /\ Held(w) # None
                   /\ outcome' = [outcome EXCEPT ![w] = Verdict(w)]
                   /\ pc' = [pc EXCEPT ![w] = "done"]
                   /\ UNCHANGED <<offer, artifact, temporary>>

MakeTemporary(w) == /\ pc[w] = "publish"
                    /\ Held(w) = None
                    /\ temporary' = [temporary EXCEPT ![w] = Partial]
                    /\ pc' = [pc EXCEPT ![w] = "write"]
                    /\ UNCHANGED <<offer, outcome, artifact>>

Write(w) == /\ pc[w] = "write"
            /\ temporary' = [temporary EXCEPT ![w] = offer[w].content]
            /\ pc' = [pc EXCEPT ![w] = "link"]
            /\ UNCHANGED <<offer, outcome, artifact>>

Link(w) == /\ pc[w] = "link"
           /\ Held(w) = None
           /\ artifact' = [artifact EXCEPT ![offer[w].name] = temporary[w]]
           /\ temporary' = IF Posix THEN temporary ELSE [temporary EXCEPT ![w] = None]
           /\ outcome' = [outcome EXCEPT ![w] = "kept"]
           /\ pc' = [pc EXCEPT ![w] = "unlink"]
           /\ UNCHANGED offer

(* A bug: os.replace, which takes the name from whoever holds it.          *)
ReplaceExisting(w) ==
  /\ pc[w] = "link"
  /\ Held(w) # None
  /\ artifact' = [artifact EXCEPT ![offer[w].name] = temporary[w]]
  /\ outcome' = [outcome EXCEPT ![w] = "kept"]
  /\ pc' = [pc EXCEPT ![w] = "unlink"]
  /\ UNCHANGED <<offer, temporary>>

LinkExists(w) == /\ pc[w] = "link"
                 /\ Held(w) # None
                 /\ outcome' = [outcome EXCEPT ![w] = Verdict(w)]
                 /\ pc' = [pc EXCEPT ![w] = "unlink"]
                 /\ UNCHANGED <<offer, artifact, temporary>>

(* A bug: the finally block is only reached by what was published.         *)
UnlinkPublished(w) ==
  /\ pc[w] = "unlink"
  /\ temporary' = IF outcome[w] = "kept" THEN [temporary EXCEPT ![w] = None] ELSE temporary
  /\ pc' = [pc EXCEPT ![w] = "done"]
  /\ UNCHANGED <<offer, outcome, artifact>>

(* The finally block.                                                      *)
Unlink(w) == /\ pc[w] = "unlink"
             /\ temporary' = [temporary EXCEPT ![w] = None]
             /\ pc' = [pc EXCEPT ![w] = "done"]
             /\ UNCHANGED <<offer, outcome, artifact>>

(* An OSError: before there is a temporary file main reports it; with one, *)
(* the finally block comes first.                                          *)
Fail(w) == /\ pc[w] \in {"publish", "write", "link"}
           /\ pc' = [pc EXCEPT ![w] = IF @ = "publish" THEN "done" ELSE "unlink"]
           /\ UNCHANGED <<offer, outcome, artifact, temporary>>

(* The process is killed.                                                  *)
Kill(w) == /\ pc[w] \notin {"done", "dead"}
           /\ pc' = [pc EXCEPT ![w] = "dead"]
           /\ UNCHANGED <<offer, outcome, artifact, temporary>>

publish_artifact(w) == \/ FindExisting(w)
                       \/ MakeTemporary(w)
                       \/ Write(w)
                       \/ Link(w)
                       \/ LinkExists(w)
                       \/ Unlink(w)

PublicationNext == \E w \in Workers : \/ \E o \in Offers : Offer(w, o)
                                      \/ Refuse(w)
                                      \/ publish_artifact(w)
                                      \/ Fail(w)
                                      \/ Kill(w)

PublicationSpec == PublicationInit /\ [][PublicationNext]_publicationVars

-----------------------------------------------------------------------------
PublicationTypeOK ==
  /\ pc \in [Workers -> {"idle", "publish", "write", "link", "unlink", "done", "dead"}]
  /\ offer \in [Workers -> Offers \cup {None}]
  /\ outcome \in [Workers -> {"kept", "refused", None}]
  /\ artifact \in [Names -> Contents \cup {None}]
  /\ temporary \in [Workers -> Contents \cup {Partial, None}]

(* Only an analyzer that was killed leaves a temporary file behind: one    *)
(* that published, lost the race, or failed has removed its own            *)
(* (publish_artifact's finally).                                           *)
OnlyTheDeadLeaveTemporaries ==
  \A w \in Workers : pc[w] = "done" => temporary[w] = None

(* Whoever was told its evidence is published finds it whole, whatever the *)
(* other analyzers did since.                                              *)
KeptIsHeld ==
  \A w \in Workers : outcome[w] = "kept" => offer[w] # None /\ Held(w) = offer[w].content

(* What a process has at each step.                                        *)
StepsInOrder ==
  \A w \in Workers :
    /\ pc[w] = "idle" => offer[w] = None
    /\ pc[w] \in {"publish", "write", "link"} => offer[w] # None /\ outcome[w] = None
    /\ pc[w] \in {"idle", "publish"} => outcome[w] = None /\ temporary[w] = None
    /\ pc[w] = "link" => temporary[w] = offer[w].content

(* The accounts of publish_artifact, together an inductive invariant:      *)
(* temporaries, answers, and what each step relies on.                     *)
PublicationInv == /\ PublicationTypeOK
                  /\ OnlyTheDeadLeaveTemporaries
                  /\ KeptIsHeld
                  /\ StepsInOrder

(* The steps of publish_artifact, with their crashes, failures and races,  *)
(* show no reader anything but the write-once store: artifacts appear      *)
(* whole, once, and for good, and every answer is true of them.            *)
Store == INSTANCE WriteOnce WITH Clients <- Workers, held <- artifact, answer <- outcome

PublishedOnce == Store!Spec

=============================================================================
