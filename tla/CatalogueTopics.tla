--------------------------- MODULE CatalogueTopics ---------------------------
(***************************************************************************)
(* What a collection announces (application-state.js, upsert): "created"   *)
(* of an entity it had not when upsert read it, "updated" otherwise.       *)
(* Relays are sent both, a push notification is queued for each "created". *)
(*                                                                         *)
(* raced is history beside the catalogue: the entities of which a second   *)
(* upsert was under way before the first had put its row.                  *)
(***************************************************************************)
EXTENDS Catalogue

VARIABLE raced

topicVars == <<vars, raced>>

UnderWay == {queue[i].entity : i \in DOMAIN queue}

TopicInit == Init /\ raced = {}

TopicNext ==
    /\ Next
    /\ raced' = IF Len(queue') > Len(queue)
                THEN raced \cup (UnderWay \cap {queue'[Len(queue')].entity})
                ELSE raced

TopicSpec == TopicInit /\ [][TopicNext]_topicVars
FairTopicSpec == TopicSpec /\ WF_vars(TickStep)

-----------------------------------------------------------------------------

(* upsert "emits exactly one event describing what happened - created (new *)
(* id)" (application-state.js:46): what is put for an entity that upsert   *)
(* had not found is new to the store, unless two upserts of it were under  *)
(* way at once; neither the tick, nor the button, nor a page load makes it *)
(* untrue between the read and the put.                                    *)
CreatedIsNew ==
    [][queue # <<>> /\ queue' = Tail(queue) /\ Head(queue).previous = NoRow =>
          store[Head(queue).entity] = NoRow \/ Head(queue).entity \in raced]_topicVars
=============================================================================
