------------------------------ MODULE A2aProxy ------------------------------
(***************************************************************************)
(* The A2A front end of the proxy (proxy/src/a2a/http.rs, agent_card.rs):  *)
(* one handler per request, all sharing the cache of agent cards.  A task  *)
(* is checked against its agent's card, judged, recorded as a handoff and  *)
(* forwarded; other requests are forwarded as they are.                    *)
(***************************************************************************)
EXTENDS Naturals

CONSTANTS
  Handlers,    \* the requests being handled
  Requests,    \* the requests that may arrive
  Agents,      \* the ids under which cards are cached
  Cards,       \* what a card's url may serve; cards of one hash are the same
  MaxChanges,  \* bound on the changes of served cards
  NoCard, NoRequest

\* A request: is it a task with a JSON body, the id its card is cached under (the
\* target's agent_id, or the target_agent_id), the agent its handoff names (the
\* target_agent_id alone), the id of its handoff, and the url of its card
\* (resolve_agent_card_url).  Ids that are missing have a default.
ASSUME RequestsAssumption ==
  \A r \in Requests : /\ DOMAIN r = {"isTask", "agent", "target", "node", "url"}
                      /\ r.isTask \in BOOLEAN /\ r.agent \in Agents
ASSUME NoneAssumption == NoCard \notin Cards
ASSUME BoundAssumption == MaxChanges \in Nat

Urls == {r.url : r \in Requests}

VARIABLES
  served,     \* what each card url serves now
  changes,    \* how often that has changed
  cardCache,  \* AgentCardCache: the card last seen of each agent, as its hash
  request, pc, card, verdict, \* of each handler
  graph,      \* the handoffs the graph service has stored, by workflow and task
  graphFailed,\* the handlers whose handoff the graph service refused
  upstream    \* the handlers whose request the upstream has got

vars == <<served, changes, cardCache, request, pc, card, verdict, graph, graphFailed, upstream>>

Init ==
  /\ served \in [Urls -> Cards] /\ changes = 0
  /\ cardCache = [a \in Agents |-> NoCard]
  /\ request = [h \in Handlers |-> NoRequest]
  /\ pc = [h \in Handlers |-> "idle"]
  /\ card = [h \in Handlers |-> NoCard]
  /\ verdict = [h \in Handlers |-> "none"]
  /\ graph = {} /\ graphFailed = {} /\ upstream = {}

\* The owner of an agent replaces its card.
ChangeCard(url) ==
  /\ changes < MaxChanges
  /\ \E c \in Cards \ {served[url]} : served' = [served EXCEPT ![url] = c]
  /\ changes' = changes + 1
  /\ UNCHANGED <<cardCache, request, pc, card, verdict, graph, graphFailed, upstream>>

-----------------------------------------------------------------------------
(* proxy_a2a                                                               *)

\* is_task_send; a body that is no JSON is forwarded unseen as well.
Receive(h) ==
  /\ pc[h] = "idle"
  /\ \E r \in Requests :
       /\ request' = [request EXCEPT ![h] = r]
       /\ pc' = [pc EXCEPT ![h] = IF r.isTask THEN "card" ELSE "forward"]
  /\ UNCHANGED <<served, changes, cardCache, card, verdict, graph, graphFailed, upstream>>

\* The card's server answers, or the request fails: then there is no check.
FetchCard(h) ==
  /\ pc[h] = "card"
  /\ \/ /\ card' = [card EXCEPT ![h] = served[request[h].url]]
        /\ pc' = [pc EXCEPT ![h] = "update"]
     \/ /\ pc' = [pc EXCEPT ![h] = "enforce"]
        /\ UNCHANGED card
  /\ UNCHANGED <<served, changes, cardCache, request, verdict, graph, graphFailed, upstream>>

\* Mutant: a new card is only remembered.
ChangedNever(old, new) == FALSE

\* AgentCardCache::update: whether the card differs from the one last seen.
Changed(old, new) == old # NoCard /\ old # new

\* Mutant: a changed card is fetched again.
UpdateCardRetrying(h) ==
  LET agent == request[h].agent
  IN /\ pc[h] = "update"
     /\ cardCache' = [cardCache EXCEPT ![agent] = card[h]]
     /\ pc' = [pc EXCEPT ![h] = IF Changed(cardCache[agent], card[h]) THEN "card" ELSE "enforce"]
     /\ UNCHANGED <<served, changes, request, card, verdict, graph, graphFailed, upstream>>

\* The update is done under the lock; the card may have been fetched long before.
UpdateCard(h) ==
  LET agent == request[h].agent
  IN /\ pc[h] = "update"
     /\ cardCache' = [cardCache EXCEPT ![agent] = card[h]]
     /\ pc' = [pc EXCEPT ![h] = IF Changed(cardCache[agent], card[h]) THEN "refused"
                                ELSE "enforce"]
     /\ UNCHANGED <<served, changes, request, card, verdict, graph, graphFailed, upstream>>

\* evaluate_tool_call, see Enforcement: any verdict.
Enforce(h) ==
  /\ pc[h] = "enforce"
  /\ \E v \in {"Allow", "Block", "Queue", "Err"} :
       /\ verdict' = [verdict EXCEPT ![h] = v]
       /\ pc' = [pc EXCEPT ![h] = IF v = "Allow" THEN "handoff" ELSE "refused"]
  /\ UNCHANGED <<served, changes, cardCache, request, card, graph, graphFailed, upstream>>

\* Mutant: the handoff is recorded by the side, the request goes on at once.
InsertHandoffLater(h) ==
  /\ pc[h] = "handoff"
  /\ pc' = [pc EXCEPT ![h] = "forward"]
  /\ UNCHANGED <<served, changes, cardCache, request, card, verdict, graph, graphFailed, upstream>>

Handoff(r) == [node |-> r.node, target |-> r.target]

\* The graph service keeps the first node of an id.
WithNode(handoff) ==
  IF \E g \in graph : g.node = handoff.node THEN graph ELSE graph \cup {handoff}

\* insert_handoff.  An error is ignored, and does not tell whether the node is stored.
InsertHandoff(h) ==
  LET handoff == Handoff(request[h])
  IN /\ pc[h] = "handoff"
     /\ pc' = [pc EXCEPT ![h] = "forward"]
     /\ \/ /\ graph' = WithNode(handoff) /\ UNCHANGED graphFailed
        \/ /\ graph' \in {graph, WithNode(handoff)}
           /\ graphFailed' = graphFailed \cup {h}
     /\ UNCHANGED <<served, changes, cardCache, request, card, verdict, upstream>>

\* forward_request: the upstream gets the request, or cannot be reached.
Forward(h) ==
  /\ pc[h] = "forward"
  /\ \/ upstream' = upstream \cup {h} /\ pc' = [pc EXCEPT ![h] = "await"]
     \/ pc' = [pc EXCEPT ![h] = "bad gateway"] /\ UNCHANGED upstream
  /\ UNCHANGED <<served, changes, cardCache, request, card, verdict, graph, graphFailed>>

\* The upstream answers (for the rest see ResponseStream), or the connection breaks.
Answer(h) ==
  /\ pc[h] = "await"
  /\ \E end \in {"answered", "bad gateway"} : pc' = [pc EXCEPT ![h] = end]
  /\ UNCHANGED <<served, changes, cardCache, request, card, verdict, graph, graphFailed, upstream>>

\* The client goes away before it is answered: the handler is dropped where it waits,
\* which may be for the text of its card.
Cancel(h) ==
  /\ pc[h] \in {"card", "update", "enforce", "handoff", "forward", "await"}
  /\ pc' = [pc EXCEPT ![h] = "dropped"]
  /\ card' = [card EXCEPT ![h] = IF pc[h] = "update" THEN NoCard ELSE @]
  /\ UNCHANGED <<served, changes, cardCache, request, verdict, graph, graphFailed, upstream>>

Next ==
  \/ \E url \in Urls : ChangeCard(url)
  \/ \E h \in Handlers :
       \/ Receive(h) \/ FetchCard(h) \/ UpdateCard(h) \/ Enforce(h) \/ InsertHandoff(h)
       \/ Forward(h) \/ Answer(h) \/ Cancel(h)

Spec == Init /\ [][Next]_vars

-----------------------------------------------------------------------------
(* What the front end guarantees                                           *)

\* The shape of the state, and what a handler knows at each step: it has a request
\* once it runs, a card only after fetching one, a verdict only after judging.
Shape ==
  /\ served \in [Urls -> Cards] /\ changes \in 0..MaxChanges
  /\ cardCache \in [Agents -> Cards \cup {NoCard}]
  /\ request \in [Handlers -> Requests \cup {NoRequest}]
  /\ pc \in [Handlers -> {"idle", "card", "update", "enforce", "handoff", "forward", "await",
                          "answered", "refused", "bad gateway", "dropped"}]
  /\ card \in [Handlers -> Cards \cup {NoCard}]
  /\ verdict \in [Handlers -> {"none", "Allow", "Block", "Queue", "Err"}]
  /\ graphFailed \subseteq Handlers /\ upstream \subseteq Handlers

Knows(h) ==
  /\ pc[h] # "idle" => request[h] \in Requests
  /\ pc[h] \in {"idle", "card"} => card[h] = NoCard
  /\ pc[h] = "update" => card[h] # NoCard
  /\ pc[h] \in {"idle", "card", "update", "enforce"} => verdict[h] = "none"

TypeOK == Shape /\ \A h \in Handlers : Knows(h)

RefusedForCard(h) == pc[h] = "refused" /\ verdict[h] = "none"

\* The handlers that compared a card and went on.
Passed == {h \in Handlers : card[h] # NoCard /\ pc[h] # "update" /\ ~RefusedForCard(h)}

\* Between two requests of one agent that passed with different cards, some
\* request was refused for its card, in whatever order the cards arrived (update
\* compares and replaces under one lock).
ChangeNoticed ==
  \A h, i \in Passed :
    request[h].agent = request[i].agent /\ card[h] # card[i]
      => \E j \in Handlers : RefusedForCard(j) /\ request[j].agent = request[h].agent

\* A task that the upstream got was allowed, and its handoff is in the graph
\* unless the graph service failed on it; and the graph has no handoff of a task
\* that was not allowed.
ForwardedRecorded ==
  /\ \A h \in upstream : request[h].isTask =>
       /\ verdict[h] = "Allow"
       /\ h \in graphFailed \/ \E g \in graph : g.node = request[h].node
  /\ \A g \in graph : \E h \in Handlers : verdict[h] = "Allow" /\ g = Handoff(request[h])
=============================================================================
