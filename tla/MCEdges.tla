------------------------------ MODULE MCEdges ------------------------------
(* The edges of a host, one at a time: since they share no state, a          *)
(* behaviour is one of a single part, the others resting where they began.   *)
EXTENDS Edges, TLC

CONSTANTS s1, s2, s3, t1, m1, m2, a1, a2, b1, k1, k2, u1, n1, x1, w1

VARIABLE part

partVars == <<part, edgeVars>>

\* Both messages come from one topic.
CameFrom == (m1 :> t1) @@ (m2 :> t1)

\* A turn begins and ends, a message is written live and finalized, a tool is called and answers.
Lines ==
  [type : {"started", "complete"}, id : {"turn"}] \cup [type : {"live", "final"}, id : {"message"}]
    \cup [type : {"call", "output"}, id : {"tool"}]

\* Two submissions of one source and one of another.
Sources == (a1 :> k1) @@ (a2 :> k1) @@ (b1 :> k2)

\* A change, one that changes nothing, a removal and a create.
Changes == (u1 :> "update") @@ (n1 :> "noop") @@ (x1 :> "remove") @@ (w1 :> "create")

PartInit ==
  /\ EdgesInit
  /\ part \in {"codex", "codex turns", "claude code", "cards", "routing", "session", "access",
               "processes", "ledger", "store", "codex activity", "claude activity"}
  /\ part # "access" => accPolicy = [dm |-> "all", group |-> "block", trusted |-> FALSE,
                                     mention |-> FALSE] /\ accAllowed = {}
  /\ part # "store" => ~stoDisk.there

\* Bounds: the submissions and the messages of a card in their order; a third submission is
\* made when the first has been decided; a second session only around one submission; the first
\* card is fenced, by its Team or by its route; a second change of the routes only around one message.
Bounded ==
  /\ trnStep'[s3] # "new" => trnStep[s1] = "over"
  /\ trnStep'[s2] # "new" => trnStep'[s1] # "new"
  /\ claMade' = 2 => claStep'[s2] = "new"
  /\ claStep'[s2] # "new" => claStep'[s1] # "new"
  /\ m2 \in crdBegun' => m1 \in crdBegun'
  /\ crdFence'.leader => crdFence'.targets = {}
  /\ crdSt.used > 1 => crdFence' = crdFence
  /\ rouEdits' = 2 => rouStage'[m2] = "none"

PartNext ==
  /\ UNCHANGED part
  /\ \/ part = "codex" /\ CodexSteps
     \/ part = "codex turns" /\ TurnSteps
     \/ part = "claude code" /\ ClaudeSteps
     \/ part = "cards" /\ CardSteps
     \/ part = "routing" /\ RouteSteps
     \/ part = "session" /\ SessionSteps
     \/ part = "access" /\ AccessSteps
     \/ part = "processes" /\ ProcessSteps
     \/ part = "ledger" /\ LedgerSteps
     \/ part = "store" /\ StoreSteps
     \/ part = "codex activity" /\ CodexActivitySteps
     \/ part = "claude activity" /\ ClaudeActivitySteps

PartSpec == PartInit /\ [][PartNext /\ Bounded]_partVars
========================================
