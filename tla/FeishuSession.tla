---------------------------- MODULE FeishuSession ----------------------------
(* One session of a Feishu Channel, and the questions it has asked:          *)
(* session/session.ts, session/lifecycle.ts, session/card-actions.ts,        *)
(* ask-user/registry.ts, feishu-extensions.ts and tools/session-mcp.ts of    *)
(* packages/channel/feishu-channel/src, over the transport's connection.     *)
(*                                                                          *)
(* What runs on behalf of Feishu or of an agent is tracked; the end of the   *)
(* session refuses new work and waits for what is tracked before it lets go  *)
(* of what that work uses.  initialize, start and close overlap.             *)
EXTENDS Naturals

CONSTANTS
  Rounds,   \* questions asked
  Clicks    \* bound: clicks on their cards

VARIABLES
  live,     \* FeishuLifecycle: not aborted
  init,     \* initialize(): "none", "loading", "extensions", "ending", "done", "failed"
  starter,  \* start(): "none", "identity", "connecting", "extensions", "ending", "done", "failed"
  closer,   \* close(): "none", "ending", "bot", "closed"
  td,       \* where each caller's teardown stands
  cards,    \* the COT adapter: "open", "draining", "drained"
  ws,       \* the connection: "none", "opening", "up", "down"
  ext,      \* the extensions of the session: "none", "ready", "started", "closed"
  ask,      \* ask_user_question: "none", "sending", "landed", "ended"
  click,    \* a click on a card: [stage, round, kind]
  round,    \* "none", "open", "settled", "abandoned"
  answered, \* rounds with an answer chosen
  timer,    \* rounds whose expiry is armed
  outcome,  \* what each round was settled with, in order
  delivery  \* the settlement on its way to Core: "none", "pending", "sent", "dropped"

vars == <<live, init, starter, closer, td, cards, ws, ext, ask, click, round, answered,
          timer, outcome, delivery>>
boot == <<init, starter, closer>>
asking == <<ask, click, round, answered, timer, outcome, delivery>>

Callers == {"init", "start", "close"}
Kinds == {"pick", "clear", "submit", "cancel"}

Init ==
  /\ live = TRUE /\ init = "none" /\ starter = "none" /\ closer = "none"
  /\ td = [c \in Callers |-> "none"]
  /\ cards = "open" /\ ws = "none" /\ ext = "none"
  /\ ask = [r \in Rounds |-> "none"]
  /\ click = [k \in Clicks |-> [stage |-> "none"]]
  /\ round = [r \in Rounds |-> "none"]
  /\ answered = {} /\ timer = {}
  /\ outcome = [r \in Rounds |-> {}]
  /\ delivery = [r \in Rounds |-> "none"]
----------------------------------------
(* The end of the session, shared by the three callers.                      *)

\* abort, unsubscribe, abandonAll; the cards are closed by the first to come.
BeginTeardown(c) ==
  /\ live' = FALSE
  /\ round' = [r \in Rounds |-> IF round[r] = "open" THEN "abandoned" ELSE round[r]]
  /\ timer' = {}
  /\ td' = [td EXCEPT ![c] = IF cards = "open" THEN "cards" ELSE "drain"]
  /\ cards' = IF cards = "open" THEN "draining" ELSE cards
  /\ UNCHANGED <<ask, click, answered, outcome, delivery>>

\* Nothing to tear down: initialize never ran.
AbortOnly ==
  /\ live' = FALSE /\ cards' = "drained" /\ UNCHANGED <<td, asking>>

CardsDrained(c) ==
  /\ td[c] = "cards" /\ cards' = "drained" /\ td' = [td EXCEPT ![c] = "drain"]
  /\ UNCHANGED <<live, boot, ws, ext, asking>>

Tracked ==
  {r \in Rounds : ask[r] \in {"sending", "landed"}} \union
  {k \in Clicks : click[k].stage = "checking"}

Drained(c) ==
  /\ td[c] = "drain" /\ Tracked = {} /\ starter # "extensions"
  /\ td' = [td EXCEPT ![c] = "extensions"]
  /\ UNCHANGED <<live, boot, cards, ws, ext, asking>>

ExtensionsClosed(c) ==
  /\ td[c] = "extensions" /\ td' = [td EXCEPT ![c] = "end"]
  /\ ext' = IF ext = "none" THEN ext ELSE "closed"
  /\ UNCHANGED <<live, boot, cards, ws, asking>>

\* bot.close: there is nothing to close before the connection is opened.
Down == ws' = IF ws = "none" THEN ws ELSE "down"
----------------------------------------
(* initialize.                                                              *)
Initialize ==
  /\ init = "none" /\ init' = "loading"
  /\ UNCHANGED <<live, starter, closer, td, cards, ws, ext, asking>>

\* The routing document is read and the events of Core are followed, or not.
Loaded ==
  /\ init = "loading" /\ init' \in {"extensions", "failed"}
  /\ UNCHANGED <<live, starter, closer, td, cards, ws, ext, asking>>

ExtensionsReady ==
  /\ init = "extensions" /\ init' = "done" /\ ext' = "ready"
  /\ UNCHANGED <<live, starter, closer, td, cards, ws, asking>>

\* One throws: those before it are there to be closed.
ExtensionsFail ==
  /\ init = "extensions" /\ init' = "ending" /\ ext' \in {ext, "ready"}
  /\ BeginTeardown("init")
  /\ UNCHANGED <<starter, closer, ws>>

InitFailed ==
  /\ init = "ending" /\ td["init"] = "end" /\ init' = "failed"
  /\ UNCHANGED <<live, starter, closer, td, cards, ws, ext, asking>>
----------------------------------------
(* start.                                                                   *)
Start ==
  /\ init = "done" /\ starter = "none"
  /\ starter' = IF live THEN "identity" ELSE "failed"
  /\ UNCHANGED <<live, init, closer, td, cards, ws, ext, asking>>

\* The transport knows itself, or not, and opens its connection all the same.
Connecting ==
  /\ starter = "identity" /\ starter' = "connecting" /\ ws' = "opening"
  /\ UNCHANGED <<live, init, closer, td, cards, ext, asking>>

\* Up within its grace: the session goes on if it is still live.
Connected ==
  /\ starter = "connecting" /\ ws \in {"opening", "up"}
  /\ IF live THEN starter' = "extensions" /\ ws' = "up" /\ UNCHANGED <<live, td, cards, asking>>
     ELSE starter' = "ending" /\ Down /\ BeginTeardown("start")
  /\ UNCHANGED <<init, closer, ext>>

ConnectFails ==
  /\ starter = "connecting" /\ starter' = "ending" /\ ws' = "down"
  /\ BeginTeardown("start")
  /\ UNCHANGED <<init, closer, ext>>

\* The extensions have started; a close may have come meanwhile.
Started ==
  /\ starter = "extensions"
  /\ \/ /\ live /\ starter' = "done" /\ ext' = "started"
        /\ UNCHANGED <<live, td, cards, ws, asking>>
     \/ /\ ~live /\ starter' = "ending" /\ ext' = "started"
        /\ Down /\ BeginTeardown("start")
     \/ /\ starter' = "ending" /\ ext' \in {ext, "started"}
        /\ UNCHANGED ws /\ BeginTeardown("start")
  /\ UNCHANGED <<init, closer>>

StartFailed ==
  /\ starter = "ending" /\ td["start"] = "end" /\ starter' = "failed"
  /\ UNCHANGED <<live, init, closer, td, cards, ws, ext, asking>>
----------------------------------------
(* close.                                                                   *)
Close ==
  /\ closer = "none"
  /\ IF init = "none" THEN closer' = "bot" /\ AbortOnly
     ELSE closer' = "ending" /\ BeginTeardown("close")
  /\ UNCHANGED <<init, starter, ws, ext>>

ClosesBot ==
  /\ \/ closer = "bot"
     \/ closer = "ending" /\ td["close"] = "end"
  /\ closer' = "closed" /\ Down
  /\ UNCHANGED <<live, init, starter, td, cards, ext, asking>>
----------------------------------------
(* Questions: asked by a tool call, answered by clicks or not at all.        *)
AskUserQuestion(r) ==
  /\ live /\ init = "done" /\ ask[r] = "none"
  /\ ask' = [ask EXCEPT ![r] = "sending"]
  /\ UNCHANGED <<live, boot, td, cards, ws, ext, click, round, answered, timer, outcome, delivery>>

\* The card is on screen before the call that sent it knows; or it is not sent.
CardSent(r) ==
  /\ ask[r] = "sending" /\ ask' = [ask EXCEPT ![r] = "landed"]
  /\ UNCHANGED <<live, boot, td, cards, ws, ext, click, round, answered, timer, outcome, delivery>>

CardFails(r) ==
  /\ ask[r] = "sending" /\ ask' = [ask EXCEPT ![r] = "ended"]
  /\ UNCHANGED <<live, boot, td, cards, ws, ext, click, round, answered, timer, outcome, delivery>>

\* Mutant: the session is not looked at again once the card has landed.
ActivateAnyway(r) ==
  /\ ask[r] = "landed" /\ ask' = [ask EXCEPT ![r] = "ended"]
  /\ round' = [round EXCEPT ![r] = "open"] /\ timer' = timer \union {r}
  /\ UNCHANGED <<live, boot, td, cards, ws, ext, click, answered, outcome, delivery>>

\* activate, unless the session ended while the card was sent.
Activate(r) ==
  /\ ask[r] = "landed" /\ ask' = [ask EXCEPT ![r] = "ended"]
  /\ IF live THEN round' = [round EXCEPT ![r] = "open"] /\ timer' = timer \union {r}
     ELSE UNCHANGED <<round, timer>>
  /\ UNCHANGED <<live, boot, td, cards, ws, ext, click, answered, outcome, delivery>>

ClickArrives(k) ==
  /\ live /\ ws = "up" /\ click[k].stage = "none"
  /\ \E r \in Rounds, kind \in Kinds :
       /\ (ask[r] = "landed" \/ round[r] # "none")
       /\ click' = [click EXCEPT ![k] = [stage |-> "checking", round |-> r, kind |-> kind]]
  /\ UNCHANGED <<live, boot, td, cards, ws, ext, ask, round, answered, timer, outcome, delivery>>

\* Mutant: a settled round keeps its timer and is not taken out of play.
CloseRoundOpen(r, how) ==
  /\ outcome' = [outcome EXCEPT ![r] = @ \union {how}]
  /\ delivery' = [delivery EXCEPT ![r] = "pending"]
  /\ UNCHANGED <<round, timer>>

\* closeRound: out of play, the timer cleared, one settlement for Core.
CloseRound(r, how) ==
  /\ round' = [round EXCEPT ![r] = "settled"] /\ timer' = timer \ {r}
  /\ outcome' = [outcome EXCEPT ![r] = @ \union {how}]
  /\ delivery' = [delivery EXCEPT ![r] = "pending"]

\* apply, once the gate has let the click through.
Apply(r, kind) ==
  CASE kind = "pick" -> answered' = answered \union {r} /\ UNCHANGED <<round, timer, outcome, delivery>>
    [] kind = "clear" -> answered' = answered \ {r} /\ UNCHANGED <<round, timer, outcome, delivery>>
    [] kind = "submit" ->
         IF r \in answered THEN CloseRound(r, "submitted") /\ UNCHANGED answered
         ELSE UNCHANGED <<answered, round, timer, outcome, delivery>>
    [] kind = "cancel" -> CloseRound(r, "cancelled") /\ UNCHANGED answered

ClickHandled(k) ==
  /\ click[k].stage = "checking" /\ click' = [click EXCEPT ![k] = [stage |-> "ended"]]
  /\ \E admitted \in BOOLEAN :
       IF admitted /\ round[click[k].round] = "open"
       THEN Apply(click[k].round, click[k].kind)
       ELSE UNCHANGED <<answered, round, timer, outcome, delivery>>
  /\ UNCHANGED <<live, boot, td, cards, ws, ext, ask>>

Expire(r) ==
  /\ r \in timer
  /\ IF round[r] = "open" THEN CloseRound(r, "expired")
     ELSE timer' = timer \ {r} /\ UNCHANGED <<round, outcome, delivery>>
  /\ UNCHANGED <<live, boot, td, cards, ws, ext, ask, click, answered>>

\* Detached: nothing waits for it, and a session that ended submits nothing.
DeliverSettlement(r) ==
  /\ delivery[r] = "pending"
  /\ delivery' = [delivery EXCEPT ![r] = IF live THEN "sent" ELSE "dropped"]
  /\ UNCHANGED <<live, boot, td, cards, ws, ext, ask, click, round, answered, timer, outcome>>

DeliveryFails(r) ==
  /\ delivery[r] = "pending" /\ delivery' = [delivery EXCEPT ![r] = "dropped"]
  /\ UNCHANGED <<live, boot, td, cards, ws, ext, ask, click, round, answered, timer, outcome>>
----------------------------------------
Booting ==
  \/ Loaded \/ ExtensionsReady \/ ExtensionsFail \/ InitFailed
  \/ Connecting \/ Connected \/ ConnectFails \/ Started \/ StartFailed
Ending ==
  \/ \E c \in Callers : CardsDrained(c) \/ Drained(c) \/ ExtensionsClosed(c)
  \/ ClosesBot
Question(r) ==
  CardSent(r) \/ CardFails(r) \/ Activate(r) \/ Expire(r) \/ DeliverSettlement(r)
  \/ DeliveryFails(r)

Next ==
  \/ Initialize \/ Start \/ Close \/ Booting \/ Ending
  \/ \E r \in Rounds : AskUserQuestion(r) \/ Question(r)
  \/ \E k \in Clicks : ClickArrives(k) \/ ClickHandled(k)

Spec == Init /\ [][Next]_vars

\* Calls to Feishu and the steps of extensions end, and timers fire.
Fairness ==
  /\ WF_vars(Booting) /\ WF_vars(Ending)
  /\ \A r \in Rounds : WF_vars(Question(r))
  /\ \A k \in Clicks : WF_vars(ClickHandled(k))
FairSpec == Spec /\ Fairness
----------------------------------------
\* Types; and a timer is armed for a round that was opened.
TypeOK ==
  /\ live \in BOOLEAN
  /\ init \in {"none", "loading", "extensions", "ending", "done", "failed"}
  /\ starter \in {"none", "identity", "connecting", "extensions", "ending", "done", "failed"}
  /\ closer \in {"none", "ending", "bot", "closed"}
  /\ td \in [Callers -> {"none", "cards", "drain", "extensions", "end"}]
  /\ cards \in {"open", "draining", "drained"} /\ ws \in {"none", "opening", "up", "down"}
  /\ ext \in {"none", "ready", "started", "closed"}
  /\ ask \in [Rounds -> {"none", "sending", "landed", "ended"}]
  /\ DOMAIN click = Clicks
  /\ round \in [Rounds -> {"none", "open", "settled", "abandoned"}]
  /\ answered \subseteq Rounds /\ timer \subseteq Rounds
  /\ outcome \in [Rounds -> SUBSET {"submitted", "cancelled", "expired"}]
  /\ delivery \in [Rounds -> {"none", "pending", "sent", "dropped"}]
  /\ \A r \in timer : round[r] # "none"

(* A question is settled once, by the click or the timer that came first:    *)
(* and as submitted only if something was chosen when it was.               *)
SettledOnce ==
  \A r \in Rounds :
    /\ \A a, b \in outcome[r] : a = b
    /\ "submitted" \in outcome[r] => r \in answered
    /\ (round[r] = "settled") <=> (outcome[r] # {})

(* A session that is over has no question in play: no click finds a round,   *)
(* and no timer will report one to a model a day later.                      *)
EndedSessionAsksNothing == ~live => timer = {} /\ \A r \in Rounds : round[r] # "open"

(* When close has returned nothing tracked is under way, the extensions are  *)
(* closed and stay so, and once start has returned as well the connection is *)
(* down: whichever of initialize, start and close came first.  Extensions    *)
(* whose initialize a close overtook are the exception the code leaves.      *)
ClosedSessionIsQuiet ==
  closer = "closed" =>
    /\ Tracked = {}
    /\ ext # "started"
    /\ starter \notin {"identity", "connecting", "extensions"} => ws \in {"none", "down"}

(* A handler never runs over an extension that was closed.                   *)
ExtensionOutlivesItsCalls == ext = "closed" => Tracked = {}

(* initialize, start and close end, and so does every question.              *)
SessionEnds ==
  /\ (init = "loading") ~> (init \in {"done", "failed"})
  /\ (starter = "identity") ~> (starter \in {"done", "failed"})
  /\ (closer # "none") ~> (closer = "closed")
  /\ \A r \in Rounds : (round[r] = "open") ~> (round[r] \in {"settled", "abandoned"})
========================================
