---------------------------- MODULE FeishuAccess ----------------------------
(* Who may speak to a Feishu Channel: access/gate.ts and access/index.ts,    *)
(* the pairing branch of inbound/pipeline.ts and the pairing click of        *)
(* session/card-actions.ts in packages/channel/feishu-channel/src.           *)
(*                                                                          *)
(* Each change of access.json is one turn of its store's queue: the mutator  *)
(* reads what was committed last.  A message that asks for pairing is gated  *)
(* in one turn, sends its card while others are gated and approved, and is   *)
(* recorded in a later turn.                                                *)
EXTENDS Naturals, FiniteSets

CONSTANTS
  Senders,
  Tokens,      \* bound: tokens minted
  Messages,    \* bound: messages of people and bots
  MaxPending,  \* MAX_PENDING
  NoToken

AccessAssumption == MaxPending \in Nat

VARIABLES
  policy,   \* what the operator wrote: dm, group, trusted (the chat), mention
  allowed,  \* allow_users
  pending,  \* token -> [sender, card, live]: card is the token its prompt shows
  used,     \* tokens minted
  cards,    \* tokens of the approval cards on screen
  msg,      \* where each message stands
  approved  \* senders whose own card the App Owner has clicked

vars == <<policy, allowed, pending, used, cards, msg, approved>>

DmPolicies == {"all", "allowlist", "pairing", "disabled"}
GroupPolicies == {"block", "allowlist", "follow-user"}

\* classifyInbound has dropped what is neither a person nor a bot.
Inbound == [chat : {"p2p", "group"}, sender : Senders, bot : BOOLEAN, trustedBot : BOOLEAN,
            mentioned : BOOLEAN]

NoMsg == [stage |-> "none"]

Init ==
  /\ policy \in [dm : DmPolicies, group : GroupPolicies, trusted : BOOLEAN, mention : BOOLEAN]
  /\ \E who \in SUBSET Senders : allowed = who /\ approved = who
  /\ pending = [t \in {} |-> 0] /\ used = {} /\ cards = {}
  /\ msg = [m \in Messages |-> NoMsg]
----------------------------------------
(* dreamuxFeishuGate.                                                       *)
LiveOf(p) == {t \in DOMAIN p : p[t].live}
Pruned(p) == [t \in LiveOf(p) |-> p[t]]
EntriesOf(p, s) == {t \in LiveOf(p) : p[t].sender = s}

\* The sender's part of the policy, in both kinds of chat.
SenderGate(in) ==
  CASE policy.dm = "disabled" -> "drop"
    [] policy.dm = "all" -> "deliver"
    [] policy.dm \in {"allowlist", "pairing"} /\ in.sender \in allowed -> "deliver"
    [] policy.dm = "allowlist" /\ in.sender \notin allowed -> "drop"
    [] policy.dm = "pairing" /\ in.sender \notin allowed ->
         IF in.chat = "group" /\ ~in.mentioned THEN "drop" ELSE "pair"

GroupGate(in) ==
  CASE in.bot -> IF in.trustedBot /\ in.mentioned THEN "deliver" ELSE "drop"
    [] ~in.bot /\ policy.mention /\ ~in.mentioned -> "drop"
    [] ~in.bot /\ ~(policy.mention /\ ~in.mentioned) ->
         CASE policy.group = "block" -> "drop"
           [] policy.group # "block" /\ policy.trusted -> "deliver"
           [] policy.group = "allowlist" /\ ~policy.trusted -> "drop"
           [] policy.group = "follow-user" /\ ~policy.trusted -> SenderGate(in)

Gate(in) ==
  IF in.chat = "p2p" THEN IF in.bot THEN "drop" ELSE SenderGate(in) ELSE GroupGate(in)
----------------------------------------
\* One message is gated.  dmPairPath: the entry the sender has, or a new token
\* while there is a slot; neither is committed here, only what has expired goes.
GateMessage(m) ==
  /\ msg[m] = NoMsg
  /\ \E in \in Inbound :
       LET own == EntriesOf(pending, in.sender) IN
       CASE Gate(in) # "pair" ->
              /\ msg' = [msg EXCEPT ![m] = [stage |-> Gate(in), sender |-> in.sender]]
              /\ pending' = Pruned(pending) /\ UNCHANGED used
         [] Gate(in) = "pair" /\ own # {} ->
              /\ \E t \in own :
                   msg' = [msg EXCEPT ![m] =
                     [stage |-> IF pending[t].card # NoToken THEN "referring" ELSE "sending",
                      sender |-> in.sender, token |-> t, resend |-> TRUE]]
              /\ UNCHANGED <<pending, used>>
         [] Gate(in) = "pair" /\ own = {} /\ Cardinality(LiveOf(pending)) >= MaxPending ->
              /\ msg' = [msg EXCEPT ![m] = [stage |-> "drop", sender |-> in.sender]]
              /\ pending' = Pruned(pending) /\ UNCHANGED used
         [] Gate(in) = "pair" /\ own = {} /\ Cardinality(LiveOf(pending)) < MaxPending ->
              /\ \E t \in Tokens \ used :
                   /\ msg' = [msg EXCEPT ![m] = [stage |-> "sending", sender |-> in.sender,
                                                 token |-> t, resend |-> FALSE]]
                   /\ used' = used \union {t}
              /\ UNCHANGED pending
  /\ UNCHANGED <<policy, allowed, cards, approved>>

\* The card is on screen; its message may have no id that Feishu told.
CardSent(m) ==
  /\ msg[m].stage = "sending"
  /\ cards' = cards \union {msg[m].token}
  /\ \E told \in BOOLEAN :
       msg' = [msg EXCEPT ![m] = [stage |-> "recording", sender |-> @.sender,
                                  token |-> @.token, resend |-> @.resend, told |-> told]]
  /\ UNCHANGED <<policy, allowed, pending, used, approved>>

ReferenceSent(m) ==
  /\ msg[m].stage = "referring" /\ msg' = [msg EXCEPT ![m].stage = "refreshing"]
  /\ UNCHANGED <<policy, allowed, pending, used, cards, approved>>

\* A send that fails, and a write that fails, leave everything as it was.
Fails(m) ==
  /\ msg[m].stage \in {"sending", "referring", "recording", "refreshing"}
  /\ msg' = [msg EXCEPT ![m] = [stage |-> "drop", sender |-> @.sender]]
  /\ UNCHANGED <<policy, allowed, pending, used, cards, approved>>

Done(m) == msg' = [msg EXCEPT ![m] = [stage |-> "asked", sender |-> @.sender]]

With(p, t, entry) == [u \in DOMAIN p \union {t} |-> IF u = t THEN entry ELSE p[u]]

\* refreshPairing: the entry may be gone, and is not made again.
RefreshPairing(m) ==
  /\ msg[m].stage = "refreshing" /\ Done(m)
  /\ pending' = IF msg[m].token \in DOMAIN pending
                THEN [pending EXCEPT ![msg[m].token].live = TRUE] ELSE pending
  /\ UNCHANGED <<policy, allowed, used, cards, approved>>

\* Mutant: the prompt is recorded as it was gated.
RecordPairingAsGated(m) ==
  /\ msg[m].stage = "recording" /\ Done(m)
  /\ pending' = With(Pruned(pending), msg[m].token,
                     [sender |-> msg[m].sender,
                      card |-> IF msg[m].told THEN msg[m].token ELSE NoToken, live |-> TRUE])
  /\ UNCHANGED <<policy, allowed, used, cards, approved>>

\* recordPairingPrompt: into the latest state, with any concurrent approval.
RecordPairingPrompt(m) ==
  /\ msg[m].stage = "recording" /\ Done(m)
  /\ LET kept == Pruned(pending)
         shown == IF msg[m].told THEN msg[m].token ELSE NoToken
         own == EntriesOf(pending, msg[m].sender)
     IN CASE msg[m].sender \in allowed -> UNCHANGED pending
          [] msg[m].sender \notin allowed /\ own # {} ->
               IF ~msg[m].resend THEN pending' = kept
               ELSE \E t \in own : pending' =
                      [kept EXCEPT ![t].card = IF @ = NoToken THEN shown ELSE @]
          [] msg[m].sender \notin allowed /\ own = {} ->
               pending' = With(kept, msg[m].token,
                               [sender |-> msg[m].sender, card |-> shown, live |-> TRUE])
  /\ UNCHANGED <<policy, allowed, used, cards, approved>>

\* PAIRING_TTL_MS has passed.
Expires(t) ==
  /\ t \in LiveOf(pending) /\ pending' = [pending EXCEPT ![t].live = FALSE]
  /\ UNCHANGED <<policy, allowed, used, cards, msg, approved>>

\* The App Owner clicks a card: approvePairingByToken, once per entry.
Approve(t) ==
  /\ t \in cards
  /\ t \in LiveOf(pending)
  /\ allowed' = allowed \union {pending[t].sender}
  /\ approved' = approved \union {pending[t].sender}
  /\ pending' = [u \in DOMAIN pending \ {t} |-> pending[u]]
  /\ UNCHANGED <<policy, used, cards, msg>>

Next ==
  \/ \E m \in Messages :
       \/ GateMessage(m) \/ CardSent(m) \/ ReferenceSent(m) \/ Fails(m)
       \/ RefreshPairing(m) \/ RecordPairingPrompt(m)
  \/ \E t \in Tokens : Expires(t) \/ Approve(t)

Spec == Init /\ [][Next]_vars
----------------------------------------
\* Types; and an entry is kept under the token of a prompt of its sender.
TypeOK ==
  /\ policy \in [dm : DmPolicies, group : GroupPolicies, trusted : BOOLEAN, mention : BOOLEAN]
  /\ allowed \subseteq Senders /\ approved \subseteq Senders
  /\ used \subseteq Tokens /\ cards \subseteq used /\ DOMAIN pending \subseteq cards
  /\ \A t \in DOMAIN pending :
       /\ pending[t].sender \in Senders /\ pending[t].live \in BOOLEAN
       /\ pending[t].card \in cards \union {NoToken}
  /\ DOMAIN msg = Messages
  /\ \A m \in Messages : msg[m].stage \in {"none", "deliver", "drop", "sending", "referring",
                                           "recording", "refreshing", "asked"}

(* The pairing state is one story about each sender: those allowed are the   *)
(* ones that were there or were approved, however messages and clicks        *)
(* interleave; one who is allowed has nothing pending that could be          *)
(* approved, and nobody has two entries that could.                          *)
OneStoryPerSender ==
  /\ allowed = approved
  /\ \A s \in Senders :
       /\ Cardinality(EntriesOf(pending, s)) <= 1
       /\ s \in allowed => EntriesOf(pending, s) = {}
========================================
