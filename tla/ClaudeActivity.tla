---------------------------- MODULE ClaudeActivity ---------------------------
(* Reading back what a Claude Code session did: reader.ts, rewrites.ts,      *)
(* parallel-tools.ts, cursor.ts and path.ts of                              *)
(* packages/agent-runtime/claude-code/src/activity.                         *)
(*                                                                          *)
(* The history is one file of entries that name their parents.  A page is   *)
(* made of a window of it: what was snipped is taken out, the branch that    *)
(* ends last is followed up, what ran beside it is put back, and the rest    *)
(* is projected.  The cursor of a page is refused once the history has been  *)
(* rewritten behind it.  An entry is one line and holds one block; its uuid  *)
(* is its number.                                                           *)
EXTENDS Naturals, Sequences, FiniteSets, SequencesExt

CONSTANTS
  MaxLines,    \* bound: lines of the history
  Limit,       \* records the reader asks for
  MaxBytes,    \* MAX_DECODED_BYTES, in lines
  None

ActivityAssumption == Limit \in Nat \ {0} /\ MaxBytes \in Nat \ {0, 1}

VARIABLES
  log,      \* the history: [type, parent, logical, msg, removed]; 0 is no parent
  cursor,   \* what the next page is asked with, or None
  got,      \* records the pages of one reading showed, newest first
  since,    \* the records there were at its first page
  outcome   \* "none", "reading", "done", "truncated", or why a page was refused

vars == <<log, cursor, got, since, outcome>>

Types == {"user", "text", "use", "result", "attachment", "compact", "snip", "sidechain"}
----------------------------------------
(* The kinds of entry.                                                       *)
IsParticipant(i) == log[i].type \in {"user", "text", "use", "result", "compact"}
IsEligibleAssistant(i) == log[i].type \in {"text", "use"}
IsRewrite(i) == log[i].type \in {"compact", "snip"}

\* The entries that fit in front of `end`: a window that does not begin with the
\* file begins inside a line, which is dropped.
WindowStart(end) == IF end > MaxBytes THEN end - MaxBytes ELSE 0
Entries(end) ==
  (IF WindowStart(end) = 0 THEN 1 ELSE WindowStart(end) + 2)..end

\* Snipped entries go, and their children are given their nearest ancestor left.
Removed(entries) == UNION {log[i].removed : i \in entries}

ParentIn(entries) ==
  LET resolve[i \in 0..Len(log)] ==
        IF i \in Removed(entries)
        THEN IF i \in entries THEN resolve[log[i].parent] ELSE 0
        ELSE i
  IN [i \in entries |-> resolve[log[i].parent]]

Kept(entries) == entries \ Removed(entries)

\* The last participant that no participant follows, and its ancestors.
SelectedChain(entries, parent) ==
  LET parents == {parent[i] : i \in {i \in entries : IsParticipant(i)}}
      leaves == {i \in entries : IsParticipant(i) /\ i \notin parents}
      up[i \in 0..Len(log)] ==
        IF i \notin entries THEN <<>>
        ELSE Append(up[IF parent[i] # 0 THEN parent[i] ELSE log[i].logical], i)
  IN IF leaves = {} THEN <<>>
     ELSE up[CHOOSE i \in leaves : \A j \in leaves : j <= i]

\* Tools that ran beside the chain: the other entries of a message on the chain, and
\* the results of all of them, behind the last entry of that message.
RecoverBranches(entries, parent, chain) ==
  LET seen == Range(chain)
      group(m) == {i \in entries : IsEligibleAssistant(i) /\ log[i].msg = m}
      siblings(m) == group(m) \ seen
      results(m) == {i \in entries \ seen : log[i].type = "result" /\ parent[i] \in group(m)}
      anchors == {k \in DOMAIN chain :
                    /\ IsEligibleAssistant(chain[k])
                    /\ \A j \in k + 1..Len(chain) :
                         IsEligibleAssistant(chain[j]) => log[chain[j]].msg # log[chain[k]].msg}
      inTime(S) == SetToSortSeq(S, <)
  IN FlattenSeq([k \in DOMAIN chain |->
       IF k \in anchors
       THEN <<chain[k]>> \o inTime(siblings(log[chain[k]].msg))
                         \o inTime(results(log[chain[k]].msg))
       ELSE <<chain[k]>>])

\* Text and tools of a chain; a result settles the call it is for if it comes behind it.
Project(chain, tools) ==
  LET shown == {"text"} \cup (IF tools THEN {"use"} ELSE {})
      settled(k) == \E j \in k + 1..Len(chain) :
                      log[chain[j]].type = "result" /\ log[chain[j]].msg = chain[k]
      record(k) == [at |-> chain[k],
                    status |-> IF log[chain[k]].type = "use"
                               THEN IF settled(k) THEN "completed" ELSE "started"
                               ELSE None]
  IN [n \in DOMAIN SelectSeq([k \in DOMAIN chain |-> k], LAMBDA k : log[chain[k]].type \in shown) |->
        record(SelectSeq([k \in DOMAIN chain |-> k], LAMBDA k : log[chain[k]].type \in shown)[n])]

Projected(entries, tools) ==
  LET parent == ParentIn(entries)
      kept == Kept(entries)
      chain == SelectedChain(kept, parent)
  IN Project(RecoverBranches(kept, parent, chain), tools)
----------------------------------------
(* Cursors.  An offset is the number of the entry behind it.                 *)
LastRewrite(from, to) ==
  LET rewrites == {i \in from..to : IsRewrite(i)}
  IN IF rewrites = {} THEN 0 ELSE CHOOSE i \in rewrites : \A j \in rewrites : j <= i

FirstEvidence ==
  [watermark |-> Len(log),
   position |-> LastRewrite(IF Len(log) > MaxBytes THEN Len(log) - MaxBytes + 2 ELSE 1, Len(log))]

Rewritten(c) == LastRewrite(c.evidence.watermark + 1, Len(log)) # 0

Mint(evidence, position, tools) == [fp |-> tools, evidence |-> evidence, pos |-> position]

PublicReason(detail) ==
  CASE detail \in {"cursor_query_mismatch", "cursor_stale"} -> "cursor_invalid"
    [] detail = "scan_unsupported" -> "provider_failure"
    [] OTHER -> "session_unavailable"

LastUpTo(s, n) == IF Len(s) <= n THEN s ELSE SubSeq(s, Len(s) - n + 1, Len(s))

Refused(detail) ==
  /\ outcome' = PublicReason(detail)
  /\ UNCHANGED <<log, cursor, got, since>>

\* One page of what lies in front of `end`; `below` is the cursor's position, if any.
Page(end, below, evidence, tools) ==
  LET entries == Entries(end)
      projected == Projected(entries, tools)
      consumed == LastUpTo(projected, Limit)
      bounded == WindowStart(end) > 0
      older == /\ IF consumed = <<>> THEN end > 0 ELSE consumed[1].at > 1
               /\ Len(projected) > Len(consumed) \/ bounded
      oldest == IF entries = {} THEN None ELSE CHOOSE i \in entries : \A j \in entries : i <= j
      boundary == IF consumed # <<>> THEN consumed[1].at ELSE IF older THEN oldest ELSE None
      next == IF older THEN boundary ELSE None
  IN IF boundary # None /\ below # None /\ boundary >= below
     THEN Refused("scan_unsupported")
     ELSE /\ got' = got \o Reverse(consumed)
          /\ cursor' = IF next = None THEN None ELSE Mint(evidence, next, tools)
          /\ outcome' = IF next # None THEN "reading"
                        ELSE IF bounded /\ Len(projected) < Limit THEN "truncated" ELSE "done"
          /\ UNCHANGED log
----------------------------------------
ReadFirst ==
  /\ outcome = "none"
  /\ IF log = <<>> THEN Refused("not_found")
     ELSE \E tools \in BOOLEAN :
            /\ Page(Len(log), None, FirstEvidence, tools)
            /\ since' = Projected(1..Len(log), tools)

ReadNext ==
  /\ outcome = "reading"
  /\ \E tools \in BOOLEAN :
       IF cursor.fp # tools THEN Refused("cursor_query_mismatch")
       ELSE IF Rewritten(cursor) THEN Refused("cursor_stale")
       ELSE /\ Page(cursor.pos - 1, cursor.pos,
                    [cursor.evidence EXCEPT !.watermark = Len(log)], tools)
            /\ UNCHANGED since

ReadAgain ==
  /\ outcome \notin {"none", "reading"}
  /\ cursor' = None /\ got' = <<>> /\ since' = <<>> /\ outcome' = "none"
  /\ UNCHANGED log

(* External: what Claude Code appends.  A prompt may continue from an earlier  *)
(* message: the conversation is rewound.                                     *)
Entry(type, parent) ==
  [type |-> type, parent |-> parent, logical |-> 0, msg |-> 0, removed |-> {}]

MainLine == {i \in DOMAIN log : log[i].type # "sidechain"}
TipBefore(n) ==
  LET before == {i \in MainLine : i < n}
  IN IF before = {} THEN 0 ELSE CHOOSE i \in before : \A j \in before : j <= i
Tip == TipBefore(Len(log) + 1)

MessageOf(i) ==
  IF i # 0 /\ IsEligibleAssistant(i) THEN log[i].msg ELSE Len(log) + 1

Appendable ==
  {Entry("user", p) : p \in {i \in MainLine : IsParticipant(i)} \cup {Tip}}
  \cup {[Entry(type, Tip) EXCEPT !.msg = MessageOf(Tip)] :
          type \in IF Tip = 0 THEN {} ELSE IF log[Tip].type = "use" THEN {"use"} ELSE {"text", "use"}}
  \cup {[Entry("result", i) EXCEPT !.msg = i] :
          i \in {i \in DOMAIN log : /\ log[i].type = "use"
                                    /\ \A j \in DOMAIN log : log[j].type # "result" \/ log[j].msg # i}}
  \cup IF Tip = 0 THEN {}
       ELSE {Entry("attachment", Tip), Entry("sidechain", Tip),
             [Entry("compact", 0) EXCEPT !.logical = Tip]}
            \cup {[Entry("snip", Tip) EXCEPT !.removed = {i}] :
                    i \in {i \in MainLine : /\ log[i].type \in {"user", "text"}
                                          /\ \A j \in i..Tip : log[j].type # "compact"}}

Write ==
  /\ Len(log) < MaxLines
  /\ \E e \in Appendable : log' = Append(log, e)
  /\ UNCHANGED <<cursor, got, since, outcome>>

Init ==
  /\ log = <<>> /\ cursor = None
  /\ got = <<>> /\ since = <<>> /\ outcome = "none"

Next == ReadFirst \/ ReadNext \/ ReadAgain \/ Write

Spec == Init /\ [][Next]_vars
----------------------------------------
TypeOK ==
  /\ \A i \in DOMAIN log : /\ log[i].type \in Types
                           /\ log[i].parent \in 0..i - 1 /\ log[i].logical \in 0..i - 1
  /\ outcome \in {"none", "reading", "done", "truncated", "cursor_invalid",
                  "provider_failure", "session_unavailable"}
  /\ outcome = "reading" => cursor # None

\* A page shows nothing an earlier one showed, and pages go back in time.
PagesGoBack == \A j, k \in DOMAIN got : j < k => got[k].at < got[j].at

\* Tools that ran side by side, which the beginning of a window may part.
Parallel == {i \in DOMAIN log : /\ log[i].type = "use"
                                /\ \E j \in DOMAIN log \ {i} : log[j].type = "use" /\ log[j].msg = log[i].msg}

Rewound == \E i \in DOMAIN log : log[i].type = "user" /\ log[i].parent # TipBefore(i)

\* A reading of a conversation nobody rewound that came to its end showed it as it was when
\* it began: all of it, but for tools that ran side by side when it does not fit a window, and
\* nothing else but what a snip took out that lay behind the cursor ("paginates with a stable
\* cursor as the file keeps growing", claude-code/tests/activity-reader.test.ts:278).
PagesTellTheConversation ==
  outcome = "done" /\ ~Rewound =>
    LET shown == {got[k].at : k \in DOMAIN got}
        there == {since[k].at : k \in DOMAIN since}
    IN /\ there \subseteq shown \cup IF Len(log) > MaxBytes THEN Parallel ELSE {}
       /\ shown \subseteq there \cup Removed(DOMAIN log)
========================================
