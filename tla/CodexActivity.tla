--------------------------- MODULE CodexActivity ---------------------------
(* Reading back what a Codex session did: activity/reader.ts, projection.ts, *)
(* cursor.ts and path.ts of packages/agent-runtime/codex/src over            *)
(* packages/dreamux-utils/src/activity-scan.ts, and Core's cold read of it   *)
(* in packages/dreamux/src/service/agent/activity.ts.                        *)
(*                                                                          *)
(* A session is a rollout file and the prefixes of others it continues.  A   *)
(* reader takes pages of it, newest first, each behind the cursor of the one *)
(* before, while Codex goes on writing.  An offset is a number of lines.     *)
EXTENDS Naturals, Sequences, FiniteSets, SequencesExt

CONSTANTS
  Native,      \* lines Codex may write: [type, id]
  MaxLines,    \* bound: lines in all
  Limit,       \* records the reader asks for
  MaxBytes,    \* MAX_DECODED_BYTES, in lines
  None

ActivityAssumption == Limit \in Nat \ {0} /\ MaxBytes \in Nat \ {0, 1}

VARIABLES
  rollouts,    \* files, the session's newest last: [lines, base, end]; base 0 is none
  cursor,      \* what the next page is asked with, or None
  got,         \* records the pages of one reading showed, newest first
  since,       \* the records there were at its first page
  outcome      \* "none", "reading", "done", or why a page was refused

vars == <<rollouts, cursor, got, since, outcome>>

Types == {"started", "complete", "live", "final", "call", "output", "failed"}
----------------------------------------
(* The session: a lineage of segments, newest first, each read to its end.   *)
Latest == Len(rollouts)

Lineage ==
  LET from[r \in 0..Latest] ==
        IF r = 0 THEN <<>>
        ELSE <<[rollout |-> r, end |-> None]>> \o
             [k \in 1..Len(from[rollouts[r].base]) |->
                IF k = 1 THEN [rollout |-> rollouts[r].base, end |-> rollouts[r].end]
                ELSE from[rollouts[r].base][k]]
  IN from[Latest]

Generation == Lineage

\* The lines that can be read: a parent was cut where the child continues it.
EndOf(segment) ==
  IF segment.end = None THEN Len(rollouts[segment.rollout].lines) ELSE segment.end

LineAt(segment, offset) == rollouts[segment.rollout].lines[offset + 1]

\* What fits into `bytes` in front of `end`.  A window that does not begin with
\* the file begins inside a line, which is dropped.
Window(segment, end, bytes) ==
  LET start == IF end > bytes THEN end - bytes ELSE 0
      first == IF start = 0 THEN 0 ELSE start + 1
  IN [start |-> start, read |-> end - start,
      lines |-> [k \in 1..(end - first) |-> [offset |-> first + k - 1,
                                             line |-> LineAt(segment, first + k - 1)]]]
----------------------------------------
(* Projection: native lines to neutral records, in order.                    *)
Shown(kind, id, turn, l) ==
  [kind |-> kind, id |-> id, turn |-> turn, offset |-> l.offset,
   status |-> IF kind = "tool" THEN "started" ELSE None]

EnterTurn(p, id) == [p EXCEPT !.turn = id, !.unclaimed = <<>>]

\* Codex writes a message twice, live and then finalized: the finalized one is
\* dropped when an earlier live one stands for it.
Finalized(p, l) ==
  IF l.line.id \in Range(p.unclaimed)
  THEN [p EXCEPT !.unclaimed = Remove(@, l.line.id)]
  ELSE [p EXCEPT !.out = Append(@, Shown("message", l.line.id, p.turn, l))]

\* An output whose call is not in the window settles nothing.
Settled(p, l) ==
  [p EXCEPT !.out = [k \in DOMAIN @ |->
     IF @[k].kind = "tool" /\ @[k].id = l.line.id
        /\ \A j \in k + 1..Len(@) : @[j].kind # "tool" \/ @[j].id # l.line.id
     THEN [@[k] EXCEPT !.status = IF l.line.type = "failed" THEN "failed" ELSE "completed"]
     ELSE @[k]]]

ProjectLine(p, l, tools) ==
  CASE l.line.type = "started"  -> EnterTurn(p, l.line.id)
    [] l.line.type = "complete" -> IF l.line.id = p.turn THEN EnterTurn(p, None) ELSE p
    [] l.line.type = "live" ->
         [p EXCEPT !.unclaimed = Append(@, l.line.id),
                   !.out = Append(@, Shown("message", l.line.id, p.turn, l))]
    [] l.line.type = "final" -> Finalized(p, l)
    [] l.line.type = "call" ->
         IF tools THEN [p EXCEPT !.out = Append(@, Shown("tool", l.line.id, p.turn, l))] ELSE p
    [] OTHER -> IF tools THEN Settled(p, l) ELSE p

Project(lines, tools) ==
  FoldLeft(LAMBDA p, l : ProjectLine(p, l, tools),
           [turn |-> None, unclaimed |-> <<>>, out |-> <<>>], lines).out
----------------------------------------
(* A page: segments from the cursor's on, each record newest first, within   *)
(* the limit, the bytes and the time.                                        *)
Positioned(segment, record) == [segment |-> segment, record |-> record]

LastUpTo(s, n) == IF Len(s) <= n THEN s ELSE SubSeq(s, Len(s) - n + 1, Len(s))

Older(p, q) == p.segment > q.segment \/ (p.segment = q.segment /\ p.offset < q.offset)

ScanSegment(scan, s, at, tools) ==
  LET segment == Lineage[s]
      end == IF at # None /\ s = at.segment THEN at.offset ELSE EndOf(segment)
      window == Window(segment, end, scan.bytes)
      projected == Project(window.lines, tools)
      room == Limit - Len(scan.collected)
      taken == Reverse(LastUpTo(projected, room))
      full == Len(taken) = room
  IN [collected |-> scan.collected \o [k \in DOMAIN taken |-> Positioned(s, taken[k])],
      older |-> full /\ (Len(projected) > room \/ window.start > 0 \/ s < Len(Lineage)),
      hit |-> ~full /\ window.start > 0,
      fallback |-> IF window.lines = <<>> THEN scan.fallback
                   ELSE [segment |-> s, offset |-> window.lines[1].offset],
      bytes |-> scan.bytes - window.read,
      over |-> full \/ window.start > 0]

\* `late`: the segment at which the time is up.
ScanRecords(at, tools, late) ==
  FoldLeft(LAMBDA scan, s :
             IF scan.over THEN scan
             ELSE IF scan.bytes = 0 \/ s = late THEN [scan EXCEPT !.hit = TRUE, !.over = TRUE]
             ELSE ScanSegment(scan, s, at, tools),
           [collected |-> <<>>, older |-> FALSE, hit |-> FALSE, fallback |-> None,
            bytes |-> MaxBytes, over |-> FALSE],
           [k \in 1..(Len(Lineage) + 1 - (IF at = None THEN 1 ELSE at.segment)) |->
              k - 1 + (IF at = None THEN 1 ELSE at.segment)])

\* Mutant: a page is continued from where its window began.
AnchorAtWindow(scan) == IF ~(scan.older \/ scan.hit) THEN None ELSE scan.fallback

Anchor(scan) ==
  IF ~(scan.older \/ scan.hit) THEN None
  ELSE IF scan.collected # <<>>
       THEN [segment |-> Last(scan.collected).segment,
             offset |-> Last(scan.collected).record.offset]
       ELSE scan.fallback

Fingerprint(tools) == tools

Mint(anchor, tools) ==
  [fp |-> Fingerprint(tools), gen |-> Generation, pos |-> anchor,
   bd |-> LineAt(Lineage[anchor.segment], anchor.offset)]

Mismatched(c, tools) == c.fp # Fingerprint(tools)
Stale(c) ==
  \/ c.gen # Generation
  \/ c.pos.segment \notin DOMAIN Lineage
  \/ LineAt(Lineage[c.pos.segment], c.pos.offset) # c.bd

\* What Core says of a refusal (activity-error.ts, agent/activity.ts).
PublicReason(detail) ==
  CASE detail \in {"cursor_query_mismatch", "cursor_stale"} -> "cursor_invalid"
    [] detail = "scan_unsupported" -> "provider_failure"
    [] OTHER -> "session_unavailable"
----------------------------------------
Refused(detail) ==
  /\ outcome' = PublicReason(detail)
  /\ UNCHANGED <<rollouts, cursor, got, since>>

Answered(scan, tools) ==
  LET anchor == Anchor(scan) IN
  /\ cursor' = IF anchor = None THEN None ELSE Mint(anchor, tools)
  /\ got' = got \o scan.collected
  /\ outcome' = IF anchor # None THEN "reading" ELSE IF scan.hit THEN "truncated" ELSE "done"
  /\ UNCHANGED rollouts

\* What a reader without limits would be shown now.
All(tools) ==
  FlattenSeq([s \in DOMAIN Lineage |->
    LET segment == Lineage[s]
        projected == Reverse(Project(Window(segment, EndOf(segment), EndOf(segment)).lines, tools))
    IN [k \in DOMAIN projected |-> Positioned(s, projected[k])]])

ReadFirst ==
  /\ outcome = "none"
  /\ IF Latest = 0 THEN Refused("not_found")
     ELSE \E tools \in BOOLEAN : \E late \in {None} \cup 2..Len(Lineage) :
            /\ Answered(ScanRecords(None, tools, late), tools)
            /\ since' = All(tools)

ReadNext ==
  /\ outcome = "reading"
  /\ \E tools \in BOOLEAN : \E late \in {None} \cup (cursor.pos.segment + 1)..Len(Lineage) :
       IF Mismatched(cursor, tools) THEN Refused("cursor_query_mismatch")
       ELSE IF Stale(cursor) THEN Refused("cursor_stale")
       ELSE LET scan == ScanRecords(cursor.pos, tools, late) IN
            IF Anchor(scan) # None /\ ~Older(Anchor(scan), cursor.pos)
            THEN Refused("scan_unsupported")
            ELSE Answered(scan, tools) /\ UNCHANGED since

ReadAgain ==
  /\ outcome \notin {"none", "reading"}
  /\ cursor' = None /\ got' = <<>> /\ since' = <<>> /\ outcome' = "none"
  /\ UNCHANGED rollouts

\* External: Codex writes a line, or continues the session in a new file.
Written == FoldLeft(LAMBDA n, r : n + Len(r.lines), 0, rollouts)

Write ==
  /\ Latest > 0 /\ Written < MaxLines
  /\ \E l \in Native :
       rollouts' = [rollouts EXCEPT ![Latest].lines = Append(@, l)]
  /\ UNCHANGED <<cursor, got, since, outcome>>

Continue ==
  /\ Latest < 2
  /\ \E end \in 0..(IF Latest = 0 THEN 0 ELSE Len(rollouts[Latest].lines)) :
       rollouts' = Append(rollouts, [lines |-> <<>>, base |-> Latest, end |-> end])
  /\ UNCHANGED <<cursor, got, since, outcome>>

Init ==
  /\ rollouts = <<>> /\ cursor = None
  /\ got = <<>> /\ since = <<>> /\ outcome = "none"

Next == ReadFirst \/ ReadNext \/ ReadAgain \/ Write \/ Continue

Spec == Init /\ [][Next]_vars
----------------------------------------
TypeOK ==
  /\ \A r \in DOMAIN rollouts :
       /\ rollouts[r].lines \in Seq([type : Types, id : STRING])
       /\ rollouts[r].base < r
  /\ outcome \in {"none", "reading", "done", "truncated", "cursor_invalid", "provider_failure",
                  "session_unavailable"}
  /\ outcome = "reading" => cursor # None

At(shown) == [segment |-> shown.segment, offset |-> shown.record.offset]

\* A page never shows what an earlier one showed, and goes back in time: "pages backward
\* through history without skipping or duplicating as the file keeps growing"
\* (codex/tests/codex-activity-read.test.ts:175).
PagesGoBack ==
  \A j, k \in DOMAIN got : j < k => Older(At(got[k]), At(got[j]))

\* A reading that came to its end showed every record there was when it began; what it showed
\* beside these repeats a message, whose live half lay in front of a window.
PagesTellTheLog ==
  outcome = "done" =>
    /\ {At(since[k]) : k \in DOMAIN since} \subseteq {At(got[k]) : k \in DOMAIN got}
    /\ \A k \in DOMAIN got :
         \/ \E j \in DOMAIN since : At(since[j]) = At(got[k])
         \/ \E j \in DOMAIN since : /\ since[j].record.kind = "message"
                                   /\ since[j].record.id = got[k].record.id

\* A record is given to the turn that wrote it or to none, and a page that shows a call as
\* over was not wrong.
PagesAttributeTruly ==
  \A k \in DOMAIN got : \A j \in DOMAIN since :
    outcome \in {"reading", "done"} /\ At(since[j]) = At(got[k]) =>
      /\ got[k].record.turn \in {None, since[j].record.turn}
      /\ got[k].record.status \in {since[j].record.status, "started"}
========================================
