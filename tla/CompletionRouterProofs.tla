----------------------- MODULE CompletionRouterProofs -----------------------
(***************************************************************************)
(* A recipient never reads the same news twice, for every set of reports,  *)
(* every way they share tokens, and every number of attempts.              *)
(***************************************************************************)
EXTENDS CompletionRouter, TLAPS

PcStates == {"idle", "dropped", "folded", "queued", "preparing", "submitting", "over"}

\* A report that has a delivery.
Delivering == {"queued", "preparing", "submitting", "over"}

MailType ==
  /\ mail \in [Recipients -> Seq(Reports)]
  /\ pc \in [Reports -> PcStates]
  /\ effect \in [Reports -> {"none", "taken"}]
  /\ late \subseteq Reports

\* What was read was submitted, is not tried again, and is not expected any more.
ReadIsSettled ==
  \A r \in Recipients : \A i \in 1..Len(mail[r]) :
    /\ pc[mail[r][i]] \in {"submitting", "over"}
    /\ pc[mail[r][i]] = "submitting" => effect[mail[r][i]] = "taken"
    /\ mail[r][i] \notin late

NoReportTwice ==
  \A r \in Recipients : \A i, j \in 1..Len(mail[r]) : mail[r][i] = mail[r][j] => i = j

LateIsOver == \A m \in late : pc[m] = "over"

\* A settlement that has a delivery is folded, and it has one only.
DeliveredIsFolded ==
  \A m \in Reports : pc[m] \in Delivering /\ TokenOf[m] # NoToken => TokenOf[m] \in folded

OneDeliveryPerNews ==
  \A a, b \in Reports :
    pc[a] \in Delivering /\ pc[b] \in Delivering /\ SameNews(a, b) => a = b

RouterInv ==
  /\ MailType /\ ReadIsSettled /\ NoReportTwice
  /\ LateIsOver /\ DeliveredIsFolded /\ OneDeliveryPerNews

LEMMA RouterInit == ASSUME Init PROVE RouterInv
  BY RouterAssumption DEF RouterAssumption, Init, RouterInv, MailType, ReadIsSettled, NoReportTwice, LateIsOver,
         DeliveredIsFolded, OneDeliveryPerNews, PcStates, Delivering

\* The invariant is enough: two readings of one settlement are of one report.
LEMMA InvGivesOnce == ASSUME RouterInv PROVE NewsReadOnce
<1> SUFFICES ASSUME NEW r \in Recipients, NEW i \in 1..Len(mail[r]), NEW j \in 1..Len(mail[r]),
                    SameNews(mail[r][i], mail[r][j])
             PROVE  i = j
  BY DEF NewsReadOnce
<1>1. mail[r][i] \in Reports /\ mail[r][j] \in Reports
  BY DEF RouterInv, MailType
<1>2. pc[mail[r][i]] \in Delivering /\ pc[mail[r][j]] \in Delivering
  BY DEF RouterInv, ReadIsSettled, Delivering
<1>3. mail[r][i] = mail[r][j]
  BY <1>1, <1>2 DEF RouterInv, OneDeliveryPerNews
<1> QED BY <1>3 DEF RouterInv, NoReportTwice

\* The fence, and the reports that get no delivery.
LEMMA NoDelivery ==
  ASSUME RouterInv,
         \/ Fence
         \/ \E m \in Reports : ReportDropped(m) \/ ReportFolded(m)
  PROVE  RouterInv'
<1>1. CASE Fence
  BY <1>1 DEF Fence, RouterInv, MailType, ReadIsSettled, NoReportTwice, LateIsOver,
              DeliveredIsFolded, OneDeliveryPerNews, SameNews
<1>2. ASSUME NEW m \in Reports, ReportDropped(m) \/ ReportFolded(m) PROVE RouterInv'
  <2>0. /\ UNCHANGED <<folded, effect, late, mail>> /\ pc[m] = "idle"
        /\ pc' \in [Reports -> PcStates]
        /\ pc'[m] \notin Delivering /\ \A n \in Reports \ {m} : pc'[n] = pc[n]
    BY <1>2 DEF ReportDropped, ReportFolded, RouterInv, MailType, PcStates, Delivering
  <2>1. MailType'
    BY <2>0 DEF RouterInv, MailType
  <2>2. ReadIsSettled'
    BY <2>0 DEF RouterInv, MailType, ReadIsSettled
  <2>3. NoReportTwice'
    BY <2>0 DEF RouterInv, NoReportTwice
  <2>4. LateIsOver'
    BY <2>0 DEF RouterInv, MailType, LateIsOver
  <2>5. DeliveredIsFolded' /\ OneDeliveryPerNews'
    BY <2>0 DEF RouterInv, DeliveredIsFolded, OneDeliveryPerNews, SameNews
  <2> QED BY <2>1, <2>2, <2>3, <2>4, <2>5 DEF RouterInv
<1> QED BY <1>1, <1>2

\* A new delivery: nobody else delivers this settlement, since it was not folded.
LEMMA NewDelivery ==
  ASSUME RouterInv, NEW m \in Reports, ReportQueued(m)
  PROVE  RouterInv'
<1>0. /\ UNCHANGED <<effect, late, mail>> /\ pc[m] = "idle" /\ pc'[m] = "queued"
      /\ pc' \in [Reports -> PcStates] /\ \A n \in Reports \ {m} : pc'[n] = pc[n]
  BY DEF ReportQueued, RouterInv, MailType, PcStates
<1>f. /\ folded \subseteq folded'
      /\ TokenOf[m] # NoToken => TokenOf[m] \in folded'
      /\ TokenOf[m] \notin folded
  BY DEF ReportQueued, Folds
<1>1. MailType'
  BY <1>0 DEF RouterInv, MailType
<1>2. ReadIsSettled'
  BY <1>0 DEF RouterInv, MailType, ReadIsSettled
<1>3. NoReportTwice'
  BY <1>0 DEF RouterInv, NoReportTwice
<1>4. LateIsOver'
  BY <1>0 DEF RouterInv, MailType, LateIsOver
<1>5. DeliveredIsFolded'
  BY <1>0, <1>f DEF RouterInv, DeliveredIsFolded
<1>6. OneDeliveryPerNews'
  <2> SUFFICES ASSUME NEW a \in Reports, NEW b \in Reports, pc'[a] \in Delivering,
                      pc'[b] \in Delivering, SameNews(a, b), a # b
               PROVE  FALSE
    BY DEF OneDeliveryPerNews, SameNews
  <2>1. TokenOf[a] = TokenOf[b] /\ TokenOf[a] # NoToken
    BY DEF SameNews
  <2>2. CASE a = m
    BY <1>0, <1>f, <2>1, <2>2 DEF RouterInv, DeliveredIsFolded
  <2>3. CASE b = m
    BY <1>0, <1>f, <2>1, <2>3 DEF RouterInv, DeliveredIsFolded
  <2>4. CASE a # m /\ b # m
    BY <1>0, <2>4 DEF RouterInv, OneDeliveryPerNews
  <2> QED BY <2>2, <2>3, <2>4
<1> QED BY <1>1, <1>2, <1>3, <1>4, <1>5, <1>6 DEF RouterInv

\* A delivery goes on: what was read stays settled, and only what was not read
\* is submitted again or expected late.
LEMMA DeliveryMoves ==
  ASSUME RouterInv, NEW m \in Reports,
         \/ Prepare(m) \/ Prepared(m) \/ PreparationFails(m)
         \/ Settled(m) \/ Failed(m) \/ TimedOut(m)
  PROVE  RouterInv'
<1>0. /\ UNCHANGED <<folded, mail>> /\ pc[m] \in {"queued", "preparing", "submitting"}
      /\ pc'[m] \in {"preparing", "submitting", "over"}
      /\ pc' \in [Reports -> PcStates] /\ \A n \in Reports \ {m} : pc'[n] = pc[n]
  BY DEF Prepare, Prepared, PreparationFails, Settled, Failed, TimedOut, Expires, Over,
         RouterInv, MailType, PcStates
<1>e. /\ effect' \in [Reports -> {"none", "taken"}]
      /\ \A n \in Reports \ {m} : effect'[n] = effect[n]
      /\ pc'[m] = "submitting" /\ pc[m] = "submitting" => effect[m] = "none"
  BY DEF Prepare, Prepared, PreparationFails, Settled, Failed, Retries, TimedOut, Over,
         RouterInv, MailType
<1>t. /\ pc'[m] # "over" => pc[m] \in {"queued", "preparing"} \/ effect[m] = "none"
      /\ \/ late' = late
         \/ late' = late \cup {m} /\ effect[m] = "none" /\ pc'[m] = "over"
  BY DEF Prepare, Prepared, PreparationFails, Settled, Failed, Retries, TimedOut, Over,
         RouterInv, MailType
<1>1. MailType'
  BY <1>0, <1>e, <1>t DEF RouterInv, MailType
<1>2. ReadIsSettled'
  <2> SUFFICES ASSUME NEW r \in Recipients, NEW i \in 1..Len(mail[r])
               PROVE  /\ pc'[mail[r][i]] \in {"submitting", "over"}
                      /\ pc'[mail[r][i]] = "submitting" => effect'[mail[r][i]] = "taken"
                      /\ mail[r][i] \notin late'
    BY <1>0 DEF ReadIsSettled
  <2>1. mail[r][i] \in Reports
    BY DEF RouterInv, MailType
  <2>2. CASE mail[r][i] = m
    <3>1. pc[m] = "submitting" /\ effect[m] = "taken" /\ m \notin late
      BY <1>0, <2>2 DEF RouterInv, ReadIsSettled
    <3> QED BY <1>0, <1>t, <2>2, <3>1
  <2>3. CASE mail[r][i] # m
    BY <1>0, <1>e, <1>t, <2>1, <2>3 DEF RouterInv, ReadIsSettled
  <2> QED BY <2>2, <2>3
<1>3. NoReportTwice'
  BY <1>0 DEF RouterInv, NoReportTwice
<1>4. LateIsOver'
  BY <1>0, <1>t DEF RouterInv, MailType, LateIsOver
<1>5. DeliveredIsFolded' /\ OneDeliveryPerNews'
  BY <1>0 DEF RouterInv, DeliveredIsFolded, OneDeliveryPerNews, SameNews, Delivering
<1> QED BY <1>1, <1>2, <1>3, <1>4, <1>5 DEF RouterInv

\* A recipient takes what it has not read: submitted and not taken, or late.
LEMMA RecipientTakes ==
  ASSUME RouterInv, NEW m \in Reports, Take(m) \/ TakeLate(m)
  PROVE  RouterInv'
<1> DEFINE R == RecipientOf[m]
<1>0. /\ UNCHANGED <<folded, pc>>
      /\ mail' = [mail EXCEPT ![R] = Append(mail[R], m)]
      /\ effect' \in [Reports -> {"none", "taken"}]
      /\ \A n \in Reports \ {m} : effect'[n] = effect[n]
      /\ late' \subseteq late /\ m \notin late'
      /\ pc[m] = "submitting" => effect'[m] = "taken"
      /\ pc[m] \in {"submitting", "over"}
  BY DEF Take, TakeLate, RouterInv, MailType, LateIsOver
<1>u. \A r \in Recipients : \A i \in 1..Len(mail[r]) : mail[r][i] # m
  BY DEF Take, TakeLate, RouterInv, ReadIsSettled, LateIsOver
<1>m. \A r \in Recipients : mail[r] \in Seq(Reports)
  BY DEF RouterInv, MailType
<1>l. \A r \in Recipients :
        \/ mail'[r] = mail[r]
        \/ /\ mail'[r] \in Seq(Reports) /\ Len(mail'[r]) = Len(mail[r]) + 1
           /\ mail'[r][Len(mail[r]) + 1] = m
           /\ \A i \in 1..Len(mail[r]) : mail'[r][i] = mail[r][i]
  <2> SUFFICES ASSUME NEW r \in Recipients, r = R
               PROVE  /\ mail'[r] \in Seq(Reports) /\ Len(mail'[r]) = Len(mail[r]) + 1
                      /\ mail'[r][Len(mail[r]) + 1] = m
                      /\ \A i \in 1..Len(mail[r]) : mail'[r][i] = mail[r][i]
    BY <1>0 DEF RouterInv, MailType
  <2>1. mail'[r] = Append(mail[r], m)
    BY <1>0 DEF RouterInv, MailType
  <2> QED BY <1>m, <2>1
<1>1. MailType'
  <2>1. \A r \in Recipients : mail'[r] \in Seq(Reports)
    BY <1>l, <1>m
  <2> QED BY <1>0, <2>1 DEF RouterInv, MailType
<1>2. ReadIsSettled'
  <2> SUFFICES ASSUME NEW r \in Recipients, NEW i \in 1..Len(mail'[r])
               PROVE  /\ pc[mail'[r][i]] \in {"submitting", "over"}
                      /\ pc[mail'[r][i]] = "submitting" => effect'[mail'[r][i]] = "taken"
                      /\ mail'[r][i] \notin late'
    BY <1>0 DEF ReadIsSettled
  <2>1. CASE mail'[r][i] = m
    BY <1>0, <2>1
  <2>2. CASE mail'[r][i] # m
    <3>1. i \in 1..Len(mail[r]) /\ mail'[r][i] = mail[r][i]
      BY <1>l, <1>m, <2>2
    <3>2. mail[r][i] \in Reports \ {m}
      BY <1>m, <1>u, <3>1
    <3> QED BY <1>0, <3>1, <3>2 DEF RouterInv, ReadIsSettled
  <2> QED BY <2>1, <2>2
<1>3. NoReportTwice'
  <2> SUFFICES ASSUME NEW r \in Recipients, NEW i \in 1..Len(mail'[r]),
                      NEW j \in 1..Len(mail'[r]), mail'[r][i] = mail'[r][j]
               PROVE  i = j
    BY DEF NoReportTwice
  <2>1. CASE mail'[r] = mail[r]
    BY <2>1 DEF RouterInv, NoReportTwice
  <2>2. CASE mail'[r] # mail[r]
    <3>1. /\ Len(mail[r]) \in Nat /\ Len(mail'[r]) = Len(mail[r]) + 1
          /\ mail'[r][Len(mail[r]) + 1] = m
          /\ \A k \in 1..Len(mail[r]) : mail'[r][k] = mail[r][k] /\ mail[r][k] # m
      BY <1>l, <1>m, <1>u, <2>2
    <3>2. CASE i \in 1..Len(mail[r]) /\ j \in 1..Len(mail[r])
      BY <3>1, <3>2 DEF RouterInv, NoReportTwice
    <3> QED BY <3>1, <3>2
  <2> QED BY <2>1, <2>2
<1>4. LateIsOver'
  BY <1>0 DEF RouterInv, LateIsOver
<1>5. DeliveredIsFolded' /\ OneDeliveryPerNews'
  BY <1>0 DEF RouterInv, DeliveredIsFolded, OneDeliveryPerNews, SameNews
<1> QED BY <1>1, <1>2, <1>3, <1>4, <1>5 DEF RouterInv

LEMMA RouterStep == ASSUME RouterInv, [Next]_vars PROVE RouterInv'
<1>1. CASE UNCHANGED vars
  BY <1>1 DEF vars, RouterInv, MailType, ReadIsSettled, NoReportTwice, LateIsOver,
              DeliveredIsFolded, OneDeliveryPerNews, SameNews
<1>2. CASE Next
  BY <1>2, NoDelivery, NewDelivery, DeliveryMoves, RecipientTakes DEF Next
<1> QED BY <1>1, <1>2

\* completion-router/index.ts: whatever paths report a settlement, however its attempts
\* end and whenever a submission that was given up takes effect, a recipient reads it once.
THEOREM ReadOnce == Spec => []NewsReadOnce
<1>1. Init => RouterInv
  BY RouterInit
<1>2. RouterInv /\ [Next]_vars => RouterInv'
  BY RouterStep
<1>3. RouterInv => NewsReadOnce
  BY InvGivesOnce
<1> QED BY <1>1, <1>2, <1>3, PTL DEF Spec
========================================
