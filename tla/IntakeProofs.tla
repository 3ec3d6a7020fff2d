---------------------------- MODULE IntakeProofs ----------------------------
(***************************************************************************)
(* Safety of the intake, for every number of citizens, submissions, pods   *)
(* and connections.                                                        *)
(***************************************************************************)
EXTENDS Intake, FiniteSetTheorems, TLAPS

\* A POST is unsent until its form comes to it, and until then leaves no trace.
SentInv ==
    \A p \in Posts :
        /\ pc[p] = "unsent" <=> p[2] > tries[p[1]]
        /\ pc[p] = "unsent" => told[p] = "nothing" /\ p \notin rows

\* A form is submitted again only after it was told that it failed.
EarlierFailed ==
    \A p \in Posts : p[2] < tries[p[1]] => told[p] = "failure"

\* Past the COMMIT a POST has its row.
AnswerInv ==
    \A p \in Posts : pc[p] \in {"invalidate", "answer"} => p \in rows

\* A pod past its requests has none.
PhaseInv ==
    \A p \in Posts : pc[p] \in Working => phase[pod[p]] \in {"up", "draining"}

ConnInv ==
    /\ IsFiniteSet(conns)
    /\ \A p \in conns : pc[p] \in {"insert", "commit"}

IInv ==
    /\ TypeOK /\ SentInv /\ EarlierFailed /\ AnswerInv /\ PhaseInv /\ ConnInv
    /\ AcknowledgedMeansStored

\* The intake starts in its invariant.
LEMMA InitIInv ==
    ASSUME Init
    PROVE  IInv
<1>1. TypeOK
  BY IntakeAssumption DEF Init, TypeOK, Posts, Working
<1>2. SentInv /\ EarlierFailed /\ AnswerInv /\ PhaseInv /\ AcknowledgedMeansStored
  BY DEF Init, SentInv, EarlierFailed, AnswerInv, PhaseInv,
         AcknowledgedMeansStored, Posts, Working
<1>3. ConnInv
  BY FS_EmptySet DEF Init, ConnInv
<1> QED BY <1>1, <1>2, <1>3 DEF IInv

\* Where a pool has a connection left, taking it keeps the count in range.
LEMMA RoomForOne ==
    ASSUME TypeOK, ConnInv, NEW d \in Pods, InUse(d) < Capacity
    PROVE  others[d] + 1 \in 0 .. Capacity
<1>1. IsFiniteSet({p \in conns : pod[p] = d})
  BY FS_Subset DEF ConnInv
<1>2. Cardinality({p \in conns : pod[p] = d}) \in Nat
  BY <1>1, FS_CardinalityType
<1> QED BY <1>2, IntakeAssumption DEF InUse, TypeOK

\* Every variable keeps its type in every step.
LEMMA TypeStep ==
    ASSUME TypeOK, ConnInv, [Next]_vars
    PROVE  TypeOK'
<1> USE IntakeAssumption DEF TypeOK, Working, Goes, Keeps
<1>1. ASSUME NEW r \in Reports, NEW d \in Pods, onSubmit(r, d) PROVE TypeOK'
  <2>1. tries[r] + 1 \in 0 .. MaxTries /\ <<r, tries[r] + 1>> \in Posts
    BY <1>1 DEF onSubmit, Posts
  <2> QED BY <1>1, <2>1 DEF onSubmit, Send
<1>2. ASSUME NEW p \in Posts, AnswerLost(p) PROVE TypeOK'
  BY <1>2 DEF AnswerLost
<1>3. ASSUME NEW p \in Posts, Refuse(p) \/ Admit(p) PROVE TypeOK'
  BY <1>3 DEF Refuse, Admit
<1>4. ASSUME NEW p \in Posts,
             triage_with_fallback(p) \/ PoolTimesOut(p) \/ Insert(p) \/ Invalidate(p)
      PROVE  TypeOK'
  BY <1>4 DEF triage_with_fallback, PoolTimesOut, Insert, Invalidate
<1>5. ASSUME NEW p \in Posts, Connect(p) \/ Commit(p) \/ Raise(p) PROVE TypeOK'
  BY <1>5 DEF Connect, Commit, Raise
<1>6. ASSUME NEW p \in Posts, Respond(p) PROVE TypeOK'
  BY <1>6 DEF Respond, Learns
<1>7. ASSUME NEW d \in Pods, OthersConnect(d) PROVE TypeOK'
  BY <1>7, RoomForOne DEF OthersConnect
<1>8. ASSUME NEW d \in Pods, OthersRelease(d) PROVE TypeOK'
  BY <1>8 DEF OthersRelease
<1>9. ASSUME NEW d \in Pods, EndRequests(d)
      PROVE  /\ pc' \in [Posts -> Working \cup {"unsent", "gone"}]
             /\ rows' \subseteq Posts /\ conns' \subseteq Posts
             /\ others' \in [Pods -> 0 .. Capacity]
             /\ UNCHANGED <<tries, told, pod>>
  BY <1>9 DEF EndRequests, At
<1>10. ASSUME NEW d \in Pods, CancelRequests(d) \/ Kill(d) PROVE TypeOK'
  BY <1>10, <1>9 DEF CancelRequests, Kill, Phase
<1>11. ASSUME NEW d \in Pods,
              Terminate(d) \/ Drained(d) \/ CloseClients(d) \/ StartPod(d)
       PROVE  TypeOK'
  BY <1>11 DEF Terminate, Drained, CloseClients, StartPod, Phase
<1>12. CASE UNCHANGED vars
  BY <1>12 DEF vars
<1> QED
  BY <1>1, <1>2, <1>3, <1>4, <1>5, <1>6, <1>7, <1>8, <1>10, <1>11, <1>12
  DEF Next, create

\* A submission keeps the invariant: the POST it makes is new.
LEMMA FormStep ==
    ASSUME IInv, NEW r \in Reports, NEW d \in Pods, onSubmit(r, d)
    PROVE  SentInv' /\ EarlierFailed' /\ AnswerInv' /\ PhaseInv' /\ ConnInv'
           /\ AcknowledgedMeansStored'
<1> DEFINE new == <<r, tries[r] + 1>>
<1> USE IntakeAssumption DEF TypeOK, IInv, Working
<1>1. tries[r] \in Nat /\ tries[r] + 1 \in 1 .. MaxTries
  BY DEF onSubmit
<1>2. new \in Posts /\ new[1] = r /\ new[2] = tries[r] + 1
  BY <1>1 DEF Posts
<1>3. \A p \in Posts :
         /\ p[1] \in Reports /\ p[2] \in Nat /\ p[2] >= 1 /\ tries[p[1]] \in Nat
         /\ p = <<p[1], p[2]>>
         /\ p = new <=> p[1] = r /\ p[2] = tries[r] + 1
  BY <1>1 DEF Posts
<1>4. /\ \A p \in Posts :
            /\ tries'[p[1]] = IF p[1] = r THEN tries[r] + 1 ELSE tries[p[1]]
            /\ p # new => pc'[p] = pc[p] /\ told'[p] = told[p] /\ pod'[p] = pod[p]
      /\ \/ phase[d] = "up" /\ pc'[new] = "edge" /\ told'[new] = told[new]
         \/ pc'[new] = "gone" /\ told'[new] = "failure"
      /\ pod'[new] = d
      /\ rows' = rows /\ conns' = conns /\ phase' = phase
  BY <1>2, <1>3 DEF onSubmit, Send
<1>5. pc[new] = "unsent" /\ told[new] = "nothing" /\ new \notin rows
      /\ new \notin conns
  BY <1>1, <1>2 DEF SentInv, ConnInv
<1>6. \A p \in Posts : p[1] = r /\ p[2] = tries[r] => told[p] = "failure"
  BY <1>3 DEF onSubmit, Busy, Filled
<1> HIDE DEF new
<1>7. SentInv'
  <2> SUFFICES ASSUME NEW p \in Posts
               PROVE  /\ pc'[p] = "unsent" <=> p[2] > tries'[p[1]]
                      /\ pc'[p] = "unsent" => told'[p] = "nothing" /\ p \notin rows'
    BY DEF SentInv
  <2>1. CASE p = new
    BY <2>1, <1>1, <1>2, <1>4
  <2>2. CASE p # new
    <3>1. p[2] > tries[p[1]] <=> p[2] > tries'[p[1]]
      BY <2>2, <1>1, <1>3, <1>4
    <3> QED BY <2>2, <3>1, <1>4 DEF SentInv
  <2> QED BY <2>1, <2>2
<1>8. EarlierFailed'
  BY <1>1, <1>2, <1>3, <1>4, <1>6 DEF EarlierFailed
<1>9. AnswerInv' /\ PhaseInv' /\ AcknowledgedMeansStored'
  BY <1>2, <1>4, <1>5 DEF AnswerInv, PhaseInv, AcknowledgedMeansStored
<1>10. ConnInv'
  BY <1>4, <1>5 DEF ConnInv
<1> QED BY <1>7, <1>8, <1>9, <1>10

\* A step of one POST keeps it: the row comes before the answer.
LEMMA PostStep ==
    ASSUME IInv, NEW p \in Posts,
           AnswerLost(p) \/ Refuse(p) \/ Admit(p) \/ create(p) \/ Respond(p)
    PROVE  SentInv' /\ EarlierFailed' /\ AnswerInv' /\ PhaseInv' /\ ConnInv'
           /\ AcknowledgedMeansStored'
<1> USE DEF TypeOK, IInv, Working, Goes, Keeps, SentInv, EarlierFailed,
            AnswerInv, PhaseInv, AcknowledgedMeansStored
<1>1. IsFiniteSet(conns \cup {p}) /\ IsFiniteSet(conns \ {p})
  BY FS_AddElement, FS_RemoveElement DEF ConnInv
<1>2. CASE AnswerLost(p)
  BY <1>2 DEF AnswerLost, ConnInv
<1>3. CASE Refuse(p) \/ Admit(p) \/ triage_with_fallback(p) \/ PoolTimesOut(p)
           \/ Insert(p) \/ Invalidate(p)
  BY <1>3 DEF Refuse, Admit, triage_with_fallback, PoolTimesOut, Insert,
              Invalidate, ConnInv
<1>4. CASE Connect(p)
  BY <1>4, <1>1 DEF Connect, ConnInv
<1>5. CASE Commit(p)
  BY <1>5, <1>1 DEF Commit, ConnInv
<1>6. CASE Raise(p)
  BY <1>6, <1>1 DEF Raise, ConnInv
<1>7. CASE Respond(p)
  BY <1>7 DEF Respond, Learns, ConnInv
<1> QED BY <1>2, <1>3, <1>4, <1>5, <1>6, <1>7 DEF create

\* A step of a pod keeps it, one that ends its requests included.
LEMMA PodStep ==
    ASSUME IInv, NEW d \in Pods,
           \/ OthersConnect(d) \/ OthersRelease(d)
           \/ Terminate(d) \/ Drained(d) \/ CancelRequests(d) \/ CloseClients(d)
           \/ Kill(d) \/ StartPod(d)
    PROVE  SentInv' /\ EarlierFailed' /\ AnswerInv' /\ PhaseInv' /\ ConnInv'
           /\ AcknowledgedMeansStored'
<1> USE DEF TypeOK, IInv, Working, SentInv, EarlierFailed, AnswerInv, PhaseInv,
            AcknowledgedMeansStored
<1>1. CASE OthersConnect(d) \/ OthersRelease(d)
  BY <1>1 DEF OthersConnect, OthersRelease, ConnInv
<1>2. CASE Terminate(d) \/ CloseClients(d) \/ StartPod(d)
  BY <1>2 DEF Terminate, CloseClients, StartPod, Phase, ConnInv
<1>3. CASE Drained(d)
  BY <1>3 DEF Drained, Phase, At, ConnInv
<1>4. CASE CancelRequests(d) \/ Kill(d)
  <2>1. /\ EndRequests(d)
        /\ \A e \in Pods \ {d} : phase'[e] = phase[e]
    BY <1>4 DEF CancelRequests, Kill, Phase
  <2>2. IsFiniteSet(conns \ At(d))
    BY FS_Subset DEF ConnInv
  <2>3. \A p \in Posts : p \in At(d) <=> pc[p] \in Working /\ pod[p] = d
    BY DEF At
  <2>4. /\ \A p \in Posts : pc'[p] = IF p \in At(d) THEN "gone" ELSE pc[p]
        /\ rows \subseteq rows' /\ \A p \in rows' \ rows : pc[p] = "commit"
        /\ conns' = conns \ At(d)
        /\ tries' = tries /\ told' = told /\ pod' = pod
    BY <2>1 DEF EndRequests
  <2>5. rows' \subseteq Posts
    BY <2>1 DEF EndRequests, At
  <2> QED BY <2>1, <2>2, <2>3, <2>4, <2>5 DEF ConnInv
<1> QED BY <1>1, <1>2, <1>3, <1>4

\* Every step keeps the invariant.
LEMMA StepIInv ==
    ASSUME IInv, [Next]_vars
    PROVE  IInv'
<1>1. TypeOK'
  BY TypeStep DEF IInv
<1>2. CASE UNCHANGED vars
  BY <1>2 DEF vars, IInv, TypeOK, SentInv, EarlierFailed, AnswerInv, PhaseInv,
              ConnInv, AcknowledgedMeansStored
<1>3. CASE Next
  BY <1>1, <1>3, FormStep, PostStep, PodStep DEF Next, IInv
<1> QED BY <1>2, <1>3

\* The intake keeps its invariant: what is known of every POST at every step.
THEOREM Inductive == Spec => []IInv
<1>1. Init => IInv
  BY InitIInv
<1>2. IInv /\ [Next]_vars => IInv'
  BY StepIInv
<1> QED BY <1>1, <1>2, PTL DEF Spec

\* The variables of the intake keep their types.
THEOREM TypeCorrect == Spec => []TypeOK
<1>1. IInv => TypeOK
  BY DEF IInv
<1> QED BY <1>1, Inductive, PTL

\* A citizen is told that a report was accepted only once it is in the table,
\* where no failure of a pod takes it away.
THEOREM Acknowledged == Spec => []AcknowledgedMeansStored
<1>1. IInv => AcknowledgedMeansStored
  BY DEF IInv
<1> QED BY <1>1, Inductive, PTL

\* Whoever finds a report twice in the table finds a citizen who was told that
\* the earlier submission failed.
THEOREM Duplicates == Spec => []DuplicatesOnlyByRepeat
<1>1. IInv => DuplicatesOnlyByRepeat
  <2> SUFFICES ASSUME IInv, NEW p \in rows, NEW q \in rows,
                      p[1] = q[1], p[2] < q[2]
               PROVE  told[p] = "failure"
    BY DEF DuplicatesOnlyByRepeat
  <2>1. p \in Posts /\ q \in Posts /\ p[2] \in Nat /\ q[2] \in Nat
        /\ tries[p[1]] \in Nat
    BY DEF IInv, TypeOK, Posts
  <2>2. q[2] <= tries[q[1]]
    BY <2>1 DEF IInv, SentInv
  <2> QED BY <2>1, <2>2 DEF IInv, EarlierFailed
<1> QED BY <1>1, Inductive, PTL

\* No POST keeps a connection of the pool while it waits for anything but its
\* statements, and none outlives its pool.
THEOREM Connections == Spec => []ConnectionsOnlyForStatements
<1>1. IInv => ConnectionsOnlyForStatements
  BY DEF IInv, TypeOK, ConnInv, PhaseInv, Working, ConnectionsOnlyForStatements
<1> QED BY <1>1, Inductive, PTL

\* To the citizen, form, pods and table are one mailbox: a submission is the
\* Submit of ReportMailbox, a COMMIT (or the late ones of a pod that ends) a
\* Put, the first thing a form hears a Tell, and all else a stutter.
THEOREM ImplementsMailbox == Spec => MailboxSpec
<1> DEFINE fate(p) == IF pc[p] = "unsent" THEN "unsent" ELSE told[p]
           fates == [p \in Posts |-> fate(p)]
<1>0. Mailbox!Submissions = Posts
  BY DEF Mailbox!Submissions, Posts
<1>1. Init => Mailbox!Init
  BY <1>0 DEF Init, Mailbox!Init
<1>2. IInv /\ [Next]_vars => [Mailbox!Next]_(Mailbox!vars)
  <2> SUFFICES ASSUME IInv, [Next]_vars
               PROVE  Mailbox!Next \/ UNCHANGED Mailbox!vars
    OBVIOUS
  <2>0. TypeOK /\ SentInv /\ EarlierFailed /\ AnswerInv
    BY DEF IInv
  <2>s. ASSUME rows' = rows, fates' = fates PROVE UNCHANGED Mailbox!vars
    BY <2>s DEF Mailbox!vars
  <2>1. ASSUME NEW S \in SUBSET Posts, \A p \in S : pc[p] # "unsent",
               rows' = rows \cup S, fates' = fates
        PROVE  Mailbox!Next
    <3>1. \A p \in S : fates[p] # "unsent"
      BY <2>0, <2>1 DEF TypeOK
    <3>2. Mailbox!Put(S)
      BY <2>1, <3>1 DEF Mailbox!Put
    <3> QED BY <1>0, <2>1, <3>2 DEF Mailbox!Next
  <2>2. ASSUME NEW p \in Posts, NEW what \in {"created", "failure"},
               pc[p] # "unsent", told[p] = "nothing",
               what = "created" => p \in rows,
               told' = [told EXCEPT ![p] = what],
               \A q \in Posts : pc'[q] = "unsent" <=> pc[q] = "unsent",
               rows' = rows
        PROVE  Mailbox!Next
    <3>1. fates' = [fates EXCEPT ![p] = what]
      BY <2>0, <2>2 DEF TypeOK
    <3>2. fates[p] = "nothing"
      BY <2>2
    <3>3. Mailbox!Tell(p, what)
      BY <2>2, <3>1, <3>2 DEF Mailbox!Tell
    <3> QED BY <1>0, <3>3 DEF Mailbox!Next
  <2>3. ASSUME NEW r \in Reports, NEW d \in Pods, onSubmit(r, d)
        PROVE  Mailbox!Next
    <3>0. PICK n \in Nat : n = tries[r] + 1
      BY <2>0, IntakeAssumption DEF TypeOK
    <3>1. tries[r] \in Nat /\ n \in 1 .. MaxTries /\ <<r, n>> \in Posts
      BY <2>0, <2>3, <3>0, IntakeAssumption DEF onSubmit, TypeOK, Posts
    <3>2. pc[<<r, n>>] = "unsent"
      BY <2>0, <3>0, <3>1 DEF SentInv
    <3>3. ASSUME NEW m \in 1 .. n - 1 PROVE fates[<<r, m>>] = "failure"
      <4>1. <<r, m>> \in Posts /\ m \in Nat /\ m <= tries[r]
        BY <3>0, <3>1, IntakeAssumption DEF Posts
      <4>2. pc[<<r, m>>] # "unsent"
        BY <2>0, <3>1, <4>1 DEF SentInv
      <4>3. told[<<r, m>>] = "failure"
        <5>1. CASE m < tries[r]
          BY <2>0, <4>1, <5>1 DEF EarlierFailed
        <5>2. CASE m = tries[r]
          <6>1. tries[r] > 0
            BY <5>2, <3>1
          <6>2. told[<<r, m>>] # "nothing" /\ told[<<r, m>>] # "created"
            BY <5>2, <6>1, <2>3 DEF onSubmit, Busy, Filled
          <6> QED BY <2>0, <4>1, <6>2 DEF TypeOK
        <5> QED BY <4>1, <5>1, <5>2, <3>1
      <4> QED BY <4>1, <4>2, <4>3
    <3>4. \E t \in {"nothing", "failure"} :
             fates' = [fates EXCEPT ![<<r, n>>] = t]
      <4>1. told[<<r, n>>] = "nothing"
        BY <2>0, <3>0, <3>1, <3>2 DEF SentInv
      <4>2. CASE pc' = [pc EXCEPT ![<<r, n>>] = "edge"] /\ told' = told
        BY <2>0, <3>1, <4>1, <4>2 DEF TypeOK
      <4>3. CASE /\ pc' = [pc EXCEPT ![<<r, n>>] = "gone"]
                 /\ told' = [told EXCEPT ![<<r, n>>] = "failure"]
        BY <2>0, <3>1, <4>1, <4>3 DEF TypeOK
      <4> QED BY <2>3, <3>0, <4>2, <4>3 DEF onSubmit, Send
    <3>5. rows' = rows
      BY <2>3 DEF onSubmit, Send
    <3>6. Mailbox!Submit(r, n)
      BY <3>1, <3>2, <3>3, <3>4, <3>5 DEF Mailbox!Submit
    <3> QED BY <3>1, <3>6 DEF Mailbox!Next
  <2>4. ASSUME NEW p \in Posts, NEW to \in Working \cup {"gone"},
               pc[p] # "unsent", pc' = [pc EXCEPT ![p] = to], told' = told
        PROVE  fates' = fates
    BY <2>0, <2>4 DEF TypeOK, Working
  <2>5. ASSUME NEW p \in Posts, AnswerLost(p)
        PROVE  Mailbox!Next
    <3>1. /\ pc[p] # "unsent" /\ told[p] = "nothing"
          /\ told' = [told EXCEPT ![p] = "failure"]
          /\ pc' = pc /\ rows' = rows
      BY <2>5 DEF AnswerLost, Working
    <3> QED BY <2>2, <3>1
  <2>6. ASSUME NEW p \in Posts,
               Refuse(p) \/ Admit(p) \/ triage_with_fallback(p) \/ Connect(p)
                 \/ PoolTimesOut(p) \/ Insert(p) \/ Invalidate(p)
        PROVE  UNCHANGED Mailbox!vars
    <3>1. /\ pc[p] # "unsent" /\ told' = told /\ rows' = rows
          /\ \E to \in Working \cup {"gone"} : pc' = [pc EXCEPT ![p] = to]
      BY <2>6 DEF Refuse, Admit, triage_with_fallback, Connect, PoolTimesOut,
                  Insert, Invalidate, Goes, Keeps, Working
    <3> QED BY <2>4, <2>s, <3>1
  <2>7. ASSUME NEW p \in Posts, Commit(p) \/ Raise(p)
        PROVE  Mailbox!Next
    <3>1. PICK from \in {"insert", "commit"}, to \in {"invalidate", "error"} :
             pc[p] = from /\ pc' = [pc EXCEPT ![p] = to]
      BY <2>7 DEF Commit, Raise, Goes
    <3>2. told' = told
      BY <2>7 DEF Commit, Raise, Keeps
    <3>3. PICK S \in SUBSET {p} : rows' = rows \cup S
      <4>1. rows' = rows \cup {} \/ rows' = rows \cup {p}
        BY <2>7 DEF Commit, Raise
      <4> QED BY <4>1
    <3>4. fates' = fates
      BY <2>4, <3>1, <3>2 DEF Working
    <3>5. S \in SUBSET Posts /\ \A q \in S : pc[q] # "unsent"
      BY <3>1
    <3> QED BY <2>1, <3>3, <3>4, <3>5
  <2>8. ASSUME NEW p \in Posts, Respond(p)
        PROVE  Mailbox!Next \/ UNCHANGED Mailbox!vars
    <3>1. PICK what \in {"created", "failure"} :
             /\ pc[p] # "unsent" /\ pc' = [pc EXCEPT ![p] = "gone"]
             /\ what = "created" => p \in rows
             /\ Learns(p, what) /\ rows' = rows
      BY <2>0, <2>8 DEF Respond, Goes, AnswerInv
    <3>2. CASE told[p] = "nothing"
      <4>1. told' = [told EXCEPT ![p] = what]
        BY <3>1, <3>2 DEF Learns
      <4>2. \A q \in Posts : pc'[q] = "unsent" <=> pc[q] = "unsent"
        BY <2>0, <3>1 DEF TypeOK
      <4> QED BY <2>2, <3>1, <3>2, <4>1, <4>2
    <3>3. CASE told[p] # "nothing"
      <4>1. told' = told
        BY <2>0, <3>1, <3>3 DEF Learns, TypeOK
      <4>2. fates' = fates
        BY <2>4, <3>1, <4>1
      <4> QED BY <2>s, <3>1, <4>2
    <3> QED BY <3>2, <3>3
  <2>9. ASSUME NEW d \in Pods, CancelRequests(d) \/ Kill(d)
        PROVE  Mailbox!Next
    <3>1. EndRequests(d)
      BY <2>9 DEF CancelRequests, Kill
    <3>2. PICK S \in SUBSET {p \in At(d) : pc[p] = "commit"} : rows' = rows \cup S
      BY <3>1 DEF EndRequests
    <3>3. S \in SUBSET Posts /\ \A p \in S : pc[p] # "unsent"
      BY DEF At
    <3>4. \A p \in Posts : pc'[p] = "unsent" <=> pc[p] = "unsent"
      BY <3>1 DEF EndRequests, At, Working
    <3>5. fates' = fates
      BY <3>1, <3>4 DEF EndRequests
    <3> QED BY <2>1, <3>2, <3>3, <3>5
  <2>10. ASSUME NEW d \in Pods,
                \/ OthersConnect(d) \/ OthersRelease(d) \/ Terminate(d)
                \/ Drained(d) \/ CloseClients(d) \/ StartPod(d)
         PROVE  UNCHANGED Mailbox!vars
    <3>1. pc' = pc /\ told' = told /\ rows' = rows
      BY <2>10 DEF OthersConnect, OthersRelease, Terminate, Drained,
                   CloseClients, StartPod
    <3> QED BY <2>s, <3>1
  <2>11. CASE UNCHANGED vars
    BY <2>s, <2>11 DEF vars
  <2> QED
    BY <2>3, <2>5, <2>6, <2>7, <2>8, <2>9, <2>10, <2>11 DEF Next, create
<1> QED
  BY <1>1, <1>2, Inductive, PTL DEF Spec, MailboxSpec, Mailbox!Spec
=============================================================================
