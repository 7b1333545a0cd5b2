--------------------------- MODULE RecruitProofs ---------------------------
(***************************************************************************)
(* Theorems of Recruit, for any set of phones and any number of votes that *)
(* may overlap.  Types hold whatever users and scheduler do, and refusals  *)
(* as long as SendBrief announces the vote it has filled in.  The dealers  *)
(* of a vote agree on its parties, on N and on T when users slip in        *)
(* nothing but refusing and nobody begins twice, even if a handler runs    *)
(* while an answer has yet to store Stat.                                  *)
(***************************************************************************)
EXTENDS Recruit, FiniteSetTheorems, TLAPS

-----------------------------------------------------------------------------
(* Facts about the data *)

LEMMA ViewFinite ==
  ASSUME NEW topic
  PROVE  FindPeers(topic) \subseteq Phones /\ Cardinality(FindPeers(topic)) \in Nat
<1>1. FindPeers(topic) \subseteq Phones
  BY DEF FindPeers
<1> QED
  BY <1>1, PhonesAssumption, FS_Subset, FS_CardinalityType

\* A refusal names a phone and a topic.
LEMMA RefusalType ==
  TypeOK => \A m \in Refusals : m.from \in Phones /\ m.topic \in Topics
  BY DEF TypeOK, Refusals, Sent

LEMMA BriefsCounted ==
  TypeOK => IsFiniteSet(Sent("VoteBrief")) /\ Cardinality(Sent("VoteBrief")) \in Nat
<1> SUFFICES ASSUME TypeOK
             PROVE  IsFiniteSet(Sent("VoteBrief")) /\ Cardinality(Sent("VoteBrief")) \in Nat
  OBVIOUS
<1>1. Sent("VoteBrief") \subseteq sent /\ IsFiniteSet(sent)
  BY DEF Sent, TypeOK
<1> QED
  BY <1>1, FS_Subset, FS_CardinalityType

LEMMA AnnouncersCounted ==
  Cardinality({p \in Phones : Announcing(p)}) \in Nat
<1>1. {p \in Phones : Announcing(p)} \subseteq Phones
  OBVIOUS
<1> QED
  BY <1>1, PhonesAssumption, FS_Subset, FS_CardinalityType

LEMMA MessageKinds ==
  /\ \A v, t, S, k : Params(v, t, S, k).type = "VoteParams"
  /\ \A p, v : /\ Brief(p, v).type = "VoteBrief" /\ Brief(p, v).to = Phones
               /\ Brief(p, v).topic = v.topic /\ Brief(p, v).from = v.from
  /\ \A p, v, yes : /\ Accept(p, v, yes).type = "VoteAcceptation"
                    /\ Accept(p, v, yes).result = yes /\ Accept(p, v, yes).to = {v.from}
                    /\ Accept(p, v, yes).from = p /\ Accept(p, v, yes).topic = v.topic
  BY DEF Params, Accept, Brief

\* Votes are announced under the names of their starters.
LEMMA InvitationFields ==
  \A t : /\ InvitationTo(t).type = "VoteBrief" /\ InvitationTo(t).topic = t
         /\ InvitationTo(t).from = t.starter
  BY DEF InvitationTo, Brief

-----------------------------------------------------------------------------
(* Type correctness *)

\* What TypeOK says of the messages, after a step.
SentFacts ==
  /\ IsFiniteSet(sent')
  /\ \A x \in sent' :
       /\ x.type \in MessageTypes /\ x.to \subseteq Phones
       /\ x.type = "VoteParams" =>
            x.topic \in Topics \cup {NoVote} /\ x.n \in Nat /\ x.t \in Nat
       /\ x.type # "VoteParams" => x.topic \in Topics /\ x.from \in Phones
  /\ rcvd' \in [Phones -> SUBSET sent']
  /\ lookup' \in [Phones -> SUBSET [topic : Topics \cup {NoVote}, params : Sent("VoteParams")']]

\* What a step that sends one message must show.
LEMMA SentTyped ==
  ASSUME TypeOK, NEW m, sent' = sent \cup {m},
         m.type \in MessageTypes, m.to \subseteq Phones,
         m.type = "VoteParams" =>
           m.topic \in Topics \cup {NoVote} /\ m.n \in Nat /\ m.t \in Nat,
         m.type # "VoteParams" => m.topic \in Topics /\ m.from \in Phones,
         rcvd' = rcvd, lookup' = lookup
  PROVE  SentFacts
<1>1. IsFiniteSet(sent')
  BY FS_AddElement DEF TypeOK
<1>2. Sent("VoteParams") \subseteq Sent("VoteParams")'
  BY DEF Sent
<1>3. lookup \in [Phones -> SUBSET [topic : Topics \cup {NoVote}, params : Sent("VoteParams")]]
  BY DEF TypeOK
<1>4. lookup' \in [Phones -> SUBSET [topic : Topics \cup {NoVote}, params : Sent("VoteParams")']]
  BY <1>2, <1>3
<1> QED
  BY <1>1, <1>4 DEF TypeOK, SentFacts

LEMMA TakenTyped ==
  ASSUME TypeOK, NEW n \in Phones, NEW type, NEW m \in Arriving(n, type), Take(n, m)
  PROVE  rcvd' \in [Phones -> SUBSET sent] /\ m \in sent /\ m.type = type
  BY DEF Take, Arriving, Sent, TypeOK

LEMMA ParamsTyped ==
  ASSUME NEW v, v.topic \in Topics \cup {NoVote}, v.parties \in Nat, NEW t \in Nat,
         NEW S \in SUBSET Phones, NEW k
  PROVE  LET m == Params(v, t, S, k)
         IN  /\ m.type = "VoteParams" /\ m.to \subseteq Phones
             /\ m.topic \in Topics \cup {NoVote} /\ m.n \in Nat /\ m.t \in Nat
  BY DEF Params

\* What a call sends is typed, because the phone is in a vote when it calls.
LEMMA AnswerTyped ==
  ASSUME TypeOK, NEW n \in Phones, NEW yes \in BOOLEAN, stat[n] = "GotNewVote"
  PROVE  LET m == Accept(n, currentVote[n], yes)
         IN  /\ m.type = "VoteAcceptation" /\ m.to \subseteq Phones
             /\ m.topic \in Topics /\ m.from \in Phones
             /\ currentVote[n].topic \in Topics
  BY MessageKinds DEF TypeOK

LEMMA CallTyped ==
  ASSUME TypeOK, NEW n \in Phones, User(n)
  PROVE  TypeOK'
<1>1. CASE CreateNewVote(n)
  BY <1>1 DEF CreateNewVote, MayCreate, TypeOK, Sent, Filling
<1>2. CASE SendBrief(n)
  <2> DEFINE k == Cardinality(Sent("VoteBrief")) + 1
             topic == [starter |-> n, no |-> k]
  <2>1. k \in 1..MaxBriefs
    BY <1>2, BriefsCounted, AnnouncersCounted, BoundsAssumption DEF SendBrief
  <2>2. topic \in Topics
    BY <2>1 DEF Topics
  <2>3. /\ composing' = [composing EXCEPT ![n] = FALSE]
        /\ currentVote' = [currentVote EXCEPT ![n] =
             [from |-> n, topic |-> topic, parties |-> currentVote[n].parties]]
        /\ calls' = [calls EXCEPT ![n] = {"Generate"}]
        /\ UNCHANGED <<stat, joined, draft, lookup, sent, rcvd, dealt>>
    BY <1>2 DEF SendBrief, Then
  <2> HIDE DEF topic
  <2> QED
    BY <2>2, <2>3 DEF TypeOK, Steps, Sent, Filling
<1>3. CASE ConfirmNewVote(n)
  <2> DEFINE m == Accept(n, currentVote[n], TRUE)
  <2>1. /\ stat[n] = "GotNewVote" /\ sent' = sent \cup {m}
        /\ joined' = [joined EXCEPT ![n] = joined[n] \cup {currentVote[n].topic}]
        /\ calls' = [calls EXCEPT ![n] = {"Confirmed"}]
        /\ UNCHANGED <<stat, currentVote, composing, draft, lookup, rcvd, dealt>>
    BY <1>3 DEF ConfirmNewVote, MayConfirm, Join, Send, Then
  <2>2. /\ m.type = "VoteAcceptation" /\ m.to \subseteq Phones
        /\ m.topic \in Topics /\ m.from \in Phones /\ currentVote[n].topic \in Topics
    BY <2>1, AnswerTyped
  <2> HIDE DEF m
  <2>3. m.type \in MessageTypes /\ m.type # "VoteParams" /\ rcvd' = rcvd /\ lookup' = lookup
    BY <2>1, <2>2 DEF MessageTypes
  <2>4. SentFacts
    BY <2>1, <2>2, <2>3, SentTyped, Zenon
  <2> QED
    BY <2>1, <2>2, <2>4 DEF TypeOK, SentFacts, Steps, Filling
<1>4. CASE RefuseNewVote(n)
  <2> DEFINE m == Accept(n, currentVote[n], FALSE)
  <2>1. /\ stat[n] = "GotNewVote" /\ sent' = sent \cup {m}
        /\ calls' = [calls EXCEPT ![n] = {"Inited"}]
        /\ UNCHANGED <<stat, currentVote, composing, joined, draft, lookup, rcvd, dealt>>
    BY <1>4 DEF RefuseNewVote, AfterRefusal, Send, Then
  <2>2. /\ m.type = "VoteAcceptation" /\ m.to \subseteq Phones
        /\ m.topic \in Topics /\ m.from \in Phones
    BY <2>1, AnswerTyped
  <2> HIDE DEF m
  <2>3. m.type \in MessageTypes /\ m.type # "VoteParams" /\ rcvd' = rcvd /\ lookup' = lookup
    BY <2>1, <2>2 DEF MessageTypes
  <2>4. SentFacts
    BY <2>1, <2>2, <2>3, SentTyped, Zenon
  <2> QED
    BY <2>1, <2>2, <2>4 DEF TypeOK, SentFacts, Steps, Filling
<1>5. CASE BeginVote(n)
  <2> DEFINE v == currentVote[n]
             k == Cardinality({x \in Sent("VoteParams") : x.topic = v.topic}) + 1
             m == Params(v, Threshold(v.parties), FindPeers(v.topic), k)
  <2>1. /\ sent' = sent \cup {m}
        /\ UNCHANGED <<stat, currentVote, composing, joined, calls, draft, lookup, rcvd, dealt>>
    BY <1>5 DEF BeginVote, Send
  <2>2. v.topic \in Topics \cup {NoVote} /\ v.parties \in Nat
        /\ Threshold(v.parties) \in Nat /\ FindPeers(v.topic) \subseteq Phones
    BY ViewFinite DEF TypeOK, Threshold
  <2> HIDE DEF k
  <2>3. /\ m.type = "VoteParams" /\ m.to \subseteq Phones
        /\ m.topic \in Topics \cup {NoVote} /\ m.n \in Nat /\ m.t \in Nat
    BY <2>2, ParamsTyped
  <2> HIDE DEF m
  <2>4. m.type \in MessageTypes /\ m.type = "VoteParams" /\ rcvd' = rcvd /\ lookup' = lookup
    BY <2>1, <2>3 DEF MessageTypes
  <2>5. SentFacts
    BY <2>1, <2>3, <2>4, SentTyped, Zenon
  <2> QED
    BY <2>1, <2>5 DEF TypeOK, SentFacts, Filling
<1>6. CASE CancelVote(n)
  BY <1>6 DEF CancelVote, Become, TypeOK, NodeStat, Sent, Filling
<1> QED
  BY <1>1, <1>2, <1>3, <1>4, <1>5, <1>6 DEF User

LEMMA ProceedTyped ==
  ASSUME TypeOK, NEW n \in Phones, Proceed(n)
  PROVE  TypeOK'
<1>1. CASE GenVoteBrief(n)
  <2> DEFINE m == Brief(n, currentVote[n])
  <2>1. /\ Filling(n) /\ draft' = [draft EXCEPT ![n] = {m}]
        /\ calls' = [calls EXCEPT ![n] = {"Join"}]
        /\ UNCHANGED <<stat, currentVote, composing, joined, lookup, sent, rcvd, dealt>>
    BY <1>1 DEF GenVoteBrief, Then, Filling
  <2>2. currentVote[n].from \in Phones /\ currentVote[n].topic \in Topics
    BY <2>1 DEF TypeOK
  <2> DEFINE Briefs == [type : {"VoteBrief"}, from : Phones, topic : Topics,
                        to : {Phones}, by : Phones]
  <2>3. m \in Briefs
    BY <2>2 DEF Brief
  <2> HIDE DEF m
  <2>4. draft' \in [Phones -> SUBSET Briefs] /\ \A p \in Phones : IsFiniteSet(draft'[p])
    BY <2>1, <2>3, FS_Singleton DEF TypeOK
  <2> QED
    BY <2>1, <2>2, <2>4 DEF TypeOK, Steps, Sent, Filling
<1>2. CASE JoinVote(n)
  <2>1. /\ Filling(n) /\ joined' = [joined EXCEPT ![n] = joined[n] \cup {currentVote[n].topic}]
        /\ calls' = [calls EXCEPT ![n] = {"Store"}]
        /\ UNCHANGED <<stat, currentVote, composing, draft, lookup, sent, rcvd, dealt>>
    BY <1>2 DEF JoinVote, Join, Then, Filling
  <2>2. currentVote[n].from \in Phones /\ currentVote[n].topic \in Topics
    BY <2>1 DEF TypeOK
  <2> QED
    BY <2>1, <2>2 DEF TypeOK, Steps, Sent, Filling
<1>3. CASE StoreConfirmed(n)
  <2>1. /\ currentVote' = [currentVote EXCEPT ![n].parties = currentVote[n].parties + 1]
        /\ stat' = [stat EXCEPT ![n] = "Confirmed"]
        /\ calls' = [calls EXCEPT ![n] = {"Announce"}]
        /\ UNCHANGED <<composing, joined, draft, lookup, sent, rcvd, dealt>>
    BY <1>3 DEF StoreConfirmed, Become, Then
  <2>2. currentVote' \in [Phones -> [from : Phones \cup {NoVote},
                                    topic : Topics \cup {NoVote}, parties : Nat]]
    BY <2>1 DEF TypeOK
  <2>3. \A p \in Phones : stat'[p] = "GotNewVote" \/ Filling(p)' =>
          currentVote'[p].from \in Phones /\ currentVote'[p].topic \in Topics
    BY <2>1 DEF TypeOK, Filling
  <2> QED
    BY <2>1, <2>2, <2>3 DEF TypeOK, Steps, Sent, NodeStat
<1>4. CASE Announce(n)
  <2>1. \E steps \in {{}, {"EarlyStart"}} : calls' = [calls EXCEPT ![n] = steps]
    BY <1>4 DEF Announce, Then
  <2>2. /\ sent' = sent \cup draft[n] /\ draft' = [draft EXCEPT ![n] = {}]
        /\ UNCHANGED <<stat, currentVote, composing, joined, lookup, rcvd, dealt>>
    BY <1>4 DEF Announce
  <2>3. \A x \in draft[n] : /\ x.type = "VoteBrief" /\ x.to \subseteq Phones
                            /\ x.topic \in Topics /\ x.from \in Phones
    BY DEF TypeOK
  <2>4. /\ calls' \in [Phones -> SUBSET Steps]
        /\ \A p \in Phones : Filling(p)' => Filling(p)
    BY <2>1 DEF TypeOK, Steps, Filling
  <2>5. Sent("VoteParams") \subseteq Sent("VoteParams")' /\ sent \subseteq sent'
    BY <2>2 DEF Sent
  <2>6. lookup' \in [Phones -> SUBSET [topic : Topics \cup {NoVote}, params : Sent("VoteParams")']]
    <3>1. lookup \in [Phones -> SUBSET [topic : Topics \cup {NoVote}, params : Sent("VoteParams")]]
      BY DEF TypeOK
    <3> QED
      BY <2>2, <2>5, <3>1
  <2>7. IsFiniteSet(sent')
    <3>1. IsFiniteSet(sent) /\ IsFiniteSet(draft[n])
      BY DEF TypeOK
    <3> QED
      BY <2>2, <3>1, FS_Union
  <2>8. \A x \in sent' :
          /\ x.type \in MessageTypes /\ x.to \subseteq Phones
          /\ x.type = "VoteParams" =>
               x.topic \in Topics \cup {NoVote} /\ x.n \in Nat /\ x.t \in Nat
          /\ x.type # "VoteParams" => x.topic \in Topics /\ x.from \in Phones
    BY <2>2, <2>3 DEF TypeOK, MessageTypes
  <2>9. /\ draft' \in [Phones -> SUBSET [type : {"VoteBrief"}, from : Phones, topic : Topics,
                                         to : {Phones}, by : Phones]]
        /\ \A p \in Phones : IsFiniteSet(draft'[p])
    BY <2>2, FS_EmptySet DEF TypeOK
  <2> QED
    BY <2>2, <2>4, <2>5, <2>6, <2>7, <2>8, <2>9 DEF TypeOK
<1>5. CASE EarlyStart(n)
  <2> DEFINE S == FindPeers(currentVote[n].topic)
             m == Params(currentVote[n], EarlyThreshold(n), S, 0)
  <2>1. S \subseteq Phones /\ EarlyThreshold(n) \in Nat
    BY ViewFinite DEF EarlyThreshold
  <2>2. currentVote[n].topic \in Topics \cup {NoVote} /\ currentVote[n].parties \in Nat
    BY DEF TypeOK
  <2>3. /\ m.type = "VoteParams" /\ m.to \subseteq Phones
        /\ m.topic \in Topics \cup {NoVote} /\ m.n \in Nat /\ m.t \in Nat
    BY <2>1, <2>2, ParamsTyped
  <2>4. /\ sent' = sent \cup {m} /\ calls' = [calls EXCEPT ![n] = {"InRound"}]
        /\ UNCHANGED <<stat, currentVote, composing, joined, draft, lookup, rcvd, dealt>>
    BY <1>5 DEF EarlyStart, Send, Then
  <2> HIDE DEF m
  <2>5. m.type \in MessageTypes /\ m.type = "VoteParams" /\ rcvd' = rcvd /\ lookup' = lookup
    BY <2>3, <2>4 DEF MessageTypes
  <2>6. SentFacts
    BY <2>3, <2>4, <2>5, SentTyped, Zenon
  <2> QED
    BY <2>4, <2>6 DEF TypeOK, SentFacts, Steps, Filling
<1>6. CASE Return(n)
  <2>1. PICK s \in calls[n] \cap NodeStat :
          /\ calls' = [calls EXCEPT ![n] = {}] /\ stat' = [stat EXCEPT ![n] = s]
          /\ UNCHANGED <<currentVote, composing, joined, draft, lookup, sent, rcvd, dealt>>
    BY <1>6 DEF Return, Become, Then
  <2>2. s \in NodeStat /\ s # "GotNewVote"
    BY <2>1 DEF TypeOK, Steps, NodeStat
  <2> QED
    BY <2>1, <2>2 DEF TypeOK, Sent, Filling
<1> QED
  BY <1>1, <1>2, <1>3, <1>4, <1>5, <1>6 DEF Proceed

LEMMA HandlerTyped ==
  ASSUME TypeOK, NEW n \in Phones, Loop(n)
  PROVE  TypeOK'
<1>1. CASE HandleVoteBrief(n)
  <2>1. PICK m \in Arriving(n, "VoteBrief") : HandleVoteBrief(n)!(m)
    BY <1>1 DEF HandleVoteBrief
  <2>2. rcvd' \in [Phones -> SUBSET sent] /\ m \in sent /\ m.type = "VoteBrief"
    BY <2>1, TakenTyped
  <2>3. m.topic \in Topics /\ m.from \in Phones
    BY <2>2 DEF TypeOK
  <2>4. \A p \in Phones : stat'[p] = "GotNewVote" \/ Filling(p)' =>
          currentVote'[p].from \in Phones /\ currentVote'[p].topic \in Topics
    BY <2>1, <2>3 DEF TypeOK, Become, Filling
  <2> QED
    BY <2>1, <2>2, <2>3, <2>4 DEF TypeOK, Become, NodeStat, Sent
<1>2. CASE HandleVoteAccept(n)
  <2>1. PICK m \in Arriving(n, "VoteAcceptation") : HandleVoteAccept(n)!(m)
    BY <1>2 DEF HandleVoteAccept
  <2>2. rcvd' \in [Phones -> SUBSET sent]
    BY <2>1, TakenTyped
  <2>3. currentVote' = [currentVote EXCEPT ![n].parties = currentVote[n].parties + 1]
    BY <2>1 DEF PlusOne
  <2>4. currentVote' \in [Phones -> [from : Phones \cup {NoVote},
                                    topic : Topics \cup {NoVote}, parties : Nat]]
    BY <2>3 DEF TypeOK
  <2>5. \A p \in Phones : currentVote'[p].from = currentVote[p].from
                          /\ currentVote'[p].topic = currentVote[p].topic
    BY <2>3 DEF TypeOK
  <2> QED
    BY <2>1, <2>2, <2>4, <2>5 DEF TypeOK, Sent, Filling
<1>3. CASE HandleVoteParams(n)
  <2>1. PICK m \in Arriving(n, "VoteParams") : HandleVoteParams(n)!(m)
    BY <1>3 DEF HandleVoteParams
  <2>2. rcvd' \in [Phones -> SUBSET sent] /\ m \in Sent("VoteParams")
    BY <2>1, TakenTyped DEF Sent
  <2>3. [topic |-> currentVote[n].topic, params |-> m] \in
          [topic : Topics \cup {NoVote}, params : Sent("VoteParams")]
    BY <2>2 DEF TypeOK
  <2>4. lookup' \in [Phones -> SUBSET [topic : Topics \cup {NoVote}, params : Sent("VoteParams")]]
    BY <2>1, <2>3 DEF TypeOK
  <2> QED
    BY <2>1, <2>2, <2>4 DEF TypeOK, Sent, Filling
<1>4. CASE EnterRound(n)
  <2>1. PICK l \in lookup[n] : EnterRound(n)!(l)
    BY <1>4 DEF EnterRound
  <2> DEFINE k == Cardinality(FindPeers(l.topic))
             d == [from |-> n, topic |-> currentVote[n].topic, of |-> l.params.topic,
                   view |-> FindPeers(l.topic), n |-> l.params.n, t |-> l.params.t]
  <2>2. l.params \in sent /\ l.params.type = "VoteParams"
    BY DEF TypeOK, Sent
  <2>3. l.params.topic \in Topics \cup {NoVote} /\ l.params.n \in Nat /\ l.params.t \in Nat
    BY <2>2 DEF TypeOK
  <2>4. currentVote[n].topic \in Topics \cup {NoVote}
    BY DEF TypeOK
  <2>5. d \in Dealings /\ k \in Nat
    BY <2>3, <2>4, ViewFinite DEF Dealings
  <2>6. /\ dealt' = dealt \cup {d} /\ stat' = [stat EXCEPT ![n] = "InRound"]
        /\ currentVote' = [currentVote EXCEPT ![n].parties = k]
        /\ lookup' = [lookup EXCEPT ![n] = {}]
        /\ UNCHANGED <<composing, joined, calls, draft, sent, rcvd>>
    BY <2>1 DEF Become
  <2> HIDE DEF d, k
  <2>7. currentVote' \in [Phones -> [from : Phones \cup {NoVote},
                                    topic : Topics \cup {NoVote}, parties : Nat]]
    BY <2>5, <2>6 DEF TypeOK
  <2>8. \A p \in Phones : currentVote'[p].from = currentVote[p].from
                          /\ currentVote'[p].topic = currentVote[p].topic
    BY <2>6 DEF TypeOK
  <2>9. \A p \in Phones : stat'[p] = "GotNewVote" => stat[p] = "GotNewVote"
    BY <2>6 DEF TypeOK
  <2> QED
    BY <2>5, <2>6, <2>7, <2>8, <2>9 DEF TypeOK, NodeStat, Sent, Filling
<1>5. ASSUME NEW type, Ignore(n, type)
      PROVE  TypeOK'
  <2>1. PICK m \in Arriving(n, type) : Ignore(n, type)!(m)
    BY <1>5 DEF Ignore
  <2>2. rcvd' \in [Phones -> SUBSET sent]
    BY <2>1, TakenTyped
  <2> QED
    BY <2>1, <2>2 DEF TypeOK, Sent, Filling
<1>6. CASE Finish(n)
  BY <1>6 DEF Finish, Become, TypeOK, NodeStat, Sent, Filling
<1> QED
  BY <1>1, <1>2, <1>3, <1>4, <1>5, <1>6 DEF Loop

LEMMA TypedStep == TypeOK /\ [Next]_vars => TypeOK'
<1> SUFFICES ASSUME TypeOK, [Next]_vars PROVE TypeOK'
  OBVIOUS
<1>1. CASE UNCHANGED vars
  BY <1>1 DEF vars, TypeOK, Sent, Filling
<1>2. CASE Next
  BY <1>2, CallTyped, ProceedTyped, HandlerTyped DEF Next
<1> QED
  BY <1>1, <1>2

LEMMA InitTyped == Init => TypeOK
  BY FS_EmptySet DEF Init, TypeOK, NodeStat, Filling

\* Every field keeps its type, and what phones answer and announce is a
\* vote, whatever users and scheduler do.
THEOREM RecruitTyped == Spec => []TypeOK
  BY InitTyped, TypedStep, PTL DEF Spec

-----------------------------------------------------------------------------
(* What a step of one phone leaves to the others *)

\* What n's own record says is the whole of n's step.
OwnStep(n) ==
  /\ \A p \in Phones \ {n} :
       /\ stat'[p] = stat[p] /\ currentVote'[p] = currentVote[p] /\ joined'[p] = joined[p]
       /\ calls'[p] = calls[p] /\ draft'[p] = draft[p] /\ lookup'[p] = lookup[p]
       /\ rcvd'[p] = rcvd[p]
  /\ rcvd[n] \subseteq rcvd'[n] /\ sent \subseteq sent'
  /\ \A m \in sent' \ sent : m.type = "VoteBrief" => m.topic.starter = n
  /\ dealt \subseteq dealt' /\ \A d \in dealt' \ dealt : d.from = n

\* A step that announces, refuses and deals nothing.
Calm(n) ==
  /\ OwnStep(n)
  /\ Sent("VoteBrief")' = Sent("VoteBrief") /\ Refusals' = Refusals /\ dealt' = dealt

\* What RefusalInv asks of the phone that takes a step.
Kept(n) == Standing(n)' /\ \A t \in Topics : OutOf(n, t) => OutOf(n, t)'

LEMMA CountGrows ==
  ASSUME TypeOK, TypeOK', sent \subseteq sent'
  PROVE  Cardinality(Sent("VoteBrief")) <= Cardinality(Sent("VoteBrief"))'
<1>1. Sent("VoteBrief") \subseteq Sent("VoteBrief")'
  BY DEF Sent
<1>2. IsFiniteSet(Sent("VoteBrief")')
  <2>1. Sent("VoteBrief")' \subseteq sent' /\ IsFiniteSet(sent')
    BY DEF Sent, TypeOK
  <2> QED
    BY <2>1, FS_Subset
<1> QED
  BY <1>1, <1>2, FS_Subset

LEMMA BriefsCountedAfter ==
  TypeOK' => Cardinality(Sent("VoteBrief"))' \in Nat
<1> SUFFICES ASSUME TypeOK'
             PROVE  Cardinality(Sent("VoteBrief"))' \in Nat
  OBVIOUS
<1>1. Sent("VoteBrief")' \subseteq sent' /\ IsFiniteSet(sent')
  BY DEF Sent, TypeOK
<1> QED
  BY <1>1, FS_Subset, FS_CardinalityType

\* A vote nobody has heard of stays so when others announce theirs.
LEMMA UnannouncedStays ==
  ASSUME TypeOK, TypeOK', NEW n, OwnStep(n), NEW p, p # n, NEW t, Unannounced(p, t)
  PROVE  Unannounced(p, t)'
<1>1. InvitationTo(t) \notin sent'
  BY InvitationFields DEF OwnStep, Unannounced
<1>2. t.no \in Nat
  BY BoundsAssumption DEF Unannounced, Topics
<1>3. t.no <= Cardinality(Sent("VoteBrief"))' + 1
  BY <1>2, CountGrows, BriefsCounted, BriefsCountedAfter DEF OwnStep, Unannounced
<1>4. InvitationTo(t)' = InvitationTo(t)
  BY DEF InvitationTo, Brief
<1> QED
  BY <1>1, <1>3, <1>4 DEF Unannounced

LEMMA CalmUnannounced ==
  ASSUME Sent("VoteBrief")' = Sent("VoteBrief"), NEW p, NEW t, Unannounced(p, t)
  PROVE  Unannounced(p, t)'
<1>1. InvitationTo(t)' = InvitationTo(t)
  BY DEF InvitationTo, Brief
<1>2. InvitationTo(t) \notin sent'
  BY InvitationFields DEF Unannounced, Sent
<1> QED
  BY <1>1, <1>2 DEF Unannounced

LEMMA OthersOffered ==
  ASSUME NEW n, OwnStep(n), NEW p \in Phones, p # n, NEW t, Offered(p, t)
  PROVE  Offered(p, t)'
<1>1. InvitationTo(t)' = InvitationTo(t)
  BY DEF InvitationTo, Brief
<1> QED
  BY <1>1 DEF OwnStep, Offered

LEMMA OthersStand ==
  ASSUME TypeOK, TypeOK', NEW n, OwnStep(n), NEW p \in Phones, p # n, Standing(p)
  PROVE  Standing(p)'
<1>1. /\ stat'[p] = stat[p] /\ currentVote'[p] = currentVote[p] /\ joined'[p] = joined[p]
      /\ calls'[p] = calls[p] /\ draft'[p] = draft[p] /\ lookup'[p] = lookup[p]
      /\ rcvd'[p] = rcvd[p] /\ sent \subseteq sent'
  BY DEF OwnStep
<1>2. \A t : InvitationTo(t)' = InvitationTo(t)
  BY DEF InvitationTo, Brief
<1>3. AnnouncesItsOwn(p)'
  <2>1. \A t : Unannounced(p, t) => Unannounced(p, t)'
    BY UnannouncedStays
  <2> QED
    BY <1>1, <1>2, <2>1 DEF Standing, AnnouncesItsOwn
<1>4. OneCallAtATime(p)'
  BY <1>1 DEF Standing, OneCallAtATime
<1>5. AskedByAnother(p)'
  <2>1. \A t : Offered(p, t) => Offered(p, t)'
    BY OthersOffered
  <2> QED
    BY <1>1, <2>1 DEF Standing, AskedByAnother, Filling
<1>6. JoinsInvited(p)' /\ JoinedWasAsked(p)' /\ WasAsked(p, currentVote[p].topic)'
  BY <1>1, <1>2 DEF Standing, JoinsInvited, JoinedWasAsked, WasAsked
<1> QED
  BY <1>3, <1>4, <1>5, <1>6 DEF Standing

LEMMA OthersOut ==
  ASSUME NEW n, OwnStep(n), NEW p \in Phones, p # n, NEW t, OutOf(p, t)
  PROVE  OutOf(p, t)'
<1>1. Offered(p, t)'
  BY OthersOffered DEF OutOf
<1> QED
  BY <1>1 DEF OwnStep, OutOf

\* A calm step that keeps what is asked of its phone keeps RefusalInv.
LEMMA CalmKeeps ==
  ASSUME TypeOK, TypeOK', RefusalInv, NEW n \in Phones, Calm(n), Kept(n)
  PROVE  RefusalInv'
<1>1. \A t : InvitationTo(t)' = InvitationTo(t)
  BY DEF InvitationTo, Brief
<1>2. BriefsAreInvitations' /\ TopicsNumbered'
  BY <1>1 DEF Calm, RefusalInv, BriefsAreInvitations, TopicsNumbered
<1>3. \A p \in Phones : Standing(p)'
  BY OthersStand DEF Calm, Kept, RefusalInv
<1>4. \A p \in Phones : \A t \in Topics : OutOf(p, t) => OutOf(p, t)'
  BY OthersOut DEF Calm, Kept
<1>5. RefusedForGood'
  BY <1>4, RefusalType DEF Calm, RefusalInv, RefusedForGood
<1>6. DealersWereAsked'
  <2>1. \A d \in dealt : d.from \in Phones
    BY DEF TypeOK, Dealings
  <2>2. \A d \in dealt : rcvd[d.from] \subseteq rcvd'[d.from]
    BY <2>1 DEF Calm, OwnStep, Kept
  <2> QED
    BY <1>1, <2>2 DEF Calm, RefusalInv, DealersWereAsked, WasAsked
<1> QED
  BY <1>2, <1>3, <1>5, <1>6 DEF RefusalInv

-----------------------------------------------------------------------------
(* One phone's step, action by action *)

\* Parts of Standing that a step leaves alone when it leaves the phone's
\* vote, calls and draft alone.
SameCall(n) ==
  /\ calls'[n] = calls[n] /\ draft'[n] = draft[n] /\ joined'[n] = joined[n]
  /\ currentVote'[n].from = currentVote[n].from
  /\ currentVote'[n].topic = currentVote[n].topic

LEMMA SameCallKeeps ==
  ASSUME NEW n, Calm(n), SameCall(n), Standing(n)
  PROVE  /\ AnnouncesItsOwn(n)' /\ JoinsInvited(n)' /\ JoinedWasAsked(n)'
         /\ WasAsked(n, currentVote[n].topic)'
<1>1. \A t : InvitationTo(t)' = InvitationTo(t)
  BY DEF InvitationTo, Brief
<1>2. AnnouncesItsOwn(n)'
  <2>1. \A t : Unannounced(n, t) => Unannounced(n, t)'
    BY CalmUnannounced DEF Calm
  <2> QED
    BY <1>1, <2>1 DEF Standing, AnnouncesItsOwn, SameCall
<1> QED
  BY <1>1, <1>2 DEF Standing, Calm, OwnStep, SameCall, JoinsInvited, JoinedWasAsked, WasAsked

LEMMA CalmOffered ==
  ASSUME NEW n, Calm(n), NEW t, Offered(n, t)
  PROVE  Offered(n, t)'
<1>1. InvitationTo(t)' = InvitationTo(t)
  BY DEF InvitationTo, Brief
<1> QED
  BY <1>1 DEF Calm, OwnStep, Offered

\* A message of another type leaves the briefs alone.
LEMMA BriefsUnchanged ==
  ASSUME NEW m, sent' = sent \cup {m}, m.type # "VoteBrief"
  PROVE  Sent("VoteBrief")' = Sent("VoteBrief")
  BY DEF Sent

LEMMA RefusalsUnchanged ==
  ASSUME NEW m, sent' = sent \cup {m}, m.type = "VoteAcceptation" => m.result
  PROVE  Refusals' = Refusals
  BY DEF Sent, Refusals

LEMMA SilentStep ==
  sent' = sent => Sent("VoteBrief")' = Sent("VoteBrief") /\ Refusals' = Refusals
  BY DEF Sent, Refusals

LEMMA CreateNewVoteKeeps ==
  ASSUME TypeOK, TypeOK', RefusalInv, NEW n \in Phones, CreateNewVote(n)
  PROVE  RefusalInv'
<1>1. Standing(n)
  BY DEF RefusalInv
<1>2. /\ calls[n] = {} /\ UNCHANGED <<stat, joined, calls, draft, lookup, sent, rcvd, dealt>>
      /\ \/ currentVote' = currentVote
         \/ /\ stat[n] = "Inited" /\ currentVote'[n].topic = NoVote
            /\ \A p \in Phones \ {n} : currentVote'[p] = currentVote[p]
  BY DEF CreateNewVote, MayCreate, TypeOK
<1>3. Calm(n)
  BY <1>2, SilentStep DEF Calm, OwnStep
<1>4. \A t : InvitationTo(t)' = InvitationTo(t)
  BY DEF InvitationTo, Brief
<1>5. Standing(n)'
  <2>1. AnnouncesItsOwn(n)' /\ OneCallAtATime(n)' /\ JoinsInvited(n)' /\ JoinedWasAsked(n)'
    BY <1>1, <1>2, <1>4 DEF Standing, AnnouncesItsOwn, OneCallAtATime, JoinsInvited, JoinedWasAsked
  <2>2. AskedByAnother(n)'
    BY <1>1, <1>2, <1>3, CalmOffered DEF Standing, AskedByAnother, Filling
  <2>3. WasAsked(n, currentVote[n].topic)'
    BY <1>1, <1>2, <1>4 DEF Standing, WasAsked
  <2> QED
    BY <2>1, <2>2, <2>3 DEF Standing
<1>6. \A t \in Topics : OutOf(n, t) => OutOf(n, t)'
  BY <1>2, <1>3, CalmOffered, PhonesAssumption DEF OutOf
<1> QED
  BY <1>3, <1>5, <1>6, CalmKeeps DEF Kept

\* The number SendBrief takes is that of no vote announced or joined.
LEMMA SendBriefKeeps ==
  ASSUME TypeOK, TypeOK', RefusalInv, NEW n \in Phones, SendBrief(n)
  PROVE  RefusalInv'
<1> DEFINE k == Cardinality(Sent("VoteBrief")) + 1
           t0 == [starter |-> n, no |-> k]
<1>1. Standing(n)
  BY DEF RefusalInv
<1>2. /\ calls[n] = {} /\ calls' = [calls EXCEPT ![n] = {"Generate"}]
      /\ currentVote' = [currentVote EXCEPT ![n] =
           [from |-> n, topic |-> t0, parties |-> currentVote[n].parties]]
      /\ k + Cardinality({p \in Phones : Announcing(p)}) <= MaxBriefs
      /\ UNCHANGED <<stat, joined, draft, lookup, sent, rcvd, dealt>>
  BY DEF SendBrief, Then
<1>3. k \in 1..MaxBriefs
  BY <1>2, BriefsCounted, AnnouncersCounted, BoundsAssumption
<1>4. t0 \in Topics /\ t0.starter = n /\ t0.no = k
  BY <1>3 DEF Topics
<1>5. InvitationTo(t0) \notin sent
  <2>1. \A m \in Sent("VoteBrief") : m.topic.no < k
    <3>1. \A m \in Sent("VoteBrief") : m.topic.no <= Cardinality(Sent("VoteBrief"))
      BY DEF RefusalInv, TopicsNumbered
    <3>2. \A m \in Sent("VoteBrief") : m.topic.no \in Nat
      BY BoundsAssumption DEF Sent, TypeOK, Topics
    <3> QED
      BY <3>1, <3>2, BriefsCounted
  <2>2. k \in Nat
    BY <1>3
  <2> QED
    BY <1>4, <2>1, <2>2, InvitationFields DEF Sent
<1>6. draft[n] = {}
  BY <1>1, <1>2 DEF Standing, AnnouncesItsOwn
<1>7. t0 \notin joined[n]
  BY <1>1, <1>4, <1>5, <1>6 DEF Standing, JoinedWasAsked
<1>8. Unannounced(n, t0)
  BY <1>3, <1>4, <1>5 DEF Unannounced
<1> HIDE DEF t0, k
<1>9. /\ currentVote'[n] = [from |-> n, topic |-> t0, parties |-> currentVote[n].parties]
      /\ calls'[n] = {"Generate"}
      /\ \A p \in Phones \ {n} : currentVote'[p] = currentVote[p] /\ calls'[p] = calls[p]
  BY <1>2 DEF TypeOK
<1>10. Calm(n)
  BY <1>2, <1>9, SilentStep DEF Calm, OwnStep
<1>11. \A t : InvitationTo(t)' = InvitationTo(t)
  BY DEF InvitationTo, Brief
<1>12. Standing(n)'
  <2>1. AnnouncesItsOwn(n)'
    <3>1. PICK t : t = t0
      OBVIOUS
    <3>2. Unannounced(n, t)'
      BY <1>8, <1>10, <3>1, CalmUnannounced DEF Calm
    <3> QED
      BY <1>2, <1>6, <1>7, <1>9, <3>1, <3>2 DEF AnnouncesItsOwn
  <2>2. OneCallAtATime(n)'
    BY <1>1, <1>2, <1>9 DEF Standing, OneCallAtATime, Steps
  <2>3. AskedByAnother(n)' /\ JoinsInvited(n)'
    BY <1>9 DEF AskedByAnother, JoinsInvited, Filling
  <2>4. JoinedWasAsked(n)' /\ WasAsked(n, currentVote[n].topic)'
    BY <1>1, <1>2, <1>4, <1>9, <1>11 DEF Standing, JoinedWasAsked, WasAsked
  <2> QED
    BY <2>1, <2>2, <2>3, <2>4 DEF Standing
<1>13. \A t \in Topics : OutOf(n, t) => OutOf(n, t)'
  BY <1>2, <1>4, <1>9, <1>10, CalmOffered DEF OutOf, Offered
<1> QED
  BY <1>10, <1>12, <1>13, CalmKeeps DEF Kept

LEMMA GenVoteBriefKeeps ==
  ASSUME TypeOK, TypeOK', RefusalInv, NEW n \in Phones, GenVoteBrief(n)
  PROVE  RefusalInv'
<1> DEFINE t0 == currentVote[n].topic
<1>1. Standing(n)
  BY DEF RefusalInv
<1>2. /\ calls[n] = {"Generate"} /\ calls' = [calls EXCEPT ![n] = {"Join"}]
      /\ draft' = [draft EXCEPT ![n] = {Brief(n, currentVote[n])}]
      /\ UNCHANGED <<stat, currentVote, composing, joined, lookup, sent, rcvd, dealt>>
  BY <1>1 DEF GenVoteBrief, Then, Standing, OneCallAtATime
<1>3. /\ currentVote[n].from = n /\ Unannounced(n, t0) /\ t0 \notin joined[n]
      /\ draft[n] = {}
  BY <1>1, <1>2 DEF Standing, AnnouncesItsOwn
<1>4. Brief(n, currentVote[n]) = InvitationTo(t0)
  BY <1>3 DEF InvitationTo, Brief, Unannounced
<1>5. /\ calls'[n] = {"Join"} /\ draft'[n] = {InvitationTo(t0)}
      /\ \A p \in Phones \ {n} : draft'[p] = draft[p] /\ calls'[p] = calls[p]
  BY <1>2, <1>4 DEF TypeOK
<1>6. Calm(n)
  BY <1>2, <1>5, SilentStep DEF Calm, OwnStep
<1>7. \A t : InvitationTo(t)' = InvitationTo(t)
  BY DEF InvitationTo, Brief
<1>8. Standing(n)'
  <2>1. AnnouncesItsOwn(n)'
    <3>1. PICK t : t = t0
      OBVIOUS
    <3>2. Unannounced(n, t)' /\ t \in Topics
      BY <1>3, <1>6, <3>1, CalmUnannounced DEF Calm, Unannounced
    <3> QED
      BY <1>2, <1>5, <1>7, <3>1, <3>2 DEF AnnouncesItsOwn
  <2>2. OneCallAtATime(n)'
    BY <1>1, <1>2, <1>5 DEF Standing, OneCallAtATime, Steps
  <2>3. AskedByAnother(n)' /\ JoinsInvited(n)'
    BY <1>2, <1>3, <1>5, <1>7 DEF AskedByAnother, JoinsInvited, Filling, Unannounced
  <2>4. JoinedWasAsked(n)' /\ WasAsked(n, currentVote[n].topic)'
    BY <1>1, <1>2, <1>3, <1>7 DEF Standing, JoinedWasAsked, WasAsked
  <2> QED
    BY <2>1, <2>2, <2>3, <2>4 DEF Standing
<1>9. \A t \in Topics : OutOf(n, t) => OutOf(n, t)'
  BY <1>2, <1>5, <1>6, CalmOffered DEF OutOf
<1> QED
  BY <1>6, <1>8, <1>9, CalmKeeps DEF Kept

LEMMA JoinVoteKeeps ==
  ASSUME TypeOK, TypeOK', RefusalInv, NEW n \in Phones, JoinVote(n)
  PROVE  RefusalInv'
<1> DEFINE t0 == currentVote[n].topic
<1>1. Standing(n)
  BY DEF RefusalInv
<1>2. /\ calls[n] = {"Join"} /\ calls' = [calls EXCEPT ![n] = {"Store"}]
      /\ joined' = [joined EXCEPT ![n] = joined[n] \cup {t0}]
      /\ UNCHANGED <<stat, currentVote, composing, draft, lookup, sent, rcvd, dealt>>
  BY <1>1 DEF JoinVote, Join, Then, Standing, OneCallAtATime
<1>3. /\ calls'[n] = {"Store"} /\ joined'[n] = joined[n] \cup {t0}
      /\ \A p \in Phones \ {n} : joined'[p] = joined[p] /\ calls'[p] = calls[p]
  BY <1>2 DEF TypeOK
<1>4. Calm(n)
  BY <1>2, <1>3, SilentStep DEF Calm, OwnStep
<1>5. \A t : InvitationTo(t)' = InvitationTo(t)
  BY DEF InvitationTo, Brief
<1>6. Standing(n)'
  <2>1. AnnouncesItsOwn(n)'
    <3>1. PICK t \in Topics : draft[n] = {InvitationTo(t)} /\ Unannounced(n, t)
      BY <1>1, <1>2 DEF Standing, AnnouncesItsOwn
    <3>2. Unannounced(n, t)'
      BY <1>4, <3>1, CalmUnannounced DEF Calm
    <3> QED
      BY <1>2, <1>3, <1>5, <3>1, <3>2 DEF AnnouncesItsOwn
  <2>2. OneCallAtATime(n)'
    BY <1>1, <1>2, <1>3 DEF Standing, OneCallAtATime, Steps
  <2>3. AskedByAnother(n)' /\ JoinsInvited(n)'
    BY <1>1, <1>2, <1>3, <1>5 DEF Standing, AskedByAnother, JoinsInvited, Filling
  <2>4. JoinedWasAsked(n)' /\ WasAsked(n, currentVote[n].topic)'
    BY <1>1, <1>2, <1>3, <1>5 DEF Standing, JoinsInvited, JoinedWasAsked, WasAsked
  <2> QED
    BY <2>1, <2>2, <2>3, <2>4 DEF Standing
<1>7. \A t \in Topics : OutOf(n, t) => OutOf(n, t)'
  BY <1>2, <1>3, <1>4, CalmOffered DEF OutOf
<1> QED
  BY <1>4, <1>6, <1>7, CalmKeeps DEF Kept

LEMMA StoreConfirmedKeeps ==
  ASSUME TypeOK, TypeOK', RefusalInv, NEW n \in Phones, StoreConfirmed(n)
  PROVE  RefusalInv'
<1>1. Standing(n)
  BY DEF RefusalInv
<1>2. /\ calls[n] = {"Store"} /\ calls' = [calls EXCEPT ![n] = {"Announce"}]
      /\ currentVote' = [currentVote EXCEPT ![n].parties = @ + 1]
      /\ stat' = [stat EXCEPT ![n] = "Confirmed"]
      /\ UNCHANGED <<composing, joined, draft, lookup, sent, rcvd, dealt>>
  BY <1>1 DEF StoreConfirmed, Become, Then, Standing, OneCallAtATime
<1>3. /\ calls'[n] = {"Announce"} /\ stat'[n] = "Confirmed"
      /\ currentVote'[n].topic = currentVote[n].topic
      /\ \A p \in Phones \ {n} : /\ stat'[p] = stat[p] /\ calls'[p] = calls[p]
                                 /\ currentVote'[p] = currentVote[p]
  BY <1>2 DEF TypeOK
<1>4. Calm(n)
  BY <1>2, <1>3, SilentStep DEF Calm, OwnStep
<1>5. \A t : InvitationTo(t)' = InvitationTo(t)
  BY DEF InvitationTo, Brief
<1>6. Standing(n)'
  <2>1. AnnouncesItsOwn(n)'
    <3>1. PICK t \in Topics : draft[n] = {InvitationTo(t)} /\ Unannounced(n, t)
      BY <1>1, <1>2 DEF Standing, AnnouncesItsOwn
    <3>2. Unannounced(n, t)'
      BY <1>4, <3>1, CalmUnannounced DEF Calm
    <3> QED
      BY <1>2, <1>3, <1>5, <3>1, <3>2 DEF AnnouncesItsOwn
  <2>2. OneCallAtATime(n)' /\ AskedByAnother(n)' /\ JoinsInvited(n)'
    BY <1>3 DEF OneCallAtATime, Steps, AskedByAnother, JoinsInvited
  <2>3. JoinedWasAsked(n)' /\ WasAsked(n, currentVote[n].topic)'
    BY <1>1, <1>2, <1>3, <1>5 DEF Standing, JoinedWasAsked, WasAsked
  <2> QED
    BY <2>1, <2>2, <2>3 DEF Standing
<1>7. \A t \in Topics : OutOf(n, t) => OutOf(n, t)'
  BY <1>2, <1>3, <1>4, CalmOffered DEF OutOf
<1> QED
  BY <1>4, <1>6, <1>7, CalmKeeps DEF Kept

\* Announce is where others hear of the vote: the one step that sends a brief.
LEMMA AnnounceKeeps ==
  ASSUME TypeOK, TypeOK', RefusalInv, NEW n \in Phones, Announce(n)
  PROVE  RefusalInv'
<1>1. Standing(n)
  BY DEF RefusalInv
<1>2. /\ calls[n] = {"Announce"} /\ sent' = sent \cup draft[n]
      /\ draft' = [draft EXCEPT ![n] = {}]
      /\ UNCHANGED <<stat, currentVote, composing, joined, lookup, rcvd, dealt>>
  BY <1>1 DEF Announce, Standing, OneCallAtATime
<1>3. /\ calls'[n] \in {{}, {"EarlyStart"}}
      /\ \A p \in Phones \ {n} : calls'[p] = calls[p]
  BY DEF Announce, Then, TypeOK
<1>4. PICK t0 \in Topics : draft[n] = {InvitationTo(t0)} /\ Unannounced(n, t0)
  BY <1>1, <1>2 DEF Standing, AnnouncesItsOwn
<1>5. t0.starter = n /\ InvitationTo(t0) \notin sent
  BY <1>4 DEF Unannounced
<1>6. draft'[n] = {} /\ \A p \in Phones \ {n} : draft'[p] = draft[p]
  BY <1>2 DEF TypeOK
<1>7. OwnStep(n)
  BY <1>2, <1>3, <1>4, <1>5, <1>6, InvitationFields DEF OwnStep
<1>8. \A t : InvitationTo(t)' = InvitationTo(t)
  BY DEF InvitationTo, Brief
<1>9. Sent("VoteBrief")' = Sent("VoteBrief") \cup {InvitationTo(t0)}
  BY <1>2, <1>4, InvitationFields DEF Sent
<1>10. Standing(n)'
  <2>1. AnnouncesItsOwn(n)' /\ OneCallAtATime(n)' /\ JoinsInvited(n)'
    BY <1>1, <1>2, <1>3, <1>6 DEF Standing, AnnouncesItsOwn, OneCallAtATime, JoinsInvited, Steps
  <2>2. AskedByAnother(n)'
    BY <1>1, <1>2, <1>3, <1>8 DEF Standing, AskedByAnother, Filling, Offered
  <2>3. JoinedWasAsked(n)' /\ WasAsked(n, currentVote[n].topic)'
    BY <1>1, <1>2, <1>6, <1>8 DEF Standing, JoinedWasAsked, WasAsked
  <2> QED
    BY <2>1, <2>2, <2>3 DEF Standing
<1>11. \A t \in Topics : OutOf(n, t) => OutOf(n, t)'
  BY <1>2, <1>8 DEF OutOf, Offered
<1>12. BriefsAreInvitations'
  BY <1>8, <1>9, InvitationFields DEF RefusalInv, BriefsAreInvitations
<1>13. TopicsNumbered'
  <2>1. Cardinality(Sent("VoteBrief"))' = Cardinality(Sent("VoteBrief")) + 1
    <3>1. InvitationTo(t0) \notin Sent("VoteBrief")
      BY <1>5 DEF Sent
    <3> QED
      BY <1>9, <3>1, BriefsCounted, FS_AddElement
  <2>2. t0.no \in Nat /\ t0.no <= Cardinality(Sent("VoteBrief")) + 1
    BY <1>4, BoundsAssumption DEF Unannounced, Topics
  <2>3. \A m \in Sent("VoteBrief") : m.topic.no \in Nat
    BY BoundsAssumption DEF Sent, TypeOK, Topics
  <2>4. \A m \in Sent("VoteBrief") : m.topic.no <= Cardinality(Sent("VoteBrief"))
    BY DEF RefusalInv, TopicsNumbered
  <2>5. \A m \in Sent("VoteBrief")' : m.topic.no <= Cardinality(Sent("VoteBrief")) + 1
    BY <1>9, <2>2, <2>3, <2>4, BriefsCounted, InvitationFields
  <2> QED
    BY <2>1, <2>5 DEF TopicsNumbered
<1>14. DealersWereAsked'
  BY <1>2, <1>8 DEF RefusalInv, DealersWereAsked, WasAsked
<1>15. Refusals' = Refusals
  BY <1>2, <1>4, InvitationFields DEF Refusals, Sent
<1>16. RefusedForGood'
  <2>1. \A p \in Phones : \A t \in Topics : OutOf(p, t) => OutOf(p, t)'
    BY <1>7, <1>11, OthersOut
  <2> QED
    BY <1>15, <2>1, RefusalType DEF RefusalInv, RefusedForGood
<1>17. \A p \in Phones : Standing(p)'
  BY <1>7, <1>10, OthersStand DEF RefusalInv
<1> QED
  BY <1>12, <1>13, <1>14, <1>16, <1>17 DEF RefusalInv

LEMMA EarlyStartKeeps ==
  ASSUME TypeOK, TypeOK', RefusalInv, NEW n \in Phones, EarlyStart(n)
  PROVE  RefusalInv'
<1> DEFINE m == Params(currentVote[n], EarlyThreshold(n), FindPeers(currentVote[n].topic), 0)
<1>1. Standing(n)
  BY DEF RefusalInv
<1>2. /\ calls[n] = {"EarlyStart"} /\ sent' = sent \cup {m}
      /\ calls' = [calls EXCEPT ![n] = {"InRound"}]
      /\ UNCHANGED <<stat, currentVote, composing, joined, draft, lookup, rcvd, dealt>>
  BY <1>1 DEF EarlyStart, Send, Then, Standing, OneCallAtATime
<1>3. m.type = "VoteParams"
  BY MessageKinds
<1> HIDE DEF m
<1>4. /\ calls'[n] = {"InRound"} /\ \A p \in Phones \ {n} : calls'[p] = calls[p]
  BY <1>2 DEF TypeOK
<1>5. Calm(n)
  <2>1. Sent("VoteBrief")' = Sent("VoteBrief") /\ Refusals' = Refusals
    BY <1>2, <1>3, BriefsUnchanged, RefusalsUnchanged
  <2> QED
    BY <1>2, <1>3, <1>4, <2>1 DEF Calm, OwnStep
<1>6. \A t : InvitationTo(t)' = InvitationTo(t)
  BY DEF InvitationTo, Brief
<1>7. Standing(n)'
  <2>1. AnnouncesItsOwn(n)' /\ OneCallAtATime(n)' /\ JoinsInvited(n)'
    BY <1>1, <1>2, <1>4 DEF Standing, AnnouncesItsOwn, OneCallAtATime, JoinsInvited, Steps
  <2>2. AskedByAnother(n)'
    BY <1>1, <1>2, <1>4, <1>6 DEF Standing, AskedByAnother, Filling, Offered
  <2>3. JoinedWasAsked(n)' /\ WasAsked(n, currentVote[n].topic)'
    BY <1>1, <1>2, <1>6 DEF Standing, JoinedWasAsked, WasAsked
  <2> QED
    BY <2>1, <2>2, <2>3 DEF Standing
<1>8. \A t \in Topics : OutOf(n, t) => OutOf(n, t)'
  BY <1>2, <1>5, CalmOffered DEF OutOf
<1> QED
  BY <1>5, <1>7, <1>8, CalmKeeps DEF Kept

LEMMA ConfirmNewVoteKeeps ==
  ASSUME TypeOK, TypeOK', RefusalInv, NEW n \in Phones, ConfirmNewVote(n)
  PROVE  RefusalInv'
<1> DEFINE m  == Accept(n, currentVote[n], TRUE)
           t0 == currentVote[n].topic
<1>1. Standing(n)
  BY DEF RefusalInv
<1>2. /\ stat[n] = "GotNewVote" /\ calls[n] = {} /\ sent' = sent \cup {m}
      /\ joined' = [joined EXCEPT ![n] = joined[n] \cup {t0}]
      /\ calls' = [calls EXCEPT ![n] = {"Confirmed"}]
      /\ UNCHANGED <<stat, currentVote, composing, draft, lookup, rcvd, dealt>>
  BY DEF ConfirmNewVote, MayConfirm, Join, Send, Then
<1>3. m.type = "VoteAcceptation" /\ m.result
  BY DEF Accept
<1> HIDE DEF m
<1>4. /\ calls'[n] = {"Confirmed"} /\ joined'[n] = joined[n] \cup {t0}
      /\ \A p \in Phones \ {n} : calls'[p] = calls[p] /\ joined'[p] = joined[p]
  BY <1>2 DEF TypeOK
<1>5. Calm(n)
  <2>1. Sent("VoteBrief")' = Sent("VoteBrief") /\ Refusals' = Refusals
    BY <1>2, <1>3, BriefsUnchanged, RefusalsUnchanged
  <2> QED
    BY <1>2, <1>3, <1>4, <2>1 DEF Calm, OwnStep
<1>6. \A t : InvitationTo(t)' = InvitationTo(t)
  BY DEF InvitationTo, Brief
<1>7. Offered(n, t0)
  BY <1>1, <1>2 DEF Standing, AskedByAnother, Filling
<1>8. Standing(n)'
  <2>1. AnnouncesItsOwn(n)' /\ OneCallAtATime(n)' /\ JoinsInvited(n)'
    BY <1>1, <1>2, <1>4 DEF Standing, AnnouncesItsOwn, OneCallAtATime, JoinsInvited, Steps
  <2>2. AskedByAnother(n)'
    BY <1>2, <1>4, <1>6, <1>7 DEF AskedByAnother, Offered
  <2>3. JoinedWasAsked(n)' /\ WasAsked(n, currentVote[n].topic)'
    BY <1>1, <1>2, <1>4, <1>6, <1>7 DEF Standing, JoinedWasAsked, WasAsked, Offered
  <2> QED
    BY <2>1, <2>2, <2>3 DEF Standing
<1>9. \A t \in Topics : OutOf(n, t) => OutOf(n, t)'
  BY <1>2, <1>4, <1>5, CalmOffered DEF OutOf
<1> QED
  BY <1>5, <1>8, <1>9, CalmKeeps DEF Kept

\* The one step that sends a refusal: the phone is out of the vote from then on.
LEMMA RefuseNewVoteKeeps ==
  ASSUME TypeOK, TypeOK', RefusalInv, NEW n \in Phones, RefuseNewVote(n)
  PROVE  RefusalInv'
<1> DEFINE m  == Accept(n, currentVote[n], FALSE)
           t0 == currentVote[n].topic
<1>1. Standing(n)
  BY DEF RefusalInv
<1>2. /\ stat[n] = "GotNewVote" /\ calls[n] = {} /\ sent' = sent \cup {m}
      /\ calls' = [calls EXCEPT ![n] = {"Inited"}]
      /\ UNCHANGED <<stat, currentVote, composing, joined, draft, lookup, rcvd, dealt>>
  BY DEF RefuseNewVote, AfterRefusal, Send, Then
<1>3. m.type = "VoteAcceptation" /\ m.from = n /\ m.topic = t0
  BY DEF Accept
<1> HIDE DEF m
<1>4. calls'[n] = {"Inited"} /\ \A p \in Phones \ {n} : calls'[p] = calls[p]
  BY <1>2 DEF TypeOK
<1>5. OwnStep(n)
  BY <1>2, <1>3, <1>4 DEF OwnStep
<1>6. \A t : InvitationTo(t)' = InvitationTo(t)
  BY DEF InvitationTo, Brief
<1>7. Offered(n, t0) /\ t0 \notin joined[n]
  BY <1>1, <1>2 DEF Standing, AskedByAnother, Filling
<1>8. Standing(n)'
  <2>1. AnnouncesItsOwn(n)' /\ OneCallAtATime(n)' /\ JoinsInvited(n)'
    BY <1>1, <1>2, <1>4 DEF Standing, AnnouncesItsOwn, OneCallAtATime, JoinsInvited, Steps
  <2>2. AskedByAnother(n)'
    BY <1>2, <1>4, <1>6, <1>7 DEF AskedByAnother, Offered
  <2>3. JoinedWasAsked(n)' /\ WasAsked(n, currentVote[n].topic)'
    BY <1>1, <1>2, <1>6 DEF Standing, JoinedWasAsked, WasAsked
  <2> QED
    BY <2>1, <2>2, <2>3 DEF Standing
<1>9. \A t \in Topics : OutOf(n, t) => OutOf(n, t)'
  BY <1>2, <1>6 DEF OutOf, Offered
<1>10. Sent("VoteBrief")' = Sent("VoteBrief")
  BY <1>2, <1>3, BriefsUnchanged
<1>11. BriefsAreInvitations' /\ TopicsNumbered'
  BY <1>6, <1>10 DEF RefusalInv, BriefsAreInvitations, TopicsNumbered
<1>12. DealersWereAsked'
  BY <1>2, <1>6 DEF RefusalInv, DealersWereAsked, WasAsked
<1>13. RefusedForGood'
  <2>1. \A p \in Phones : \A t \in Topics : OutOf(p, t) => OutOf(p, t)'
    BY <1>5, <1>9, OthersOut
  <2>2. Refusals' \subseteq Refusals \cup {m}
    BY <1>2 DEF Refusals, Sent
  <2>3. OutOf(n, t0)'
    BY <1>2, <1>4, <1>6, <1>7 DEF OutOf, Offered
  <2>4. \A x \in Refusals : OutOf(x.from, x.topic)'
    BY <2>1, RefusalType DEF RefusalInv, RefusedForGood
  <2>5. t0' = t0
    BY <1>2
  <2>6. OutOf(n, m.topic)' /\ m' = m
    BY <1>2, <1>3, <2>3, <2>5 DEF m, Accept
  <2> QED
    BY <1>3, <2>2, <2>4, <2>6 DEF RefusedForGood
<1>14. \A p \in Phones : Standing(p)'
  BY <1>5, <1>8, OthersStand DEF RefusalInv
<1> QED
  BY <1>11, <1>12, <1>13, <1>14 DEF RefusalInv

LEMMA ReturnKeeps ==
  ASSUME TypeOK, TypeOK', RefusalInv, NEW n \in Phones, Return(n)
  PROVE  RefusalInv'
<1>1. Standing(n)
  BY DEF RefusalInv
<1>2. PICK s \in calls[n] \cap NodeStat :
        /\ calls' = [calls EXCEPT ![n] = {}] /\ stat' = [stat EXCEPT ![n] = s]
        /\ UNCHANGED <<currentVote, composing, joined, draft, lookup, sent, rcvd, dealt>>
  BY DEF Return, Then, Become
<1>3. calls[n] = {s} /\ s \in {"Confirmed", "Inited", "InRound"}
  BY <1>1, <1>2 DEF Standing, OneCallAtATime, Steps, NodeStat
<1>4. /\ calls'[n] = {} /\ stat'[n] = s
      /\ \A p \in Phones \ {n} : calls'[p] = calls[p] /\ stat'[p] = stat[p]
  BY <1>2 DEF TypeOK
<1>5. Calm(n)
  BY <1>2, <1>4, SilentStep DEF Calm, OwnStep
<1>6. \A t : InvitationTo(t)' = InvitationTo(t)
  BY DEF InvitationTo, Brief
<1>7. Standing(n)'
  <2>1. AnnouncesItsOwn(n)' /\ OneCallAtATime(n)' /\ JoinsInvited(n)' /\ AskedByAnother(n)'
    BY <1>1, <1>2, <1>3, <1>4
       DEF Standing, AnnouncesItsOwn, OneCallAtATime, JoinsInvited, AskedByAnother
  <2>2. JoinedWasAsked(n)' /\ WasAsked(n, currentVote[n].topic)'
    BY <1>1, <1>2, <1>6 DEF Standing, JoinedWasAsked, WasAsked
  <2> QED
    BY <2>1, <2>2 DEF Standing
<1>8. \A t \in Topics : OutOf(n, t) => OutOf(n, t)'
  <2>1. calls[n] = {"Inited"} /\ stat[n] = "GotNewVote" => lookup[n] = {} /\ s = "Inited"
    BY <1>1, <1>3 DEF Standing, OneCallAtATime
  <2> QED
    BY <1>2, <1>3, <1>4, <1>5, <2>1, CalmOffered DEF OutOf
<1> QED
  BY <1>5, <1>7, <1>8, CalmKeeps DEF Kept

LEMMA BeginVoteKeeps ==
  ASSUME TypeOK, TypeOK', RefusalInv, NEW n \in Phones, BeginVote(n)
  PROVE  RefusalInv'
<1>1. Standing(n)
  BY DEF RefusalInv
<1>2. PICK m : sent' = sent \cup {m} /\ m.type = "VoteParams"
  <2> DEFINE k == Cardinality({m \in Sent("VoteParams") : m.topic = currentVote[n].topic}) + 1
             m == Params(currentVote[n], Threshold(currentVote[n].parties),
                         FindPeers(currentVote[n].topic), k)
  <2>1. sent' = sent \cup {m}
    BY DEF BeginVote, Send
  <2>2. m.type = "VoteParams"
    BY MessageKinds
  <2> HIDE DEF m
  <2> QED
    BY <2>1, <2>2
<1>3. UNCHANGED <<stat, currentVote, composing, joined, calls, draft, lookup, rcvd, dealt>>
  BY DEF BeginVote
<1>4. Calm(n)
  <2>1. Sent("VoteBrief")' = Sent("VoteBrief") /\ Refusals' = Refusals
    BY <1>2, BriefsUnchanged, RefusalsUnchanged
  <2> QED
    BY <1>2, <1>3, <2>1 DEF Calm, OwnStep
<1>5. Standing(n)'
  <2>1. OneCallAtATime(n)' /\ AskedByAnother(n)'
    BY <1>1, <1>3, <1>4, CalmOffered DEF Standing, OneCallAtATime, AskedByAnother, Filling
  <2> QED
    BY <1>1, <1>3, <1>4, <2>1, SameCallKeeps DEF Standing, SameCall
<1>6. \A t \in Topics : OutOf(n, t) => OutOf(n, t)'
  BY <1>3, <1>4, CalmOffered DEF OutOf
<1> QED
  BY <1>4, <1>5, <1>6, CalmKeeps DEF Kept

LEMMA CancelVoteKeeps ==
  ASSUME TypeOK, TypeOK', RefusalInv, NEW n \in Phones, CancelVote(n)
  PROVE  RefusalInv'
<1>1. Standing(n)
  BY DEF RefusalInv
<1>2. /\ stat[n] = "Confirmed" /\ calls[n] = {} /\ stat'[n] = "Inited"
      /\ \A p \in Phones \ {n} : stat'[p] = stat[p]
      /\ UNCHANGED <<currentVote, composing, joined, calls, draft, lookup, sent, rcvd, dealt>>
  BY DEF CancelVote, Become, TypeOK
<1>3. Calm(n)
  BY <1>2, SilentStep DEF Calm, OwnStep
<1>4. Standing(n)'
  <2>1. OneCallAtATime(n)' /\ AskedByAnother(n)'
    BY <1>1, <1>2 DEF Standing, OneCallAtATime, AskedByAnother
  <2> QED
    BY <1>1, <1>2, <1>3, <2>1, SameCallKeeps DEF Standing, SameCall
<1>5. \A t \in Topics : OutOf(n, t) => OutOf(n, t)'
  BY <1>2, <1>3, CalmOffered DEF OutOf
<1> QED
  BY <1>3, <1>4, <1>5, CalmKeeps DEF Kept

\* A brief reaches a phone once, so the vote it brings is new to the phone.
LEMMA HandleVoteBriefKeeps ==
  ASSUME TypeOK, TypeOK', RefusalInv, "torn" \notin Slips,
         NEW n \in Phones, HandleVoteBrief(n)
  PROVE  RefusalInv'
<1>1. Standing(n)
  BY DEF RefusalInv
<1>2. PICK m \in Arriving(n, "VoteBrief") :
        /\ Take(n, m) /\ Invited(n, m)
        /\ currentVote' = [currentVote EXCEPT ![n] =
             [from |-> m.from, topic |-> m.topic, parties |-> 0]]
        /\ stat' = [stat EXCEPT ![n] = "GotNewVote"]
        /\ UNCHANGED <<composing, joined, calls, draft, lookup, sent, dealt>>
  BY Zenon DEF HandleVoteBrief, Become
<1>3. /\ m \in Sent("VoteBrief") /\ m \notin rcvd[n] /\ m.from # n /\ m.topic \in Topics
      /\ stat[n] = "Inited" /\ lookup[n] = {} /\ "Generate" \notin calls[n]
  BY <1>2 DEF Arriving, Invited, Take, Sent, TypeOK
<1>4. m = InvitationTo(m.topic) /\ m.topic.starter # n
  BY <1>3, InvitationFields DEF RefusalInv, BriefsAreInvitations
<1>5. /\ stat'[n] = "GotNewVote" /\ currentVote'[n].topic = m.topic
      /\ rcvd'[n] = rcvd[n] \cup {m}
      /\ \A p \in Phones \ {n} : /\ stat'[p] = stat[p] /\ rcvd'[p] = rcvd[p]
                                 /\ currentVote'[p] = currentVote[p]
  BY <1>2 DEF Take, TypeOK
<1>6. Calm(n)
  BY <1>2, <1>5, SilentStep DEF Calm, OwnStep
<1>7. \A t : InvitationTo(t)' = InvitationTo(t)
  BY DEF InvitationTo, Brief
<1>8. Offered(n, m.topic)' /\ m.topic \notin joined[n]
  <2>1. \A d \in dealt : d.from = n => d.topic # m.topic
    BY <1>3, <1>4, PhonesAssumption DEF RefusalInv, DealersWereAsked, WasAsked
  <2>2. m.topic \notin joined[n]
    BY <1>1, <1>3, <1>4 DEF Standing, JoinedWasAsked
  <2> QED
    BY <1>2, <1>3, <1>4, <1>5, <1>7, <2>1, <2>2 DEF Offered
<1>9. calls[n] \notin {{"Confirmed"}, {"Inited"}}
  BY <1>1, <1>3 DEF Standing, OneCallAtATime
<1>10. Standing(n)'
  <2>1. AnnouncesItsOwn(n)'
    <3>1. \A t : Unannounced(n, t) => Unannounced(n, t)'
      BY <1>6, CalmUnannounced DEF Calm
    <3> QED
      BY <1>1, <1>2, <1>3, <1>7, <3>1 DEF Standing, AnnouncesItsOwn
  <2>2. OneCallAtATime(n)'
    BY <1>1, <1>2, <1>3, <1>9 DEF Standing, OneCallAtATime
  <2>3. AskedByAnother(n)'
    <3>1. Offered(n, currentVote[n].topic)'
      BY <1>5, <1>8 DEF Offered
    <3> QED
      BY <1>2, <1>5, <1>8, <3>1 DEF AskedByAnother
  <2>4. JoinsInvited(n)'
    BY <1>2, <1>4, <1>5, <1>7, <1>8 DEF JoinsInvited
  <2>5. JoinedWasAsked(n)' /\ WasAsked(n, currentVote[n].topic)'
    BY <1>1, <1>2, <1>4, <1>5, <1>7 DEF Standing, JoinedWasAsked, WasAsked
  <2> QED
    BY <2>1, <2>2, <2>3, <2>4, <2>5 DEF Standing
<1>11. \A t \in Topics : OutOf(n, t) => OutOf(n, t)'
  <2> SUFFICES ASSUME NEW t \in Topics, OutOf(n, t)
               PROVE  OutOf(n, t)'
    OBVIOUS
  <2>1. t # m.topic
    BY <1>3, <1>4 DEF OutOf, Offered
  <2> QED
    BY <1>2, <1>5, <1>6, <2>1, CalmOffered DEF OutOf
<1> QED
  BY <1>6, <1>10, <1>11, CalmKeeps DEF Kept

LEMMA HandleVoteAcceptKeeps ==
  ASSUME TypeOK, TypeOK', RefusalInv, NEW n \in Phones, HandleVoteAccept(n)
  PROVE  RefusalInv'
<1>1. Standing(n)
  BY DEF RefusalInv
<1>2. PICK m \in Arriving(n, "VoteAcceptation") :
        /\ Take(n, m) /\ stat[n] = "Confirmed"
        /\ currentVote' = [currentVote EXCEPT ![n].parties = PlusOne(@)]
        /\ UNCHANGED <<stat, composing, joined, calls, draft, lookup, sent, dealt>>
  BY Zenon DEF HandleVoteAccept
<1>3. /\ currentVote'[n].topic = currentVote[n].topic
      /\ currentVote'[n].from = currentVote[n].from
      /\ rcvd[n] \subseteq rcvd'[n]
      /\ \A p \in Phones \ {n} : rcvd'[p] = rcvd[p] /\ currentVote'[p] = currentVote[p]
  BY <1>2 DEF Take, TypeOK
<1>4. Calm(n)
  BY <1>2, <1>3, SilentStep DEF Calm, OwnStep
<1>5. Standing(n)'
  <2>1. OneCallAtATime(n)' /\ AskedByAnother(n)'
    BY <1>1, <1>2 DEF Standing, OneCallAtATime, AskedByAnother
  <2> QED
    BY <1>1, <1>2, <1>3, <1>4, <2>1, SameCallKeeps DEF Standing, SameCall
<1>6. \A t \in Topics : OutOf(n, t) => OutOf(n, t)'
  BY <1>2, <1>3, <1>4, CalmOffered DEF OutOf
<1> QED
  BY <1>4, <1>5, <1>6, CalmKeeps DEF Kept

LEMMA HandleVoteParamsKeeps ==
  ASSUME TypeOK, TypeOK', RefusalInv, NEW n \in Phones, HandleVoteParams(n)
  PROVE  RefusalInv'
<1>1. Standing(n)
  BY DEF RefusalInv
<1>2. PICK m \in Arriving(n, "VoteParams") :
        /\ Take(n, m) /\ TakesParams(n, m)
        /\ lookup' = [lookup EXCEPT ![n] = {[topic |-> currentVote[n].topic, params |-> m]}]
        /\ UNCHANGED <<stat, currentVote, composing, joined, calls, draft, sent, dealt>>
  BY Zenon DEF HandleVoteParams
<1>3. /\ stat[n] = "Confirmed" /\ rcvd[n] \subseteq rcvd'[n]
      /\ \A p \in Phones \ {n} : rcvd'[p] = rcvd[p] /\ lookup'[p] = lookup[p]
  BY <1>2 DEF Take, TakesParams, TypeOK
<1>4. Calm(n)
  BY <1>2, <1>3, SilentStep DEF Calm, OwnStep
<1>5. Standing(n)'
  <2>1. OneCallAtATime(n)' /\ AskedByAnother(n)'
    BY <1>1, <1>2, <1>3 DEF Standing, OneCallAtATime, AskedByAnother
  <2> QED
    BY <1>1, <1>2, <1>4, <2>1, SameCallKeeps DEF Standing, SameCall
<1>6. \A t \in Topics : OutOf(n, t) => OutOf(n, t)'
  BY <1>2, <1>3, <1>4, CalmOffered DEF OutOf
<1> QED
  BY <1>4, <1>5, <1>6, CalmKeeps DEF Kept

\* The phone deals in the vote it is in when the look-up is over, whichever.
LEMMA EnterRoundKeeps ==
  ASSUME TypeOK, TypeOK', RefusalInv, NEW n \in Phones, EnterRound(n)
  PROVE  RefusalInv'
<1>1. Standing(n)
  BY DEF RefusalInv
<1>2. PICK d0 :
        /\ d0.from = n /\ d0.topic = currentVote[n].topic /\ dealt' = dealt \cup {d0}
  BY DEF EnterRound
<1>3. /\ lookup[n] # {} /\ lookup' = [lookup EXCEPT ![n] = {}]
      /\ \E k : currentVote' = [currentVote EXCEPT ![n].parties = k]
      /\ stat' = [stat EXCEPT ![n] = "InRound"]
      /\ UNCHANGED <<composing, joined, calls, draft, sent, rcvd>>
  BY DEF EnterRound, Become
<1>4. /\ lookup'[n] = {} /\ stat'[n] = "InRound"
      /\ currentVote'[n].topic = currentVote[n].topic
      /\ currentVote'[n].from = currentVote[n].from
      /\ \A p \in Phones \ {n} : /\ lookup'[p] = lookup[p] /\ stat'[p] = stat[p]
                                 /\ currentVote'[p] = currentVote[p]
  BY <1>3 DEF TypeOK
<1>5. OwnStep(n)
  BY <1>2, <1>3, <1>4 DEF OwnStep
<1>6. /\ Sent("VoteBrief")' = Sent("VoteBrief") /\ Refusals' = Refusals
      /\ \A t : InvitationTo(t)' = InvitationTo(t)
  BY <1>3, SilentStep DEF InvitationTo, Brief
<1>7. stat[n] # "GotNewVote" /\ calls[n] \notin {{"Confirmed"}, {"Inited"}}
  BY <1>1, <1>3 DEF Standing, OneCallAtATime
<1>8. Standing(n)'
  <2>1. AnnouncesItsOwn(n)'
    <3>1. \A t : Unannounced(n, t) => Unannounced(n, t)'
      BY <1>6, CalmUnannounced
    <3> QED
      BY <1>1, <1>3, <1>4, <1>6, <3>1 DEF Standing, AnnouncesItsOwn
  <2>2. OneCallAtATime(n)' /\ AskedByAnother(n)'
    BY <1>1, <1>3, <1>4, <1>7 DEF Standing, OneCallAtATime, AskedByAnother
  <2>3. JoinsInvited(n)' /\ JoinedWasAsked(n)' /\ WasAsked(n, currentVote[n].topic)'
    BY <1>1, <1>3, <1>4, <1>6 DEF Standing, JoinsInvited, JoinedWasAsked, WasAsked
  <2> QED
    BY <2>1, <2>2, <2>3 DEF Standing
<1>9. \A t \in Topics : OutOf(n, t) => OutOf(n, t)'
  <2> SUFFICES ASSUME NEW t \in Topics, OutOf(n, t)
               PROVE  OutOf(n, t)'
    OBVIOUS
  <2>1. currentVote[n].topic # t
    BY <1>3, <1>7 DEF OutOf
  <2>2. Offered(n, t)'
    BY <1>2, <1>3, <1>6, <2>1 DEF OutOf, Offered
  <2> QED
    BY <1>3, <1>4, <2>1, <2>2 DEF OutOf
<1>10. BriefsAreInvitations' /\ TopicsNumbered'
  BY <1>6 DEF RefusalInv, BriefsAreInvitations, TopicsNumbered
<1>11. DealersWereAsked'
  <2>1. WasAsked(n, currentVote[n].topic)
    BY <1>1 DEF Standing
  <2> QED
    BY <1>2, <1>3, <1>6, <2>1 DEF RefusalInv, DealersWereAsked, WasAsked
<1>12. RefusedForGood'
  <2>1. \A p \in Phones : \A t \in Topics : OutOf(p, t) => OutOf(p, t)'
    BY <1>5, <1>9, OthersOut
  <2> QED
    BY <1>6, <2>1, RefusalType DEF RefusalInv, RefusedForGood
<1>13. \A p \in Phones : Standing(p)'
  BY <1>5, <1>8, OthersStand DEF RefusalInv
<1> QED
  BY <1>10, <1>11, <1>12, <1>13 DEF RefusalInv

LEMMA IgnoreKeeps ==
  ASSUME TypeOK, TypeOK', RefusalInv, NEW n \in Phones, NEW type \in MessageTypes,
         Ignore(n, type)
  PROVE  RefusalInv'
<1>1. Standing(n)
  BY DEF RefusalInv
<1>2. /\ rcvd[n] \subseteq rcvd'[n] /\ \A p \in Phones \ {n} : rcvd'[p] = rcvd[p]
      /\ UNCHANGED <<stat, currentVote, composing, joined, calls, draft, lookup, sent, dealt>>
  BY DEF Ignore, Take, TypeOK
<1>3. Calm(n)
  BY <1>2, SilentStep DEF Calm, OwnStep
<1>4. Standing(n)'
  <2>1. OneCallAtATime(n)' /\ AskedByAnother(n)'
    BY <1>1, <1>2, <1>3, CalmOffered DEF Standing, OneCallAtATime, AskedByAnother, Filling
  <2> QED
    BY <1>1, <1>2, <1>3, <2>1, SameCallKeeps DEF Standing, SameCall
<1>5. \A t \in Topics : OutOf(n, t) => OutOf(n, t)'
  BY <1>2, <1>3, CalmOffered DEF OutOf
<1> QED
  BY <1>3, <1>4, <1>5, CalmKeeps DEF Kept

LEMMA FinishKeeps ==
  ASSUME TypeOK, TypeOK', RefusalInv, NEW n \in Phones, Finish(n)
  PROVE  RefusalInv'
<1>1. Standing(n)
  BY DEF RefusalInv
<1>2. /\ stat[n] = "InRound" /\ stat'[n] = "Inited"
      /\ \A p \in Phones \ {n} : stat'[p] = stat[p]
      /\ UNCHANGED <<currentVote, composing, joined, calls, draft, lookup, sent, rcvd, dealt>>
  BY DEF Finish, Become, TypeOK
<1>3. Calm(n)
  BY <1>2, SilentStep DEF Calm, OwnStep
<1>4. Standing(n)'
  <2>1. OneCallAtATime(n)' /\ AskedByAnother(n)'
    BY <1>1, <1>2 DEF Standing, OneCallAtATime, AskedByAnother
  <2> QED
    BY <1>1, <1>2, <1>3, <2>1, SameCallKeeps DEF Standing, SameCall
<1>5. \A t \in Topics : OutOf(n, t) => OutOf(n, t)'
  BY <1>2, <1>3, CalmOffered DEF OutOf
<1> QED
  BY <1>3, <1>4, <1>5, CalmKeeps DEF Kept

-----------------------------------------------------------------------------
(* A phone that has refused a vote never deals in it *)

LEMMA RefusalInit == Init => RefusalInv
<1> SUFFICES ASSUME Init
             PROVE  RefusalInv
  OBVIOUS
<1>1. Sent("VoteBrief") = {} /\ Refusals = {} /\ dealt = {}
  BY DEF Init, Sent, Refusals
<1>2. \A n \in Phones : Standing(n)
  BY DEF Init, Standing, AnnouncesItsOwn, OneCallAtATime, AskedByAnother, JoinsInvited,
         JoinedWasAsked, WasAsked, Filling
<1> QED
  BY <1>1, <1>2 DEF RefusalInv, BriefsAreInvitations, TopicsNumbered, DealersWereAsked,
                    RefusedForGood

LEMMA RefusalStep ==
  ASSUME "torn" \notin Slips, TypeOK, TypeOK', RefusalInv, [Next]_vars
  PROVE  RefusalInv'
<1>1. CASE UNCHANGED vars
  <2>1. /\ UNCHANGED <<stat, currentVote, joined, calls, draft, lookup, sent, rcvd, dealt>>
        /\ Sent("VoteBrief")' = Sent("VoteBrief") /\ Refusals' = Refusals
        /\ \A t : InvitationTo(t)' = InvitationTo(t)
    BY <1>1 DEF vars, Sent, Refusals, InvitationTo, Brief
  <2>2. ASSUME NEW p \in Phones, Standing(p)
        PROVE  Standing(p)'
    BY <2>1, <2>2 DEF Standing, AnnouncesItsOwn, OneCallAtATime, AskedByAnother, JoinsInvited,
                      JoinedWasAsked, WasAsked, Offered, Unannounced, Filling
  <2>3. ASSUME NEW p, NEW t, OutOf(p, t)
        PROVE  OutOf(p, t)'
    BY <2>1, <2>3 DEF OutOf, Offered
  <2>4. DealersWereAsked' /\ BriefsAreInvitations' /\ TopicsNumbered'
    BY <2>1 DEF RefusalInv, DealersWereAsked, BriefsAreInvitations, TopicsNumbered, WasAsked
  <2> QED
    BY <2>1, <2>2, <2>3, <2>4 DEF RefusalInv, RefusedForGood
<1>2. CASE Next
  <2> SUFFICES ASSUME NEW n \in Phones, Loop(n) \/ User(n) \/ Proceed(n)
               PROVE  RefusalInv'
    BY <1>2 DEF Next
  <2>1. CASE Loop(n)
    BY <2>1, HandleVoteBriefKeeps, HandleVoteAcceptKeeps, HandleVoteParamsKeeps,
       EnterRoundKeeps, FinishKeeps, IgnoreKeeps DEF Loop
  <2>2. CASE User(n)
    BY <2>2, CreateNewVoteKeeps, SendBriefKeeps, ConfirmNewVoteKeeps, RefuseNewVoteKeeps,
       BeginVoteKeeps, CancelVoteKeeps DEF User
  <2>3. CASE Proceed(n)
    BY <2>3, GenVoteBriefKeeps, JoinVoteKeeps, StoreConfirmedKeeps, AnnounceKeeps,
       EarlyStartKeeps, ReturnKeeps DEF Proceed
  <2> QED
    BY <2>1, <2>2, <2>3
<1> QED
  BY <1>1, <1>2

LEMMA RefusalInductive ==
  "torn" \notin Slips => (Spec => [](TypeOK /\ RefusalInv))
<1> SUFFICES ASSUME "torn" \notin Slips
             PROVE  Spec => [](TypeOK /\ RefusalInv)
  OBVIOUS
<1>1. Init => TypeOK /\ RefusalInv
  BY InitTyped, RefusalInit
<1>2. TypeOK /\ RefusalInv /\ [Next]_vars => (TypeOK /\ RefusalInv)'
  BY TypedStep, RefusalStep
<1> QED
  BY <1>1, <1>2, PTL DEF Spec

\* A phone stays out of a vote it has refused, for any users and any scheduler
\* but one that runs the loop between the SetTopic of SendBrief and the message
\* made from it (server.go:81-96): handleVoteBrief may take any vote into
\* currentVote, later in SendBrief too, but no vote twice.
THEOREM RefusalsRemembered == "torn" \notin Slips => (Spec => []RefusalInv)
<1> SUFFICES ASSUME "torn" \notin Slips
             PROVE  Spec => []RefusalInv
  OBVIOUS
<1>1. Spec => [](TypeOK /\ RefusalInv)
  BY RefusalInductive
<1> QED
  BY <1>1, PTL

\* Nobody who has refused a vote deals shares in it, under the same scheduler
\* (server.go:130-140, 147-164).
THEOREM RefusalsHold == "torn" \notin Slips => (Spec => []RefuserStaysOut)
<1> SUFFICES ASSUME "torn" \notin Slips
             PROVE  Spec => []RefuserStaysOut
  OBVIOUS
<1>1. Spec => [](TypeOK /\ RefusalInv)
  BY RefusalInductive
<1>2. TypeOK /\ RefusalInv => RefuserStaysOut
  <2>1. ASSUME RefusalInv PROVE RefuserStaysOut
    BY <2>1 DEF RefusalInv, RefusedForGood, Refusals, OutOf, Offered, RefuserStaysOut
  <2> QED
    BY <2>1
<1> QED
  BY <1>1, <1>2, PTL

-----------------------------------------------------------------------------
(* The dealers agree *)

\* What the theorems on dealers ask of the users.
OrderlyUsers == Slips \subseteq {"refuse", "store"} /\ MaxBegins = 1

Inv == TypeOK /\ RefusalInv /\ DealersInv

\* The conjuncts of DealersInv that are not about one phone.
Shared == StartersJoined /\ AnswersFit /\ BegunFrozen /\ Headcount /\ DealtAsBegun

LEMMA Finite ==
  ASSUME TypeOK, NEW t
  PROVE  /\ IsFiniteSet(FindPeers(t)) /\ IsFiniteSet(Answers(t)) /\ IsFiniteSet(Begun(t))
         /\ Cardinality(Answers(t)) \in Nat /\ Cardinality(FindPeers(t)) \in Nat
<1>1. IsFiniteSet(FindPeers(t))
  BY ViewFinite, PhonesAssumption, FS_Subset
<1>2. Answers(t) \subseteq sent /\ Begun(t) \subseteq sent /\ IsFiniteSet(sent)
  BY DEF TypeOK, Answers, Begun, Sent
<1>3. IsFiniteSet(Answers(t)) /\ IsFiniteSet(Begun(t))
  BY <1>2, FS_Subset
<1> QED
  BY <1>1, <1>3, FS_CardinalityType

LEMMA InvitationStays == \A t : InvitationTo(t)' = InvitationTo(t)
  BY DEF InvitationTo, Brief

\* A phone's count is of what it has received: what is sent now is not in it.
LEMMA CountStays ==
  ASSUME TypeOK, sent \subseteq sent', NEW t, NEW S, S \subseteq sent
  PROVE  Answers(t)' \cap S = Answers(t) \cap S
  BY DEF Answers, Sent

\* The answers and parameters of a vote only become more.
LEMMA MessagesGrow ==
  ASSUME sent \subseteq sent', NEW t
  PROVE  Answers(t) \subseteq Answers(t)' /\ Begun(t) \subseteq Begun(t)'
  BY DEF Answers, Begun, Sent

LEMMA OthersInStep ==
  ASSUME TypeOK, TypeOK', NEW n, OwnStep(n), NEW p \in Phones, p # n, InStep(p)
  PROVE  InStep(p)'
<1>1. /\ stat'[p] = stat[p] /\ currentVote'[p] = currentVote[p] /\ joined'[p] = joined[p]
      /\ calls'[p] = calls[p] /\ draft'[p] = draft[p] /\ lookup'[p] = lookup[p]
      /\ rcvd'[p] = rcvd[p] /\ sent \subseteq sent' /\ rcvd[p] \subseteq sent
  BY DEF OwnStep, TypeOK
<1>2. NoEarlyStart(p)' /\ LooksUpOwn(p)'
  BY <1>1 DEF InStep, NoEarlyStart, LooksUpOwn
<1>3. AnnouncesUndisturbed(p)'
  <2>1. \A t : Unannounced(p, t) => Unannounced(p, t)'
    BY UnannouncedStays
  <2>2. Announcing(p)' = Announcing(p) /\ Filling(p)' = Filling(p)
    BY <1>1 DEF Announcing, Filling
  <2> QED
    BY <1>1, <2>1, <2>2, InvitationStays DEF InStep, AnnouncesUndisturbed
<1>4. OfItsStarter(p)'
  BY <1>1, InvitationStays DEF InStep, OfItsStarter
<1>5. JoinedWaits(p)'
  BY <1>1, MessagesGrow DEF InStep, JoinedWaits, WaitsFor
<1>6. Counted(p)'
  <2>1. Answers(currentVote[p].topic)' \cap rcvd[p] = Answers(currentVote[p].topic) \cap rcvd[p]
    BY <1>1 DEF Answers, Sent
  <2> QED
    BY <1>1, <2>1 DEF InStep, Counted, FreshForm
<1> QED
  BY <1>2, <1>3, <1>4, <1>5, <1>6 DEF InStep

\* A step that neither sends, joins nor deals anything.
QuietStep(n) == OwnStep(n) /\ sent' = sent /\ joined' = joined /\ dealt' = dealt

\* It keeps what is shared, if it takes its phone into no vote begun already.
LEMMA QuietShares ==
  ASSUME TypeOK, DealersInv, NEW n \in Phones, OwnStep(n), sent' = sent, joined' = joined,
         \A b \in Sent("VoteParams") :
           stat'[n] = "GotNewVote" => currentVote'[n].topic # b.topic
  PROVE  /\ StartersJoined' /\ AnswersFit' /\ BegunFrozen' /\ Headcount'
         /\ dealt' = dealt => Shared'
         /\ \A t : Answers(t)' = Answers(t) /\ Begun(t)' = Begun(t)
<1>1. \A k : Sent(k)' = Sent(k)
  BY DEF Sent
<1>2. \A t : /\ Answers(t)' = Answers(t) /\ Begun(t)' = Begun(t) /\ Agreed(t)' = Agreed(t)
             /\ FindPeers(t)' = FindPeers(t)
  BY <1>1 DEF Answers, Begun, Agreed, FindPeers
<1>3. \A p \in Phones : rcvd[p] \subseteq rcvd'[p]
  BY DEF OwnStep
<1>4. StartersJoined' /\ Headcount'
  BY <1>1, <1>2 DEF DealersInv, StartersJoined, Headcount
<1>5. AnswersFit'
  BY <1>1, <1>3, InvitationStays DEF DealersInv, AnswersFit, TypeOK, Sent
<1>6. BegunFrozen'
  <2>1. SUFFICES ASSUME NEW m \in Sent("VoteParams"), Frozen(m) PROVE Frozen(m)'
    BY <1>1 DEF DealersInv, BegunFrozen
  <2>2. \A p \in Phones : InvitationTo(m.topic) \in rcvd'[p]
    BY <1>3, <2>1 DEF Frozen
  <2>3. Answers(m.topic) \subseteq rcvd'[m.topic.starter]
    BY <1>3, <2>1 DEF Frozen, Topics
  <2>4. \A p \in Phones : stat'[p] = "GotNewVote" => currentVote'[p].topic # m.topic
    BY <2>1 DEF Frozen, OwnStep
  <2> QED
    BY <1>2, <2>1, <2>2, <2>3, <2>4, InvitationStays DEF Frozen
<1>7. dealt' = dealt => DealtAsBegun'
  BY <1>2 DEF DealersInv, DealtAsBegun
<1> QED
  BY <1>2, <1>4, <1>5, <1>6, <1>7 DEF Shared

LEMMA Together ==
  ASSUME TypeOK, TypeOK', DealersInv, NEW n \in Phones, OwnStep(n), Shared', InStep(n)'
  PROVE  DealersInv'
<1>1. \A p \in Phones : InStep(p)'
  BY OthersInStep DEF DealersInv
<1> QED
  BY <1>1 DEF DealersInv, Shared

LEMMA QuietAgrees ==
  ASSUME TypeOK, TypeOK', DealersInv, NEW n \in Phones, QuietStep(n),
         \A b \in Sent("VoteParams") :
           stat'[n] = "GotNewVote" => currentVote'[n].topic # b.topic,
         InStep(n)'
  PROVE  DealersInv'
  BY QuietShares, Together DEF QuietStep

\* A phone asked about a vote is not asked about one begun already.
LEMMA AskedBeforeBegun ==
  ASSUME DealersInv, NEW n \in Phones, stat[n] = "GotNewVote", NEW b \in Sent("VoteParams")
  PROVE  currentVote[n].topic # b.topic
  BY DEF DealersInv, BegunFrozen, Frozen

\* The parameters a phone has yet to take are those of the vote it waits for.
LEMMA ParamsAreOwn ==
  ASSUME DealersInv, NEW n \in Phones, NEW m \in Sent("VoteParams"), n \in m.to,
         m \notin rcvd[n]
  PROVE  WaitsFor(n, m.topic)
<1>1. Frozen(m) /\ JoinedWaits(n)
  BY DEF DealersInv, BegunFrozen, InStep
<1>2. m.topic \in joined[n]
  BY <1>1 DEF Frozen, FindPeers
<1>3. Begun(m.topic) \cap rcvd[n] = {}
  BY <1>1 DEF Frozen
<1> QED
  BY <1>1, <1>2, <1>3 DEF JoinedWaits

-----------------------------------------------------------------------------
(* The steps of the users *)

LEMMA CreateNewVoteAgrees ==
  ASSUME Inv, TypeOK', RefusalInv', NEW n \in Phones, CreateNewVote(n)
  PROVE  DealersInv'
<1> USE DEF Inv
<1>1. InStep(n)
  BY DEF DealersInv
<1>2. /\ calls[n] = {} /\ UNCHANGED <<stat, joined, calls, draft, lookup, sent, rcvd, dealt>>
      /\ \/ currentVote' = currentVote
         \/ /\ stat[n] = "Inited"
            /\ currentVote'[n] = [from |-> n, topic |-> NoVote, parties |-> 0]
            /\ \A p \in Phones \ {n} : currentVote'[p] = currentVote[p]
  BY DEF CreateNewVote, MayCreate, TypeOK
<1>3. QuietStep(n)
  BY <1>2 DEF QuietStep, OwnStep
<1>4. InStep(n)'
  <2>1. NoEarlyStart(n)' /\ AnnouncesUndisturbed(n)'
    BY <1>1, <1>2 DEF InStep, NoEarlyStart, AnnouncesUndisturbed, Announcing, Filling
  <2>2. LooksUpOwn(n)' /\ OfItsStarter(n)'
    BY <1>1, <1>2, InvitationStays DEF InStep, LooksUpOwn, OfItsStarter
  <2>3. JoinedWaits(n)'
    <3>1. \A t : Begun(t)' = Begun(t)
      BY <1>2 DEF Begun, Sent
    <3> QED
      BY <1>1, <1>2, <3>1 DEF InStep, JoinedWaits, WaitsFor
  <2>4. Counted(n)'
    <3>1. \A t : Answers(t)' = Answers(t)
      BY <1>2 DEF Answers, Sent
    <3> QED
      BY <1>1, <1>2, <3>1 DEF InStep, Counted, FreshForm
  <2> QED
    BY <2>1, <2>2, <2>3, <2>4 DEF InStep
<1> QED
  BY <1>2, <1>3, <1>4, QuietAgrees, AskedBeforeBegun

LEMMA SendBriefAgrees ==
  ASSUME OrderlyUsers, Inv, TypeOK', RefusalInv', NEW n \in Phones, SendBrief(n)
  PROVE  DealersInv'
<1> USE DEF Inv
<1>1. InStep(n)
  BY DEF DealersInv
<1>2. /\ calls[n] = {} /\ FreshForm(n) /\ stat[n] = "Inited"
      /\ UNCHANGED <<stat, joined, draft, lookup, sent, rcvd, dealt>>
  BY DEF SendBrief, OrderlyUsers, FreshForm
<1>3. /\ calls'[n] = {"Generate"} /\ currentVote'[n].from = n
      /\ currentVote'[n].parties = currentVote[n].parties
      /\ \A p \in Phones \ {n} : currentVote'[p] = currentVote[p] /\ calls'[p] = calls[p]
  BY DEF SendBrief, Then, TypeOK
<1>4. QuietStep(n)
  BY <1>2, <1>3 DEF QuietStep, OwnStep
<1>5. InStep(n)'
  <2>1. Unannounced(n, currentVote[n].topic)'
    BY <1>3 DEF RefusalInv, Standing, AnnouncesItsOwn
  <2>2. lookup[n] = {} /\ currentVote[n].parties = 0
    BY <1>1, <1>2 DEF InStep, LooksUpOwn, Counted
  <2>3. NoEarlyStart(n)' /\ LooksUpOwn(n)' /\ OfItsStarter(n)'
    BY <1>2, <1>3, <2>2 DEF NoEarlyStart, LooksUpOwn, OfItsStarter
  <2>4. AnnouncesUndisturbed(n)'
    BY <1>2, <1>3, <2>1, <2>2 DEF AnnouncesUndisturbed, Announcing, Filling
  <2>5. JoinedWaits(n)'
    <3>1. \A t : Begun(t)' = Begun(t)
      BY <1>2 DEF Begun, Sent
    <3> QED
      BY <1>1, <1>2, <3>1 DEF InStep, JoinedWaits, WaitsFor
  <2>6. Counted(n)'
    BY <1>2, <1>3, <2>2 DEF Counted, FreshForm
  <2> QED
    BY <2>3, <2>4, <2>5, <2>6 DEF InStep
<1> QED
  BY <1>2, <1>4, <1>5, QuietAgrees

LEMMA GenVoteBriefAgrees ==
  ASSUME Inv, TypeOK', RefusalInv', NEW n \in Phones, GenVoteBrief(n)
  PROVE  DealersInv'
<1> USE DEF Inv
<1>1. InStep(n) /\ Standing(n) /\ Standing(n)'
  BY DEF DealersInv, RefusalInv
<1>2. /\ calls[n] = {"Generate"}
      /\ UNCHANGED <<stat, currentVote, composing, joined, lookup, sent, rcvd, dealt>>
  BY <1>1 DEF GenVoteBrief, Standing, OneCallAtATime
<1>3. /\ calls'[n] = {"Join"}
      /\ \A p \in Phones \ {n} : draft'[p] = draft[p] /\ calls'[p] = calls[p]
  BY DEF GenVoteBrief, Then, TypeOK
<1>4. QuietStep(n)
  BY <1>2, <1>3 DEF QuietStep, OwnStep
<1>5. /\ lookup[n] = {} /\ stat[n] = "Inited" /\ currentVote[n].parties = 0
      /\ currentVote[n].from = n /\ currentVote[n].topic.starter = n
      /\ Unannounced(n, currentVote[n].topic)
  BY <1>1, <1>2 DEF InStep, AnnouncesUndisturbed, Announcing, Filling, Unannounced
<1>6. InStep(n)'
  <2>1. NoEarlyStart(n)' /\ LooksUpOwn(n)' /\ OfItsStarter(n)'
    BY <1>2, <1>3, <1>5 DEF NoEarlyStart, LooksUpOwn, OfItsStarter
  <2>2. AnnouncesUndisturbed(n)'
    <3>1. draft'[n] = {InvitationTo(currentVote[n].topic)}
      BY <1>1, <1>2, <1>3, <1>5, InvitationStays DEF Standing, JoinsInvited
    <3>2. PICK t : t = currentVote[n].topic
      OBVIOUS
    <3>3. Unannounced(n, t)'
      <4>1. Sent("VoteBrief")' = Sent("VoteBrief")
        BY <1>2 DEF Sent
      <4> QED
        BY <1>5, <3>2, <4>1, CalmUnannounced
    <3> QED
      BY <1>2, <1>3, <1>5, <3>1, <3>2, <3>3, InvitationStays
         DEF AnnouncesUndisturbed, Announcing, Filling
  <2>3. JoinedWaits(n)'
    <3>1. \A t : Begun(t)' = Begun(t)
      BY <1>2 DEF Begun, Sent
    <3> QED
      BY <1>1, <1>2, <1>5, <3>1 DEF InStep, JoinedWaits, WaitsFor
  <2>4. Counted(n)'
    BY <1>2, <1>5 DEF Counted, FreshForm
  <2> QED
    BY <2>1, <2>2, <2>3, <2>4 DEF InStep
<1> QED
  BY <1>2, <1>4, <1>5, <1>6, QuietAgrees

\* Whoever has joined a vote that nobody has heard of is its starter.
LEMMA JoinedByStarter ==
  ASSUME TypeOK, RefusalInv, NEW n, NEW t, Unannounced(n, t), NEW p \in Phones,
         t \in joined[p]
  PROVE  p = n
<1>1. t.starter = n /\ InvitationTo(t) \notin sent
  BY DEF Unannounced
<1>2. rcvd[p] \subseteq sent
  BY DEF TypeOK
<1> QED
  BY <1>1, <1>2 DEF RefusalInv, Standing, JoinedWasAsked

\* And nobody has answered it.
LEMMA NoAnswers ==
  ASSUME TypeOK, DealersInv, NEW n, NEW t, Unannounced(n, t)
  PROVE  Answers(t) = {}
<1>1. \A m \in Answers(t) : InvitationTo(t) \in rcvd[m.from] /\ m.from \in Phones
  BY DEF DealersInv, AnswersFit, Answers, TypeOK, Sent
<1> QED
  BY <1>1 DEF Unannounced, TypeOK

\* Joining a vote nobody has heard of changes nothing for the announced ones.
LEMMA JoinVoteAgrees ==
  ASSUME Inv, TypeOK', RefusalInv', NEW n \in Phones, JoinVote(n)
  PROVE  DealersInv'
<1> USE DEF Inv
<1>1. InStep(n) /\ Standing(n)
  BY DEF DealersInv, RefusalInv
<1>2. /\ calls[n] = {"Join"}
      /\ UNCHANGED <<stat, currentVote, composing, draft, lookup, sent, rcvd, dealt>>
  BY <1>1 DEF JoinVote, Standing, OneCallAtATime
<1>3. PICK t0 : t0 = currentVote[n].topic
  OBVIOUS
<1>4. /\ calls'[n] = {"Store"} /\ joined'[n] = joined[n] \cup {t0}
      /\ \A p \in Phones \ {n} : joined'[p] = joined[p] /\ calls'[p] = calls[p]
  BY <1>3 DEF JoinVote, Join, Then, TypeOK
<1>5. OwnStep(n)
  BY <1>2, <1>4 DEF OwnStep
<1>6. /\ lookup[n] = {} /\ stat[n] = "Inited" /\ currentVote[n].parties = 0
      /\ currentVote[n].from = n /\ draft[n] = {InvitationTo(t0)} /\ Unannounced(n, t0)
  BY <1>1, <1>2, <1>3 DEF InStep, AnnouncesUndisturbed, Announcing, Filling
<1>7. \A t : Answers(t)' = Answers(t) /\ Begun(t)' = Begun(t) /\ Agreed(t)' = Agreed(t)
  BY <1>2 DEF Answers, Begun, Agreed, Sent
<1>8. \A k : Sent(k)' = Sent(k)
  BY <1>2 DEF Sent
<1>9. InStep(n)'
  <2>1. NoEarlyStart(n)' /\ LooksUpOwn(n)' /\ OfItsStarter(n)' /\ Counted(n)'
    BY <1>2, <1>4, <1>6 DEF NoEarlyStart, LooksUpOwn, OfItsStarter, Counted, FreshForm
  <2>2. AnnouncesUndisturbed(n)'
    <3>1. Unannounced(n, t0)'
      BY <1>6, <1>8, CalmUnannounced
    <3> QED
      BY <1>2, <1>3, <1>4, <1>6, <3>1, InvitationStays
         DEF AnnouncesUndisturbed, Announcing, Filling
  <2>3. JoinedWaits(n)'
    BY <1>1, <1>2, <1>3, <1>4, <1>6, <1>7 DEF InStep, JoinedWaits, WaitsFor
  <2> QED
    BY <2>1, <2>2, <2>3 DEF InStep
<1>10. \A t : t # t0 => FindPeers(t)' = FindPeers(t)
  BY <1>4 DEF FindPeers
<1>11. \A p \in Phones : joined[p] \subseteq joined'[p]
  BY <1>4
<1>12. StartersJoined' /\ Headcount'
  <2>1. \A m \in Sent("VoteBrief") : m.topic # t0 /\ m.topic.starter \in Phones
    BY <1>6 DEF RefusalInv, BriefsAreInvitations, Unannounced, TypeOK, Sent, Topics
  <2> QED
    BY <1>7, <1>8, <1>10, <1>11, <2>1 DEF DealersInv, StartersJoined, Headcount
<1>13. AnswersFit'
  BY <1>2, <1>8, <1>11, InvitationStays DEF DealersInv, AnswersFit, TypeOK, Sent
<1>14. BegunFrozen'
  <2>1. SUFFICES ASSUME NEW m \in Sent("VoteParams"), Frozen(m) PROVE Frozen(m)'
    BY <1>8 DEF DealersInv, BegunFrozen
  <2>2. m.topic # t0
    BY <1>6, <2>1 DEF Frozen, Unannounced, TypeOK
  <2> QED
    BY <1>2, <1>7, <1>10, <2>1, <2>2, InvitationStays DEF Frozen
<1>15. DealtAsBegun'
  BY <1>2, <1>7 DEF DealersInv, DealtAsBegun
<1> QED
  BY <1>5, <1>9, <1>12, <1>13, <1>14, <1>15, Together DEF Shared

LEMMA StoreConfirmedAgrees ==
  ASSUME Inv, TypeOK', RefusalInv', NEW n \in Phones, StoreConfirmed(n)
  PROVE  DealersInv'
<1> USE DEF Inv
<1>1. InStep(n) /\ Standing(n)
  BY DEF DealersInv, RefusalInv
<1>2. /\ calls[n] = {"Store"}
      /\ UNCHANGED <<composing, joined, draft, lookup, sent, rcvd, dealt>>
  BY <1>1 DEF StoreConfirmed, Standing, OneCallAtATime
<1>3. PICK t0 : t0 = currentVote[n].topic
  OBVIOUS
<1>4. /\ lookup[n] = {} /\ stat[n] = "Inited" /\ currentVote[n].parties = 0
      /\ currentVote[n].from = n /\ draft[n] = {InvitationTo(t0)} /\ Unannounced(n, t0)
      /\ t0 \in joined[n]
  BY <1>1, <1>2, <1>3 DEF InStep, AnnouncesUndisturbed, Announcing, Filling
<1>5. /\ calls'[n] = {"Announce"} /\ stat'[n] = "Confirmed"
      /\ currentVote'[n] = [from |-> n, topic |-> t0, parties |-> 1]
      /\ \A p \in Phones \ {n} : /\ stat'[p] = stat[p] /\ calls'[p] = calls[p]
                                 /\ currentVote'[p] = currentVote[p]
  BY <1>3, <1>4 DEF StoreConfirmed, Become, Then, TypeOK
<1>6. QuietStep(n)
  BY <1>2, <1>5 DEF QuietStep, OwnStep
<1>7. InStep(n)'
  <2>1. NoEarlyStart(n)' /\ LooksUpOwn(n)'
    BY <1>2, <1>4, <1>5 DEF NoEarlyStart, LooksUpOwn
  <2>2. OfItsStarter(n)'
    BY <1>2, <1>4, <1>5, InvitationStays DEF OfItsStarter, Unannounced
  <2>3. AnnouncesUndisturbed(n)'
    <3>1. Sent("VoteBrief")' = Sent("VoteBrief")
      BY <1>2 DEF Sent
    <3>2. Unannounced(n, t0)'
      BY <1>4, <3>1, CalmUnannounced
    <3> QED
      BY <1>2, <1>4, <1>5, <3>2, InvitationStays DEF AnnouncesUndisturbed, Announcing, Filling
  <2>4. JoinedWaits(n)'
    <3>1. \A t : Begun(t)' = Begun(t)
      BY <1>2 DEF Begun, Sent
    <3> QED
      BY <1>1, <1>2, <1>3, <1>4, <1>5, <3>1 DEF InStep, JoinedWaits, WaitsFor
  <2>5. Counted(n)'
    <3>1. Answers(t0)' = {}
      BY <1>2, <1>4, NoAnswers DEF Answers, Sent
    <3>2. Cardinality((Answers(t0) \cap rcvd[n])') = 0
      BY <3>1, FS_EmptySet
    <3> QED
      BY <1>5, <3>2 DEF Counted, FreshForm
  <2> QED
    BY <2>1, <2>2, <2>3, <2>4, <2>5 DEF InStep
<1> QED
  BY <1>5, <1>6, <1>7, QuietAgrees

\* The starter is the only party of a vote it announces.
LEMMA AnnounceAgrees ==
  ASSUME OrderlyUsers, Inv, TypeOK', RefusalInv', NEW n \in Phones, Announce(n)
  PROVE  DealersInv'
<1> USE DEF Inv
<1>1. InStep(n) /\ Standing(n)
  BY DEF DealersInv, RefusalInv
<1>2. /\ calls[n] = {"Announce"}
      /\ UNCHANGED <<stat, currentVote, composing, joined, lookup, rcvd, dealt>>
  BY <1>1 DEF Announce, Standing, OneCallAtATime
<1>3. PICK t0 : t0 = currentVote[n].topic
  OBVIOUS
<1>4. /\ lookup[n] = {} /\ stat[n] = "Confirmed" /\ draft[n] = {InvitationTo(t0)}
      /\ currentVote[n].from = n /\ Unannounced(n, t0) /\ t0 \in joined[n]
  BY <1>1, <1>2, <1>3 DEF InStep, AnnouncesUndisturbed, Announcing, Filling
<1>5. /\ calls'[n] = {} /\ draft'[n] = {} /\ sent' = sent \cup {InvitationTo(t0)}
      /\ \A p \in Phones \ {n} : draft'[p] = draft[p] /\ calls'[p] = calls[p]
  BY <1>4 DEF Announce, MayStartEarly, Then, OrderlyUsers, TypeOK
<1>6. OwnStep(n)
  BY <1>2, <1>4, <1>5, InvitationFields DEF OwnStep, Unannounced
<1>7. /\ \A t : Answers(t)' = Answers(t) /\ Begun(t)' = Begun(t) /\ FindPeers(t)' = FindPeers(t)
      /\ \A k : k # "VoteBrief" => Sent(k)' = Sent(k)
      /\ Sent("VoteBrief")' = Sent("VoteBrief") \cup {InvitationTo(t0)}
  BY <1>2, <1>5, InvitationFields DEF Answers, Begun, FindPeers, Sent
<1>8. \A t : Agreed(t)' = Agreed(t)
  BY <1>7 DEF Agreed
<1>9. InStep(n)'
  <2>1. NoEarlyStart(n)' /\ AnnouncesUndisturbed(n)' /\ LooksUpOwn(n)'
    BY <1>2, <1>4, <1>5 DEF NoEarlyStart, AnnouncesUndisturbed, Announcing, Filling, LooksUpOwn
  <2>2. OfItsStarter(n)'
    BY <1>1, <1>2, <1>4, <1>5, InvitationStays DEF InStep, OfItsStarter
  <2>3. JoinedWaits(n)'
    BY <1>1, <1>2, <1>4, <1>5, <1>7 DEF InStep, JoinedWaits, WaitsFor
  <2>4. Counted(n)'
    BY <1>1, <1>2, <1>7 DEF InStep, Counted, FreshForm
  <2> QED
    BY <2>1, <2>2, <2>3, <2>4 DEF InStep
<1>10. StartersJoined'
  BY <1>2, <1>4, <1>7, InvitationFields DEF DealersInv, StartersJoined, Unannounced
<1>11. Headcount'
  <2>1. FindPeers(t0) = {n}
    BY <1>4, JoinedByStarter DEF FindPeers
  <2>2. Cardinality(FindPeers(t0)) = 1 /\ Cardinality(Answers(t0)) = 0
    BY <1>4, <2>1, NoAnswers, FS_Singleton, FS_EmptySet
  <2> QED
    BY <1>7, <1>8, <2>2, InvitationFields DEF DealersInv, Headcount
<1>12. AnswersFit'
  BY <1>2, <1>7, InvitationStays DEF DealersInv, AnswersFit
<1>13. BegunFrozen'
  BY <1>2, <1>7, <1>8, InvitationStays DEF DealersInv, BegunFrozen, Frozen
<1>14. DealtAsBegun'
  BY <1>2, <1>7 DEF DealersInv, DealtAsBegun
<1> QED
  BY <1>6, <1>9, <1>10, <1>11, <1>12, <1>13, <1>14, Together DEF Shared

\* Who answers has been asked, and neither joined nor answered the vote before.
LEMMA AnswerAgrees ==
  ASSUME Inv, TypeOK', NEW n \in Phones, NEW yes \in BOOLEAN, NEW t, t = currentVote[n].topic,
         stat[n] = "GotNewVote", calls[n] = {},
         sent' = sent \cup {Accept(n, currentVote[n], yes)},
         joined'[n] = joined[n] \cup (IF yes THEN {t} ELSE {}),
         calls'[n] = {IF yes THEN "Confirmed" ELSE "Inited"},
         \A p \in Phones \ {n} : joined'[p] = joined[p] /\ calls'[p] = calls[p],
         UNCHANGED <<stat, currentVote, draft, lookup, rcvd, dealt>>
  PROVE  DealersInv'
<1> USE DEF Inv
<1>1. PICK a : a = Accept(n, currentVote[n], yes)
  OBVIOUS
<1>2. /\ a.type = "VoteAcceptation" /\ a.topic = t /\ a.result = yes /\ a.from = n
      /\ sent' = sent \cup {a}
  BY <1>1 DEF Accept
<1>3. InStep(n) /\ Standing(n)
  BY DEF DealersInv, RefusalInv
<1>4. /\ t \in Topics /\ t.starter \in Phones /\ InvitationTo(t) \in rcvd[n]
      /\ InvitationTo(t) \in sent /\ t \notin joined[n] /\ t.starter # n
  BY <1>3 DEF Standing, AskedByAnother, Offered, Filling, TypeOK, Topics
<1>5. a.to = {t.starter}
  BY <1>1, <1>3 DEF Accept, InStep, OfItsStarter
<1>6. OwnStep(n)
  BY <1>2 DEF OwnStep
<1>7. /\ Sent("VoteAcceptation")' = Sent("VoteAcceptation") \cup {a}
      /\ Sent("VoteBrief")' = Sent("VoteBrief") /\ Sent("VoteParams")' = Sent("VoteParams")
  BY <1>2 DEF Sent
<1>8. /\ Answers(t)' = Answers(t) \cup {a}
      /\ \A u : u # t => Answers(u)' = Answers(u) /\ (Agreed(u)' <=> Agreed(u))
      /\ \A u : Begun(u)' = Begun(u)
  BY <1>2, <1>7 DEF Answers, Agreed, Begun
<1>9. \A u : u # t => FindPeers(u)' = FindPeers(u)
  BY DEF FindPeers
<1>10. \A p \in Phones : joined[p] \subseteq joined'[p]
  OBVIOUS
<1>11. InStep(n)'
  <2>1. NoEarlyStart(n)' /\ AnnouncesUndisturbed(n)'
    BY DEF NoEarlyStart, AnnouncesUndisturbed, Announcing, Filling
  <2>2. LooksUpOwn(n)' /\ OfItsStarter(n)'
    BY <1>2, <1>3, InvitationStays DEF InStep, LooksUpOwn, OfItsStarter
  <2>3. JoinedWaits(n)'
    <3>1. SUFFICES ASSUME NEW u \in joined'[n]
                   PROVE  WaitsFor(n, u)' \/ Begun(u)' \cap rcvd'[n] # {}
      BY DEF JoinedWaits
    <3>2. CASE u \in joined[n]
      BY <1>3, <1>4, <1>8, <3>2 DEF InStep, JoinedWaits, WaitsFor
    <3>3. CASE u \notin joined[n]
      BY <3>1, <3>3 DEF WaitsFor
    <3> QED
      BY <3>2, <3>3
  <2>4. Counted(n)'
    BY DEF Counted, FreshForm
  <2> QED
    BY <2>1, <2>2, <2>3, <2>4 DEF InStep
<1>12. StartersJoined'
  <2>1. \A b \in Sent("VoteBrief") : b.topic.starter \in Phones
    BY DEF TypeOK, Topics, Sent
  <2> QED
    BY <1>7, <1>10, <2>1 DEF DealersInv, StartersJoined
<1>13. AnswersFit'
  <2>1. SUFFICES ASSUME NEW b \in Sent("VoteAcceptation") \cup {a}
                 PROVE  /\ b.to = {b.topic.starter} /\ InvitationTo(b.topic) \in rcvd'[b.from]
                        /\ b.result => b.topic \in joined'[b.from]
    BY <1>7, InvitationStays DEF AnswersFit
  <2>2. CASE b = a
    BY <1>2, <1>4, <1>5, <2>2
  <2>3. CASE b \in Sent("VoteAcceptation")
    <3>1. b.from \in Phones
      BY <2>3 DEF TypeOK, Sent
    <3> QED
      BY <1>10, <2>3, <3>1 DEF DealersInv, AnswersFit
  <2> QED
    BY <2>2, <2>3
<1>14. BegunFrozen'
  <2>1. SUFFICES ASSUME NEW b \in Sent("VoteParams"), Frozen(b) PROVE Frozen(b)'
    BY <1>7 DEF DealersInv, BegunFrozen
  <2>2. b.topic # t
    BY <2>1 DEF Frozen
  <2> QED
    BY <1>8, <1>9, <2>1, <2>2, InvitationStays DEF Frozen
<1>15. Headcount'
  <2>1. SUFFICES ASSUME NEW b \in Sent("VoteBrief"), Agreed(b.topic)'
                 PROVE  Cardinality(FindPeers(b.topic))' = Cardinality(Answers(b.topic))' + 1
    BY <1>7 DEF Headcount
  <2>2. CASE b.topic # t
    BY <1>8, <1>9, <2>1, <2>2 DEF DealersInv, Headcount
  <2>3. CASE b.topic = t
    <3>1. yes /\ Agreed(t)
      BY <1>2, <1>8, <2>1, <2>3 DEF Agreed
    <3>2. a \notin Answers(t)
      BY <1>2, <1>4, <3>1 DEF Answers, DealersInv, AnswersFit
    <3>3. Cardinality(Answers(t) \cup {a}) = Cardinality(Answers(t)) + 1
      BY <3>2, Finite, FS_AddElement
    <3>4. FindPeers(t)' = FindPeers(t) \cup {n} /\ n \notin FindPeers(t)
      BY <1>4, <3>1 DEF FindPeers
    <3>5. Cardinality(FindPeers(t) \cup {n}) = Cardinality(FindPeers(t)) + 1
      BY <3>4, Finite, FS_AddElement
    <3>6. Cardinality(FindPeers(t)) = Cardinality(Answers(t)) + 1
      BY <2>3, <3>1 DEF DealersInv, Headcount
    <3> QED
      BY <1>8, <2>3, <3>3, <3>4, <3>5, <3>6
  <2> QED
    BY <2>2, <2>3
<1>16. DealtAsBegun'
  BY <1>8 DEF DealersInv, DealtAsBegun
<1> QED
  BY <1>6, <1>11, <1>12, <1>13, <1>14, <1>15, <1>16, Together DEF Shared

LEMMA ConfirmNewVoteAgrees ==
  ASSUME Inv, TypeOK', NEW n \in Phones, ConfirmNewVote(n)
  PROVE  DealersInv'
<1> DEFINE t == currentVote[n].topic
<1>1. /\ stat[n] = "GotNewVote" /\ calls[n] = {}
      /\ sent' = sent \cup {Accept(n, currentVote[n], TRUE)}
      /\ joined'[n] = joined[n] \cup {t} /\ calls'[n] = {"Confirmed"}
      /\ \A p \in Phones \ {n} : joined'[p] = joined[p] /\ calls'[p] = calls[p]
      /\ UNCHANGED <<stat, currentVote, draft, lookup, rcvd, dealt>>
  BY DEF Inv, TypeOK, ConfirmNewVote, MayConfirm, Join, Send, Then
<1> QED
  BY <1>1, AnswerAgrees

LEMMA RefuseNewVoteAgrees ==
  ASSUME Inv, TypeOK', NEW n \in Phones, RefuseNewVote(n)
  PROVE  DealersInv'
<1>1. /\ stat[n] = "GotNewVote" /\ calls[n] = {}
      /\ sent' = sent \cup {Accept(n, currentVote[n], FALSE)}
      /\ joined'[n] = joined[n] \cup {} /\ calls'[n] = {"Inited"}
      /\ \A p \in Phones \ {n} : joined'[p] = joined[p] /\ calls'[p] = calls[p]
      /\ UNCHANGED <<stat, currentVote, draft, lookup, rcvd, dealt>>
  BY DEF Inv, TypeOK, RefuseNewVote, AfterRefusal, Send, Then
<1> QED
  BY <1>1, AnswerAgrees

LEMMA ReturnAgrees ==
  ASSUME Inv, TypeOK', NEW n \in Phones, Return(n)
  PROVE  DealersInv'
<1> USE DEF Inv
<1>1. InStep(n) /\ Standing(n)
  BY DEF DealersInv, RefusalInv
<1>2. PICK s \in calls[n] \cap NodeStat :
        /\ calls' = [calls EXCEPT ![n] = {}] /\ stat' = [stat EXCEPT ![n] = s]
        /\ UNCHANGED <<currentVote, composing, joined, draft, lookup, sent, rcvd, dealt>>
  BY DEF Return, Then, Become
<1>3. calls[n] = {s} /\ s \in {"Confirmed", "Inited"} /\ stat[n] = "GotNewVote"
  BY <1>1, <1>2 DEF Standing, OneCallAtATime, Steps, NodeStat, InStep, NoEarlyStart
<1>4. /\ calls'[n] = {} /\ stat'[n] = s
      /\ \A p \in Phones \ {n} : calls'[p] = calls[p] /\ stat'[p] = stat[p]
  BY <1>2 DEF TypeOK
<1>5. QuietStep(n)
  BY <1>2, <1>4 DEF QuietStep, OwnStep
<1>6. /\ currentVote[n].topic \in Topics /\ currentVote[n].topic # NoVote
      /\ currentVote[n].from # n /\ lookup[n] = {}
  BY <1>1, <1>3, PhonesAssumption
     DEF InStep, OfItsStarter, Standing, AskedByAnother, OneCallAtATime, Offered, Filling
<1>7. InStep(n)'
  <2>1. /\ NoEarlyStart(n)' /\ AnnouncesUndisturbed(n)' /\ LooksUpOwn(n)' /\ OfItsStarter(n)'
    BY <1>1, <1>2, <1>3, <1>4, <1>6, InvitationStays
       DEF NoEarlyStart, AnnouncesUndisturbed, Announcing, Filling, LooksUpOwn, InStep, OfItsStarter
  <2>2. JoinedWaits(n)'
    <3>1. \A t : Begun(t)' = Begun(t)
      BY <1>2 DEF Begun, Sent
    <3> QED
      BY <1>1, <1>2, <1>3, <1>4, <3>1 DEF InStep, JoinedWaits, WaitsFor
  <2>3. Counted(n)'
    BY <1>2, <1>4, <1>6 DEF Counted, FreshForm
  <2> QED
    BY <2>1, <2>2, <2>3 DEF InStep
<1> QED
  BY <1>3, <1>4, <1>5, <1>7, QuietAgrees

\* Everybody has taken the brief and answered; all answers have been counted.
LEMMA BeginVoteAgrees ==
  ASSUME OrderlyUsers, Inv, TypeOK', NEW n \in Phones, BeginVote(n)
  PROVE  DealersInv'
<1> USE DEF Inv
<1>1. PICK t : t = currentVote[n].topic
  OBVIOUS
<1>2. /\ stat[n] = "Confirmed" /\ currentVote[n].from = n /\ calls[n] = {} /\ Settled(n)
      /\ Cardinality(Begun(t)) + 1 <= 1
      /\ UNCHANGED <<stat, currentVote, composing, joined, calls, draft, lookup, rcvd, dealt>>
  BY <1>1 DEF BeginVote, OrderlyUsers, Begun
<1>3. PICK m : /\ sent' = sent \cup {m} /\ m.type = "VoteParams" /\ m.topic = t
               /\ m.to = FindPeers(t) /\ m.n = currentVote[n].parties
  <2>1. PICK k : sent' = sent \cup
                   {Params(currentVote[n], Threshold(currentVote[n].parties), FindPeers(t), k)}
    BY <1>1 DEF BeginVote, Send
  <2>2. PICK m : m = Params(currentVote[n], Threshold(currentVote[n].parties), FindPeers(t), k)
    OBVIOUS
  <2> QED
    BY <1>1, <2>1, <2>2 DEF Params
<1>4. Begun(t) = {}
  <2>1. Cardinality(Begun(t)) = 0
    BY <1>2, Finite, FS_CardinalityType
  <2> QED
    BY <2>1, Finite, FS_EmptySet
<1>5. InStep(n) /\ Standing(n)
  BY DEF DealersInv, RefusalInv
<1>6. t \in Topics /\ t.starter = n /\ InvitationTo(t) \in Sent("VoteBrief")
  <2>1. t \in Topics /\ t.starter = n /\ InvitationTo(t) \in sent \cup draft[n]
    BY <1>1, <1>2, <1>5 DEF InStep, OfItsStarter
  <2>2. draft[n] = {}
    BY <1>2, <1>5 DEF Standing, AnnouncesItsOwn
  <2> QED
    BY <2>1, <2>2, InvitationFields DEF Sent
<1>7. \A p \in Phones : InvitationTo(t) \in rcvd[p] /\ stat[p] # "GotNewVote"
  BY <1>2, <1>6 DEF Settled, Arriving, InvitationTo, Brief
<1>8. Answers(t) \subseteq rcvd[n]
  BY <1>2, <1>6 DEF Settled, Arriving, Answers, DealersInv, AnswersFit
<1>9. Agreed(t) => m.n = Cardinality(FindPeers(t))
  <2>1. Answers(t) \cap rcvd[n] = Answers(t)
    BY <1>8
  <2>2. currentVote[n].parties = Cardinality(Answers(t)) + 1
    BY <1>1, <1>2, <1>5, <2>1 DEF InStep, Counted
  <2>3. Agreed(t) => Cardinality(FindPeers(t)) = Cardinality(Answers(t)) + 1
    BY <1>6, InvitationFields DEF DealersInv, Headcount
  <2> QED
    BY <1>3, <2>2, <2>3
<1>10. /\ Sent("VoteParams")' = Sent("VoteParams") \cup {m}
       /\ Sent("VoteBrief")' = Sent("VoteBrief")
       /\ Sent("VoteAcceptation")' = Sent("VoteAcceptation")
  BY <1>3 DEF Sent
<1>11. /\ \A u : /\ Answers(u)' = Answers(u) /\ (Agreed(u)' <=> Agreed(u))
                 /\ FindPeers(u)' = FindPeers(u) /\ Begun(u) \subseteq Begun(u)'
       /\ \A u : u # t => Begun(u)' = Begun(u)
       /\ Begun(t)' = {m}
  <2>1. \A u : Answers(u)' = Answers(u) /\ (Agreed(u)' <=> Agreed(u))
    BY <1>10 DEF Answers, Agreed
  <2>2. \A u : FindPeers(u)' = FindPeers(u)
    BY <1>2 DEF FindPeers
  <2>3. /\ \A u : Begun(u) \subseteq Begun(u)'
        /\ \A u : u # t => Begun(u)' = Begun(u)
        /\ Begun(t)' = Begun(t) \cup {m}
    BY <1>3, <1>10 DEF Begun
  <2> QED
    BY <1>4, <2>1, <2>2, <2>3
<1>12. OwnStep(n)
  BY <1>2, <1>3 DEF OwnStep
<1>13. InStep(n)'
  <2>1. NoEarlyStart(n)' /\ AnnouncesUndisturbed(n)' /\ LooksUpOwn(n)' /\ OfItsStarter(n)'
    BY <1>2, <1>3, <1>5, InvitationStays
       DEF InStep, NoEarlyStart, AnnouncesUndisturbed, Announcing, Filling, LooksUpOwn, OfItsStarter
  <2>2. JoinedWaits(n)' /\ Counted(n)'
    BY <1>2, <1>5, <1>11 DEF InStep, JoinedWaits, WaitsFor, Counted, FreshForm
  <2> QED
    BY <2>1, <2>2 DEF InStep
<1>14. StartersJoined' /\ Headcount' /\ AnswersFit'
  BY <1>2, <1>10, <1>11, InvitationStays DEF DealersInv, StartersJoined, Headcount, AnswersFit
<1>15. BegunFrozen'
  <2>1. SUFFICES ASSUME NEW b \in Sent("VoteParams") \cup {m} PROVE Frozen(b)'
    BY <1>10 DEF BegunFrozen
  <2>2. CASE b = m
    <3>1. /\ \A p \in Phones : /\ InvitationTo(b.topic) \in rcvd'[p]
                               /\ stat'[p] = "GotNewVote" => currentVote'[p].topic # b.topic
          /\ b.topic \in Topics
      BY <1>2, <1>3, <1>6, <1>7, <2>2
    <3>2. b.to = FindPeers(b.topic)' /\ Answers(b.topic)' \subseteq rcvd'[b.topic.starter]
      BY <1>2, <1>3, <1>6, <1>8, <1>11, <2>2
    <3>3. Begun(b.topic)' = {b} /\ (Agreed(b.topic)' => b.n = Cardinality(FindPeers(b.topic))')
      BY <1>3, <1>9, <1>11, <2>2
    <3> QED
      BY <3>1, <3>2, <3>3, InvitationStays DEF Frozen
  <2>3. CASE b \in Sent("VoteParams")
    <3>1. Frozen(b) /\ b \in Begun(b.topic)
      BY <2>3 DEF DealersInv, BegunFrozen, Begun
    <3>2. b.topic # t
      BY <1>4, <3>1
    <3> QED
      BY <1>2, <1>11, <3>1, <3>2, InvitationStays DEF Frozen
  <2> QED
    BY <2>2, <2>3
<1>16. DealtAsBegun'
  BY <1>2, <1>11 DEF DealersInv, DealtAsBegun
<1> QED
  BY <1>12, <1>13, <1>14, <1>15, <1>16, Together DEF Shared

-----------------------------------------------------------------------------
(* The steps of the loop *)

\* A handler takes one message more.
LEMMA TakeAdds ==
  ASSUME TypeOK, NEW n \in Phones, NEW k, NEW m \in Arriving(n, k), Take(n, m)
  PROVE  /\ m \in Sent(k) /\ n \in m.to /\ m \notin rcvd[n] /\ lookup[n] = {}
         /\ rcvd'[n] = rcvd[n] \cup {m}
         /\ \A p \in Phones \ {n} : rcvd'[p] = rcvd[p]
  BY DEF TypeOK, Arriving, Take, Sent

\* Orderly users and scheduler keep the loop out of a vote being filled in.
LEMMA TakesNotWhileFilling ==
  ASSUME OrderlyUsers, TypeOK, NEW n, NEW m, Take(n, m)
  PROVE  ~Filling(n)
  BY DEF OrderlyUsers, Take, Filling

LEMMA HandleVoteBriefAgrees ==
  ASSUME OrderlyUsers, Inv, TypeOK', NEW n \in Phones, HandleVoteBrief(n)
  PROVE  DealersInv'
<1> USE DEF Inv
<1>1. PICK m \in Arriving(n, "VoteBrief") :
        /\ Take(n, m) /\ Invited(n, m)
        /\ currentVote' = [currentVote EXCEPT ![n] =
             [from |-> m.from, topic |-> m.topic, parties |-> 0]]
        /\ stat' = [stat EXCEPT ![n] = "GotNewVote"]
        /\ UNCHANGED <<composing, joined, calls, draft, lookup, sent, dealt>>
  BY Zenon DEF HandleVoteBrief, Become
<1>2. /\ m \in Sent("VoteBrief") /\ m \notin rcvd[n] /\ lookup[n] = {}
      /\ stat[n] = "Inited" /\ rcvd'[n] = rcvd[n] \cup {m}
      /\ \A p \in Phones \ {n} : rcvd'[p] = rcvd[p]
  BY <1>1, TakeAdds DEF Invited
<1>3. /\ currentVote'[n] = [from |-> m.from, topic |-> m.topic, parties |-> 0]
      /\ stat'[n] = "GotNewVote"
      /\ \A p \in Phones \ {n} : stat'[p] = stat[p] /\ currentVote'[p] = currentVote[p]
  BY <1>1 DEF TypeOK
<1>4. m = InvitationTo(m.topic) /\ m.topic \in Topics /\ m.from = m.topic.starter /\ m \in sent
  BY <1>2, InvitationFields DEF RefusalInv, BriefsAreInvitations, TypeOK, Sent
<1>5. InStep(n) /\ Standing(n)
  BY DEF DealersInv, RefusalInv
<1>6. ~Announcing(n) /\ calls[n] \notin {{"Confirmed"}, {"Inited"}}
  <2>1. ~Filling(n)
    BY <1>1, TakesNotWhileFilling
  <2> QED
    BY <1>2, <1>5, <2>1
       DEF InStep, AnnouncesUndisturbed, Announcing, Standing, OneCallAtATime
<1>7. OwnStep(n)
  BY <1>1, <1>2, <1>3 DEF OwnStep
<1>8. InStep(n)'
  <2>1. NoEarlyStart(n)' /\ AnnouncesUndisturbed(n)' /\ LooksUpOwn(n)'
    BY <1>1, <1>2, <1>5, <1>6
       DEF InStep, NoEarlyStart, AnnouncesUndisturbed, Announcing, Filling, LooksUpOwn
  <2>2. OfItsStarter(n)'
    BY <1>1, <1>3, <1>4, InvitationStays DEF OfItsStarter
  <2>3. JoinedWaits(n)'
    <3>1. \A t : Begun(t)' = Begun(t)
      BY <1>1 DEF Begun, Sent
    <3>2. calls[n] # {"Store"}
      BY <1>6 DEF Announcing, Filling
    <3>3. ASSUME NEW t \in joined[n]
          PROVE  Begun(t) \cap rcvd[n] # {}
      BY <1>2, <1>5, <3>2 DEF InStep, JoinedWaits, WaitsFor
    <3> QED
      BY <1>1, <1>2, <3>1, <3>3 DEF JoinedWaits
  <2>4. Counted(n)'
    BY <1>3 DEF Counted, FreshForm
  <2> QED
    BY <2>1, <2>2, <2>3, <2>4 DEF InStep
<1>9. ASSUME NEW b \in Sent("VoteParams")
      PROVE  currentVote'[n].topic # b.topic
  BY <1>2, <1>3, <1>4, <1>9 DEF DealersInv, BegunFrozen, Frozen
<1> QED
  BY <1>1, <1>7, <1>8, <1>9, QuietAgrees DEF QuietStep

\* An answer is to the phone's own vote, and one it has not counted yet.
LEMMA HandleVoteAcceptAgrees ==
  ASSUME Inv, TypeOK', NEW n \in Phones, HandleVoteAccept(n)
  PROVE  DealersInv'
<1> USE DEF Inv
<1>1. PICK m \in Arriving(n, "VoteAcceptation") :
        /\ Take(n, m) /\ stat[n] = "Confirmed"
        /\ currentVote' = [currentVote EXCEPT ![n].parties = PlusOne(@)]
        /\ UNCHANGED <<stat, composing, joined, calls, draft, lookup, sent, dealt>>
  BY Zenon DEF HandleVoteAccept
<1>2. /\ m \in Sent("VoteAcceptation") /\ n \in m.to /\ m \notin rcvd[n] /\ lookup[n] = {}
      /\ rcvd'[n] = rcvd[n] \cup {m}
      /\ \A p \in Phones \ {n} : rcvd'[p] = rcvd[p]
  BY <1>1, TakeAdds
<1>3. PICK t : t = currentVote[n].topic
  OBVIOUS
<1>4. /\ \A p \in Phones \ {n} : currentVote'[p] = currentVote[p]
      /\ currentVote'[n].from = currentVote[n].from
      /\ currentVote'[n].topic = t
      /\ currentVote'[n].parties = currentVote[n].parties + 1
  BY <1>1, <1>3 DEF TypeOK, PlusOne
<1>5. InStep(n) /\ Standing(n)
  BY DEF DealersInv, RefusalInv
<1>6. OwnStep(n)
  BY <1>1, <1>2, <1>4 DEF OwnStep
<1>7. m.topic = t
  <2>1. m.topic.starter = n /\ InvitationTo(m.topic) \in Sent("VoteBrief")
    <3>1. m.to = {m.topic.starter} /\ InvitationTo(m.topic) \in rcvd[m.from] /\ m.from \in Phones
      BY <1>2 DEF DealersInv, AnswersFit, TypeOK, Sent
    <3> QED
      BY <1>2, <3>1, InvitationFields DEF TypeOK, Sent
  <2>2. m.topic \in joined[n]
    BY <2>1, InvitationFields DEF DealersInv, StartersJoined
  <2>3. Begun(m.topic) \cap rcvd[n] = {}
    <3>1. ASSUME NEW b \in Begun(m.topic) PROVE FALSE
      <4>1. Answers(m.topic) \subseteq rcvd[n]
        BY <2>1, <3>1 DEF DealersInv, BegunFrozen, Frozen, Begun
      <4> QED
        BY <1>2, <4>1 DEF Answers
    <3> QED
      BY <3>1
  <2> QED
    BY <1>3, <1>5, <2>2, <2>3 DEF InStep, JoinedWaits, WaitsFor
<1>8. InStep(n)'
  <2>1. NoEarlyStart(n)' /\ LooksUpOwn(n)' /\ OfItsStarter(n)'
    BY <1>1, <1>2, <1>3, <1>4, <1>5, InvitationStays
       DEF InStep, NoEarlyStart, LooksUpOwn, OfItsStarter
  <2>2. AnnouncesUndisturbed(n)'
    <3>1. Unannounced(n, t) => Unannounced(n, t)'
      <4>1. Sent("VoteBrief")' = Sent("VoteBrief")
        BY <1>1 DEF Sent
      <4> QED
        BY <4>1, CalmUnannounced
    <3>2. Announcing(n)' = Announcing(n) /\ Filling(n)' = Filling(n)
      BY <1>1 DEF Announcing, Filling
    <3> QED
      BY <1>1, <1>3, <1>4, <1>5, <3>1, <3>2, InvitationStays DEF InStep, AnnouncesUndisturbed
  <2>3. JoinedWaits(n)'
    <3>1. \A u : Begun(u)' = Begun(u)
      BY <1>1 DEF Begun, Sent
    <3> QED
      BY <1>1, <1>2, <1>3, <1>4, <1>5, <3>1 DEF InStep, JoinedWaits, WaitsFor
  <2>4. Counted(n)'
    <3> DEFINE A == Answers(t)
    <3>1. (Answers(currentVote[n].topic) \cap rcvd[n])' = (A \cap rcvd[n]) \cup {m}
      <4>1. Answers(t)' = Answers(t)
        BY <1>1 DEF Answers, Sent
      <4>2. m \in Answers(t)
        BY <1>2, <1>7 DEF Answers
      <4> QED
        BY <1>2, <1>4, <4>1, <4>2
    <3>2. Cardinality((A \cap rcvd[n]) \cup {m}) = Cardinality(A \cap rcvd[n]) + 1
      <4>1. IsFiniteSet(A \cap rcvd[n])
        BY Finite, FS_Subset
      <4> QED
        BY <1>2, <4>1, FS_AddElement
    <3>3. currentVote[n].from = n => currentVote[n].parties = Cardinality(A \cap rcvd[n]) + 1
      BY <1>1, <1>3, <1>5 DEF InStep, Counted
    <3> QED
      BY <1>1, <1>4, <3>1, <3>2, <3>3 DEF Counted, FreshForm
  <2> QED
    BY <2>1, <2>2, <2>3, <2>4 DEF InStep
<1> QED
  BY <1>1, <1>6, <1>8, QuietAgrees DEF QuietStep

LEMMA HandleVoteParamsAgrees ==
  ASSUME OrderlyUsers, Inv, TypeOK', NEW n \in Phones, HandleVoteParams(n)
  PROVE  DealersInv'
<1> USE DEF Inv
<1>1. PICK m \in Arriving(n, "VoteParams") :
        /\ Take(n, m) /\ TakesParams(n, m)
        /\ lookup' = [lookup EXCEPT ![n] = {[topic |-> currentVote[n].topic, params |-> m]}]
        /\ UNCHANGED <<stat, currentVote, composing, joined, calls, draft, sent, dealt>>
  BY Zenon DEF HandleVoteParams
<1>2. /\ m \in Sent("VoteParams") /\ n \in m.to /\ m \notin rcvd[n] /\ stat[n] = "Confirmed"
      /\ rcvd'[n] = rcvd[n] \cup {m}
      /\ \A p \in Phones \ {n} : rcvd'[p] = rcvd[p]
  BY <1>1, TakeAdds DEF TakesParams
<1>3. /\ lookup'[n] = {[topic |-> currentVote[n].topic, params |-> m]}
      /\ \A p \in Phones \ {n} : lookup'[p] = lookup[p]
  BY <1>1 DEF TypeOK
<1>4. InStep(n) /\ Standing(n)
  BY DEF DealersInv, RefusalInv
<1>5. currentVote[n].topic = m.topic
  BY <1>2, ParamsAreOwn DEF WaitsFor
<1>6. ~Announcing(n)
  <2>1. InvitationTo(m.topic) \in sent
    BY <1>2 DEF DealersInv, BegunFrozen, Frozen, TypeOK
  <2> QED
    BY <1>4, <1>5, <2>1 DEF InStep, AnnouncesUndisturbed, Unannounced
<1>7. OwnStep(n)
  BY <1>1, <1>2, <1>3 DEF OwnStep
<1>8. InStep(n)'
  <2>1. NoEarlyStart(n)' /\ AnnouncesUndisturbed(n)' /\ OfItsStarter(n)'
    BY <1>1, <1>4, <1>6, InvitationStays
       DEF InStep, NoEarlyStart, AnnouncesUndisturbed, Announcing, Filling, OfItsStarter
  <2>2. LooksUpOwn(n)'
    BY <1>1, <1>2, <1>3, <1>5 DEF LooksUpOwn
  <2>3. JoinedWaits(n)'
    <3>1. \A u : Begun(u)' = Begun(u)
      BY <1>1 DEF Begun, Sent
    <3> QED
      BY <1>1, <1>2, <1>4, <3>1 DEF InStep, JoinedWaits, WaitsFor
  <2>4. Counted(n)'
    <3>1. \A u : Answers(u)' \cap rcvd'[n] = Answers(u) \cap rcvd[n]
      BY <1>1, <1>2 DEF Answers, Sent
    <3> QED
      BY <1>1, <1>4, <3>1 DEF InStep, Counted, FreshForm
  <2> QED
    BY <2>1, <2>2, <2>3, <2>4 DEF InStep
<1> QED
  BY <1>1, <1>2, <1>7, <1>8, QuietAgrees DEF QuietStep

\* The look-up is over, and the phone is still in the vote it was for.
LEMMA EnterRoundAgrees ==
  ASSUME Inv, TypeOK', NEW n \in Phones, EnterRound(n)
  PROVE  DealersInv'
<1> USE DEF Inv
<1>1. PICK l \in lookup[n] :
        /\ lookup' = [lookup EXCEPT ![n] = {}]
        /\ dealt' = dealt \cup
             {[from |-> n, topic |-> currentVote[n].topic, of |-> l.params.topic,
               view |-> FindPeers(l.topic), n |-> l.params.n, t |-> l.params.t]}
        /\ currentVote' = [currentVote EXCEPT ![n].parties = Cardinality(FindPeers(l.topic))]
        /\ stat' = [stat EXCEPT ![n] = "InRound"]
        /\ UNCHANGED <<composing, joined, calls, draft, sent, rcvd>>
  BY DEF EnterRound, Become
<1>2. InStep(n)
  BY DEF DealersInv
<1>3. PICK t : t = currentVote[n].topic
  OBVIOUS
<1>4. /\ stat[n] = "Confirmed" /\ l.params \in rcvd[n] /\ l.params \in Begun(t)
      /\ l.topic = t /\ l.params.topic = t
  BY <1>2, <1>3 DEF InStep, LooksUpOwn, TypeOK, Begun
<1>5. /\ currentVote'[n].topic = t /\ stat'[n] = "InRound" /\ lookup'[n] = {}
      /\ \A p \in Phones \ {n} : /\ stat'[p] = stat[p] /\ lookup'[p] = lookup[p]
                                 /\ currentVote'[p] = currentVote[p]
  BY <1>1, <1>3 DEF TypeOK
<1>6. OwnStep(n)
  BY <1>1, <1>5 DEF OwnStep
<1>7. \A u : Begun(u)' = Begun(u)
  BY <1>1 DEF Begun, Sent
<1>8. ~Announcing(n)
  BY <1>2 DEF InStep, AnnouncesUndisturbed
<1>9. InStep(n)'
  <2>1. /\ NoEarlyStart(n)' /\ AnnouncesUndisturbed(n)' /\ OfItsStarter(n)' /\ LooksUpOwn(n)'
        /\ Counted(n)'
    BY <1>1, <1>2, <1>5, <1>8
       DEF InStep, NoEarlyStart, AnnouncesUndisturbed, Announcing, Filling, OfItsStarter,
           LooksUpOwn, Counted, FreshForm
  <2>2. JoinedWaits(n)'
    <3>1. calls[n] # {"Store"}
      BY <1>8 DEF Announcing, Filling
    <3>2. ASSUME NEW u \in joined[n]
          PROVE  Begun(u) \cap rcvd[n] # {}
      BY <1>2, <1>3, <1>4, <3>1 DEF InStep, JoinedWaits, WaitsFor
    <3> QED
      BY <1>1, <1>7, <3>2 DEF JoinedWaits
  <2> QED
    BY <2>1, <2>2 DEF InStep
<1>10. StartersJoined' /\ AnswersFit' /\ BegunFrozen' /\ Headcount'
  BY <1>1, <1>5, <1>6, QuietShares
<1>11. DealtAsBegun'
  <2>1. Frozen(l.params)
    BY <1>4 DEF DealersInv, BegunFrozen, Begun
  <2>2. FindPeers(t) = l.params.to
    BY <1>4, <2>1 DEF Frozen
  <2> QED
    BY <1>1, <1>3, <1>4, <1>7, <2>2 DEF DealersInv, DealtAsBegun
<1> QED
  BY <1>6, <1>9, <1>10, <1>11, Together DEF Shared

\* No answer that a starter has to count is thrown away.
LEMMA IgnoreAgrees ==
  ASSUME Inv, TypeOK', NEW n \in Phones, NEW type \in MessageTypes, Ignore(n, type)
  PROVE  DealersInv'
<1> USE DEF Inv
<1>1. PICK m \in Arriving(n, type) :
        /\ Take(n, m) /\ ~Welcome(n, m)
        /\ UNCHANGED <<stat, currentVote, composing, joined, calls, draft, lookup, sent, dealt>>
  BY Zenon DEF Ignore
<1>2. /\ m \in Sent(type) /\ rcvd'[n] = rcvd[n] \cup {m}
      /\ \A p \in Phones \ {n} : rcvd'[p] = rcvd[p]
  BY <1>1, TakeAdds
<1>3. InStep(n) /\ Standing(n)
  BY DEF DealersInv, RefusalInv
<1>4. OwnStep(n)
  BY <1>1, <1>2 DEF OwnStep
<1>5. InStep(n)'
  <2>1. NoEarlyStart(n)' /\ LooksUpOwn(n)' /\ OfItsStarter(n)'
    BY <1>1, <1>2, <1>3, InvitationStays DEF InStep, NoEarlyStart, LooksUpOwn, OfItsStarter
  <2>2. AnnouncesUndisturbed(n)'
    <3>1. \A t : Unannounced(n, t) => Unannounced(n, t)'
      <4>1. Sent("VoteBrief")' = Sent("VoteBrief")
        BY <1>1 DEF Sent
      <4> QED
        BY <4>1, CalmUnannounced
    <3>2. Announcing(n)' = Announcing(n) /\ Filling(n)' = Filling(n)
      BY <1>1 DEF Announcing, Filling
    <3> QED
      BY <1>1, <1>3, <3>1, <3>2, InvitationStays DEF InStep, AnnouncesUndisturbed
  <2>3. JoinedWaits(n)'
    <3>1. \A u : Begun(u)' = Begun(u)
      BY <1>1 DEF Begun, Sent
    <3> QED
      BY <1>1, <1>2, <1>3, <3>1 DEF InStep, JoinedWaits, WaitsFor
  <2>4. Counted(n)'
    <3>1. stat[n] = "Confirmed" => m.type # "VoteAcceptation"
      BY <1>1 DEF Welcome
    <3>2. stat[n] = "Confirmed" => \A u : Answers(u)' \cap rcvd'[n] = Answers(u) \cap rcvd[n]
      BY <1>1, <1>2, <3>1 DEF Answers, Sent
    <3> QED
      BY <1>1, <1>3, <3>2 DEF InStep, Counted, FreshForm
  <2> QED
    BY <2>1, <2>2, <2>3, <2>4 DEF InStep
<1> QED
  BY <1>1, <1>4, <1>5, QuietAgrees, AskedBeforeBegun DEF QuietStep

LEMMA FinishAgrees ==
  ASSUME Inv, TypeOK', NEW n \in Phones, Finish(n)
  PROVE  DealersInv'
<1> USE DEF Inv
<1>1. /\ stat[n] = "InRound" /\ lookup[n] = {} /\ stat'[n] = "Inited"
      /\ \A p \in Phones \ {n} : stat'[p] = stat[p]
      /\ UNCHANGED <<currentVote, composing, joined, calls, draft, lookup, sent, rcvd, dealt>>
  BY DEF Finish, Become, TypeOK
<1>2. currentVote[n].topic # NoVote
  <2>1. PICK d \in dealt : d.topic = currentVote[n].topic
    BY DEF Finish
  <2>2. PICK m \in Begun(d.topic) : TRUE
    BY DEF DealersInv, DealtAsBegun
  <2> QED
    BY <2>1, <2>2, PhonesAssumption DEF Begun, DealersInv, BegunFrozen, Frozen
<1>3. InStep(n)
  BY DEF DealersInv
<1>4. ~Announcing(n)
  BY <1>1, <1>3 DEF InStep, AnnouncesUndisturbed
<1>5. InStep(n)'
  <2>1. /\ NoEarlyStart(n)' /\ AnnouncesUndisturbed(n)' /\ LooksUpOwn(n)' /\ OfItsStarter(n)'
        /\ Counted(n)'
    BY <1>1, <1>2, <1>3, <1>4
       DEF InStep, NoEarlyStart, AnnouncesUndisturbed, Announcing, Filling, LooksUpOwn,
           OfItsStarter, Counted, FreshForm
  <2>2. JoinedWaits(n)'
    <3>1. \A u : Begun(u)' = Begun(u)
      BY <1>1 DEF Begun, Sent
    <3>2. calls[n] # {"Store"}
      BY <1>4 DEF Announcing, Filling
    <3> QED
      BY <1>1, <1>3, <3>1, <3>2 DEF InStep, JoinedWaits, WaitsFor
  <2> QED
    BY <2>1, <2>2 DEF InStep
<1>6. QuietStep(n)
  BY <1>1 DEF QuietStep, OwnStep
<1> QED
  BY <1>1, <1>5, <1>6, QuietAgrees

-----------------------------------------------------------------------------
(* The theorems *)

LEMMA InitAgrees == Init => DealersInv
<1> SUFFICES ASSUME Init PROVE DealersInv
  OBVIOUS
<1>1. Sent("VoteBrief") = {} /\ Sent("VoteParams") = {} /\ Sent("VoteAcceptation") = {}
  BY DEF Init, Sent
<1>2. StartersJoined /\ AnswersFit /\ BegunFrozen /\ Headcount /\ DealtAsBegun
  BY <1>1 DEF Init, StartersJoined, AnswersFit, BegunFrozen, Headcount, DealtAsBegun
<1>3. \A n \in Phones : InStep(n)
  BY DEF Init, InStep, NoEarlyStart, AnnouncesUndisturbed, Announcing, Filling, LooksUpOwn,
         OfItsStarter, JoinedWaits, Counted, FreshForm
<1> QED
  BY <1>2, <1>3 DEF DealersInv

LEMMA AgreesStep == Inv /\ OrderlyUsers /\ [Next]_vars => Inv'
<1> SUFFICES ASSUME Inv, OrderlyUsers, [Next]_vars PROVE Inv'
  OBVIOUS
<1>1. TypeOK' /\ RefusalInv'
  BY TypedStep, RefusalStep DEF Inv, OrderlyUsers
<1>2. ASSUME NEW n \in Phones, Loop(n) \/ User(n) \/ Proceed(n)
      PROVE  DealersInv'
  <2>1. CASE Loop(n)
    BY <1>1, <2>1, HandleVoteBriefAgrees, HandleVoteAcceptAgrees, HandleVoteParamsAgrees,
       EnterRoundAgrees, FinishAgrees, IgnoreAgrees DEF Loop
  <2>2. CASE User(n)
    <3>1. ~CancelVote(n)
      BY DEF CancelVote, OrderlyUsers
    <3> QED
      BY <1>1, <2>2, <3>1, CreateNewVoteAgrees, SendBriefAgrees, ConfirmNewVoteAgrees,
         RefuseNewVoteAgrees, BeginVoteAgrees DEF User
  <2>3. CASE Proceed(n)
    <3>1. ~EarlyStart(n)
      BY DEF EarlyStart, Inv, DealersInv, InStep, NoEarlyStart
    <3> QED
      BY <1>1, <2>3, <3>1, GenVoteBriefAgrees, JoinVoteAgrees, StoreConfirmedAgrees,
         AnnounceAgrees, ReturnAgrees DEF Proceed
  <2> QED
    BY <1>2, <2>1, <2>2, <2>3
<1>3. CASE UNCHANGED vars
  <2>1. /\ UNCHANGED <<stat, currentVote, joined, calls, draft, lookup, sent, rcvd, dealt>>
        /\ TypeOK /\ DealersInv
    BY <1>3 DEF vars, Inv
  <2>2. /\ \A k : Sent(k)' = Sent(k)
        /\ \A t : /\ Answers(t)' = Answers(t) /\ Begun(t)' = Begun(t)
                  /\ FindPeers(t)' = FindPeers(t)
    BY <2>1 DEF Sent, Answers, Begun, FindPeers
  <2>3. \A t : Agreed(t)' = Agreed(t)
    BY <2>2 DEF Agreed
  <2>4. StartersJoined' /\ AnswersFit' /\ BegunFrozen' /\ Headcount' /\ DealtAsBegun'
    BY <2>1, <2>2, <2>3, InvitationStays
       DEF DealersInv, StartersJoined, AnswersFit, BegunFrozen, Frozen, Headcount, DealtAsBegun
  <2>5. ASSUME NEW n \in Phones PROVE InStep(n)'
    <3>1. InStep(n)
      BY <2>1 DEF DealersInv
    <3> QED
      BY <2>1, <2>2, <3>1, InvitationStays
         DEF InStep, NoEarlyStart, AnnouncesUndisturbed, Announcing, Filling, LooksUpOwn,
             OfItsStarter, JoinedWaits, WaitsFor, Counted, FreshForm, Unannounced
  <2> QED
    BY <1>1, <2>4, <2>5 DEF Inv, DealersInv
<1> QED
  BY <1>1, <1>2, <1>3 DEF Next, Inv

\* While a vote is being recruited its answers are counted, its starter's
\* "begin" closes it, and who has joined waits for its parameters, through the
\* look-up of its parties (server.go:71-177, 324-420).
THEOREM DealersInvariant == OrderlyUsers => (Spec => []DealersInv)
<1> SUFFICES ASSUME OrderlyUsers PROVE Spec => []DealersInv
  OBVIOUS
<1>1. Init => Inv
  BY InitTyped, RefusalInit, InitAgrees DEF Inv
<1>2. Inv /\ [Next]_vars => Inv'
  BY AgreesStep
<1>3. Inv => DealersInv
  BY DEF Inv
<1> QED
  BY <1>1, <1>2, <1>3, PTL DEF Spec
\* Nobody takes another vote's parameters for those of its own, although the
\* handler compares no topics (handleVoteParams, server.go:362-376).
THEOREM ParamsAreOfTheVote == OrderlyUsers => (Spec => []OwnParams)
<1> SUFFICES ASSUME OrderlyUsers PROVE Spec => []OwnParams
  OBVIOUS
<1>1. DealersInv => OwnParams
  BY DEF DealersInv, DealtAsBegun, OwnParams
<1> QED
  BY <1>1, DealersInvariant, PTL

\* All dealers of a vote have found the same parties and use the same T
\* (handleVoteParams, server.go:366-372).
THEOREM DealersAgree == OrderlyUsers => (Spec => []SameViews)
<1> SUFFICES ASSUME OrderlyUsers PROVE Spec => []SameViews
  OBVIOUS
<1>1. DealersInv => SameViews
  <2> SUFFICES ASSUME DealersInv, NEW d \in dealt, NEW e \in dealt, d.topic = e.topic
               PROVE  d.view = e.view /\ d.t = e.t
    BY DEF SameViews
  <2>1. PICK m \in Begun(d.topic) : d.view = m.to /\ d.t = m.t
    BY DEF DealersInv, DealtAsBegun
  <2>2. PICK b \in Begun(d.topic) : e.view = b.to /\ e.t = b.t
    BY DEF DealersInv, DealtAsBegun
  <2>3. Begun(d.topic) = {m}
    BY <2>1 DEF DealersInv, BegunFrozen, Frozen, Begun
  <2> QED
    BY <2>1, <2>2, <2>3
<1> QED
  BY <1>1, DealersInvariant, PTL

\* If nobody has refused, every dealer finds as many parties as the starter has
\* counted answers, itself included (BeginVote, handleVoteAccept, server.go:371).
THEOREM CountsMatch == OrderlyUsers => (Spec => []NoMismatch)
<1> SUFFICES ASSUME OrderlyUsers PROVE Spec => []NoMismatch
  OBVIOUS
<1>1. DealersInv => NoMismatch
  <2> SUFFICES ASSUME DealersInv, NEW d \in dealt, \A m \in Sent("VoteAcceptation") : m.result
               PROVE  Cardinality(d.view) = d.n
    BY DEF NoMismatch
  <2>1. PICK m \in Begun(d.topic) : d.view = m.to /\ d.n = m.n
    BY DEF DealersInv, DealtAsBegun
  <2>2. m.topic = d.topic /\ Frozen(m)
    BY <2>1 DEF DealersInv, BegunFrozen, Begun
  <2>3. Agreed(m.topic)
    BY DEF Agreed, Answers
  <2> QED
    BY <2>1, <2>2, <2>3 DEF Frozen
<1> QED
  BY <1>1, DealersInvariant, PTL

=============================================================================
