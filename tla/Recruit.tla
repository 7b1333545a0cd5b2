------------------------------ MODULE Recruit ------------------------------
(***************************************************************************)
(* How a vote finds its parties: one phone announces a vote to all         *)
(* (VoteBrief), every other phone confirms or refuses (VoteAcceptation),   *)
(* the starter counts the answers and, when its user presses "begin",      *)
(* sends the parameters N and T (VoteParams).  Each phone that takes them  *)
(* looks the parties up in the DHT and deals shares of its key to the      *)
(* parties it found.  What follows is module VoteRound; here a round is    *)
(* the single state InRound, left when every party of the phone's view     *)
(* has dealt too.  Several votes may follow or overlap each other.         *)
(***************************************************************************)
EXTENDS Naturals, FiniteSets

CONSTANTS
  Phones,     \* every phone on the network
  NoVote,     \* the nil currentVote, and the Topic of a vote not yet announced
  Slips,      \* what the users and the scheduler may get wrong, see below
  MaxBriefs,  \* how many votes may be announced in all (bounds the model)
  MaxForms,   \* how often the form of a new vote may be opened (bounds the model)
  MaxBegins,  \* how often "begin" may be pressed in one vote (bounds the model)
  MaxEarly    \* how often SendBrief may start a vote itself (bounds the model)

(***************************************************************************)
(*   refuse  a user refuses a vote                                         *)
(*   cancel  a user presses "cancel" after confirming or announcing        *)
(*   late    "begin" is pressed before every answer has come in            *)
(*   form    the form of a new vote is sent although CreateNewVote was     *)
(*           refused, or a vote has come in since                          *)
(*   early   the goroutine of SendBrief is not scheduled within 5 ms       *)
(*   store   the loop goroutine runs between a call's send and its         *)
(*           assignment to Stat                                            *)
(*   brief   the loop goroutine runs while SendBrief joins its topic,      *)
(*           before it stores Stat                                         *)
(*   torn    the loop goroutine runs between the SetTopic of SendBrief and *)
(*           the message made from it                                      *)
(***************************************************************************)
SlipNames == {"refuse", "cancel", "late", "form", "early", "store", "brief", "torn"}

ASSUME SlipsAssumption  == Slips \subseteq SlipNames
ASSUME BoundsAssumption ==
  /\ MaxBriefs \in Nat \ {0} /\ MaxBegins \in Nat \ {0}
  /\ MaxForms \in Nat /\ MaxEarly \in Nat

VARIABLES
  stat,         \* s.Stat; InRound stands for GotParams up to SentResult
  currentVote,  \* From and Topic of s.currentVote, and the length of Parties
  composing,    \* the user has opened the form of a new vote
  joined,       \* the topics a phone has joined and advertises
  calls,        \* what the call under way on a phone still has to do
  draft,        \* the message that SendBrief has made and not sent yet
  lookup,       \* the VoteParams whose handler is looking up the parties of a topic
  sent,         \* every message ever sent
  rcvd,         \* the messages each phone's loop has taken
  dealt         \* with which vote, parties and T each phone has dealt shares

vars == <<stat, currentVote, composing, joined, calls, draft, lookup, sent, rcvd, dealt>>

NodeStat == {"Inited", "GotNewVote", "Confirmed", "InRound"}

\* Topic is a hash of title, time and starter: every announcement has its own.
Topics == [starter : Phones, no : 1..MaxBriefs]

ASSUME PhonesAssumption == IsFiniteSet(Phones) /\ NoVote \notin Phones \cup Topics

Brief(n, v)       == [type |-> "VoteBrief", from |-> v.from, topic |-> v.topic,
                      to |-> Phones, by |-> n]
Accept(n, v, yes) == [type |-> "VoteAcceptation", from |-> n, topic |-> v.topic,
                      to |-> {v.from}, result |-> yes]
Params(v, t, members, k) ==
  [type |-> "VoteParams", from |-> v.from, topic |-> v.topic, to |-> members,
   n |-> v.parties, t |-> t, tap |-> k]

Sent(type) == {m \in sent : m.type = type}

-----------------------------------------------------------------------------
(* The network *)

\* Who advertises a topic.  The DHT is taken to answer everyone alike.
FindPeersSlip(topic) == {p \in Phones : joined[p] # {}}
FindPeers(topic)     == {p \in Phones : topic \in joined[p]}

Join(n, topic) == joined' = [joined EXCEPT ![n] = @ \cup {topic}]

Send(m) == sent' = sent \cup {m}

Arriving(n, type) == {m \in Sent(type) : n \in m.to /\ m \notin rcvd[n]}

\* The loop goroutine, when no handler of its own holds it, takes m.
Take(n, m) ==
  /\ lookup[n] = {}
  /\ "store" \in Slips \/ calls[n] \cap NodeStat = {}
  /\ "brief" \in Slips \/ calls[n] \cap {"Join", "Store"} = {}
  /\ "torn" \in Slips \/ "Generate" \notin calls[n]
  /\ rcvd' = [rcvd EXCEPT ![n] = @ \cup {m}]

Become(n, s) == stat' = [stat EXCEPT ![n] = s]

-----------------------------------------------------------------------------
(* Calls of the user interface.  One call at a time runs on a phone, apart *)
(* from SendBrief once it has sent its message: it then waits on a         *)
(* WaitGroup nobody ever releases and so never returns - unless the Wait   *)
(* comes before the Add.  A step runs from one call into the node or a     *)
(* channel to the next; between two steps of a call the handlers may run.  *)

Init ==
  /\ stat = [n \in Phones |-> "Inited"]
  /\ currentVote = [n \in Phones |-> [from |-> NoVote, topic |-> NoVote, parties |-> 0]]
  /\ composing = [n \in Phones |-> FALSE]
  /\ joined = [n \in Phones |-> {}]
  /\ calls = [n \in Phones |-> {}]
  /\ draft = [n \in Phones |-> {}]
  /\ lookup = [n \in Phones |-> {}]
  /\ sent = {}
  /\ rcvd = [n \in Phones |-> {}]
  /\ dealt = {}

\* What the call on n does next.
Then(n, steps) == calls' = [calls EXCEPT ![n] = steps]

Filling(n)    == calls[n] \cap {"Generate", "Join", "Store"} # {}
Announcing(n) == Filling(n) \/ "Announce" \in calls[n]

MayCreateSlip(n) == TRUE
MayCreate(n)     == stat[n] = "Inited"

\* The form opens whatever CreateNewVote decides; a refusal is only logged.
CreateNewVote(n) ==
  /\ calls[n] = {}
  /\ ~composing[n]
  /\ Cardinality(Sent("VoteBrief")) < MaxBriefs
  /\ Cardinality(Sent("VoteBrief"))
       + Cardinality({p \in Phones : composing[p] \/ Announcing(p)}) < MaxForms
  /\ composing' = [composing EXCEPT ![n] = TRUE]
  /\ currentVote' = IF MayCreate(n)
                    THEN [currentVote EXCEPT ![n] =
                           [from |-> n, topic |-> NoVote, parties |-> 0]]
                    ELSE currentVote
  /\ UNCHANGED <<stat, joined, calls, draft, lookup, sent, rcvd, dealt>>

\* What a user who makes no slip "form" looks at, since the code looks at
\* nothing: CreateNewVote was not refused, and no vote has come in since.
FreshForm(n) ==
  /\ stat[n] = "Inited"
  /\ currentVote[n].from = n /\ currentVote[n].topic = NoVote

\* SendBrief turns whatever currentVote is into the phone's own vote ...
SendBrief(n) ==
  LET k == Cardinality(Sent("VoteBrief")) + 1
  IN  /\ composing[n]
      /\ k + Cardinality({p \in Phones : Announcing(p)}) <= MaxBriefs
      /\ calls[n] = {}
      /\ "form" \in Slips \/ FreshForm(n)
      /\ composing' = [composing EXCEPT ![n] = FALSE]
      /\ currentVote' = [currentVote EXCEPT ![n] =
           [from |-> n, topic |-> [starter |-> n, no |-> k], parties |-> @.parties]]
      /\ Then(n, {"Generate"})
      /\ UNCHANGED <<stat, joined, draft, lookup, sent, rcvd, dealt>>

\* ... makes the message that announces currentVote ...
GenVoteBrief(n) ==
  /\ "Generate" \in calls[n]
  /\ draft' = [draft EXCEPT ![n] = {Brief(n, currentVote[n])}]
  /\ Then(n, {"Join"})
  /\ UNCHANGED <<stat, currentVote, composing, joined, lookup, sent, rcvd, dealt>>

\* ... joins and advertises the topic of what is currentVote by then ...
JoinVote(n) ==
  /\ "Join" \in calls[n]
  /\ Join(n, currentVote[n].topic)
  /\ Then(n, {"Store"})
  /\ UNCHANGED <<stat, currentVote, composing, draft, lookup, sent, rcvd, dealt>>

\* ... counts itself, stores Stat ...
StoreConfirmed(n) ==
  /\ "Store" \in calls[n]
  /\ currentVote' = [currentVote EXCEPT ![n].parties = @ + 1]
  /\ Become(n, "Confirmed")
  /\ Then(n, {"Announce"})
  /\ UNCHANGED <<composing, joined, draft, lookup, sent, rcvd, dealt>>

\* The Wait may come before the Add.
MayStartEarly ==
  /\ "early" \in Slips
  /\ Cardinality({m \in Sent("VoteParams") : m.tap = 0})
       + Cardinality({p \in Phones : "EarlyStart" \in calls[p]}) < MaxEarly

\* ... and only then sends the message, and waits.
Announce(n) ==
  /\ "Announce" \in calls[n]
  /\ sent' = sent \cup draft[n]
  /\ draft' = [draft EXCEPT ![n] = {}]
  /\ \E steps \in {{}} \cup (IF MayStartEarly THEN {{"EarlyStart"}} ELSE {}) :
       Then(n, steps)
  /\ UNCHANGED <<stat, currentVote, composing, joined, lookup, rcvd, dealt>>

EarlyThreshold(n) == Cardinality(FindPeers(currentVote[n].topic)) \div 2

\* The end of SendBrief, reached only when wg.Wait ran before wg.Add(1).
EarlyStart(n) ==
  /\ "EarlyStart" \in calls[n]
  /\ Send(Params(currentVote[n], EarlyThreshold(n), FindPeers(currentVote[n].topic), 0))
  /\ Then(n, {"InRound"})
  /\ UNCHANGED <<stat, currentVote, composing, joined, draft, lookup, rcvd, dealt>>

MayConfirmSlip(n) == stat[n] \in {"GotNewVote", "Inited"}
MayConfirm(n)     == stat[n] = "GotNewVote"

ConfirmNewVote(n) ==
  /\ MayConfirm(n)
  /\ calls[n] = {}
  /\ Join(n, currentVote[n].topic)
  /\ Send(Accept(n, currentVote[n], TRUE))
  /\ Then(n, {"Confirmed"})
  /\ UNCHANGED <<stat, currentVote, composing, draft, lookup, rcvd, dealt>>

AfterRefusalSlip == "GotNewVote"
AfterRefusal     == "Inited"

RefuseNewVote(n) ==
  /\ "refuse" \in Slips
  /\ stat[n] = "GotNewVote"
  /\ calls[n] = {}
  /\ Send(Accept(n, currentVote[n], FALSE))
  /\ Then(n, {AfterRefusal})
  /\ UNCHANGED <<stat, currentVote, composing, joined, draft, lookup, rcvd, dealt>>

\* The call stores Stat and returns.
Return(n) ==
  \E s \in calls[n] \cap NodeStat :
    /\ Then(n, {})
    /\ Become(n, s)
    /\ UNCHANGED <<currentVote, composing, joined, draft, lookup, sent, rcvd, dealt>>

\* The users agree, and the starter has been told so.
Settled(n) ==
  /\ \A p \in Phones : Arriving(p, "VoteBrief") = {} /\ stat[p] # "GotNewVote"
  /\ Arriving(n, "VoteAcceptation") = {}

Threshold(k)    == k \div 2 + 1

\* Pressed by the user who announced the vote.
BeginVote(n) ==
  LET v == currentVote[n]
      k == Cardinality({m \in Sent("VoteParams") : m.topic = v.topic}) + 1
  IN  /\ stat[n] = "Confirmed" /\ v.from = n
      /\ calls[n] = {}
      /\ k <= MaxBegins
      /\ "late" \in Slips \/ Settled(n)
      /\ Send(Params(v, Threshold(v.parties), FindPeers(v.topic), k))
      /\ UNCHANGED <<stat, currentVote, composing, joined, calls, draft, lookup, rcvd, dealt>>

CancelVote(n) ==
  /\ "cancel" \in Slips
  /\ stat[n] = "Confirmed"
  /\ calls[n] = {}
  /\ Become(n, "Inited")
  /\ UNCHANGED <<currentVote, composing, joined, calls, draft, lookup, sent, rcvd, dealt>>

-----------------------------------------------------------------------------
(* The handlers *)

InvitedSlip(n, m) == m.from # n /\ stat[n] \in {"Inited", "Confirmed"}
Invited(n, m)     == m.from # n /\ stat[n] = "Inited"

HandleVoteBrief(n) ==
  \E m \in Arriving(n, "VoteBrief") :
    /\ Take(n, m)
    /\ Invited(n, m)
    /\ currentVote' = [currentVote EXCEPT ![n] =
         [from |-> m.from, topic |-> m.topic, parties |-> 0]]
    /\ Become(n, "GotNewVote")
    /\ UNCHANGED <<composing, joined, calls, draft, lookup, sent, dealt>>

PlusOneSlip(k) == k
PlusOne(k)     == k + 1

\* An answer counts whatever it says and whichever vote it answers.
HandleVoteAccept(n) ==
  \E m \in Arriving(n, "VoteAcceptation") :
    /\ Take(n, m)
    /\ stat[n] = "Confirmed"
    /\ currentVote' = [currentVote EXCEPT ![n].parties = PlusOne(@)]
    /\ UNCHANGED <<stat, composing, joined, calls, draft, lookup, sent, dealt>>

TakesParamsSlip(n, m) == m.from # n /\ stat[n] = "Confirmed"
TakesParams(n, m)     == stat[n] = "Confirmed"

\* The look-up of the parties takes its time ...
HandleVoteParams(n) ==
  \E m \in Arriving(n, "VoteParams") :
    /\ Take(n, m)
    /\ TakesParams(n, m)
    /\ lookup' = [lookup EXCEPT ![n] = {[topic |-> currentVote[n].topic, params |-> m]}]
    /\ UNCHANGED <<stat, currentVote, composing, joined, calls, draft, sent, dealt>>

\* ... and the handler goes on with whatever Stat and currentVote are by then.
\* N is what the phone's own look-up says; T is the starter's.
EnterRound(n) ==
  \E l \in lookup[n] :
    LET peers == FindPeers(l.topic)
    IN  /\ lookup' = [lookup EXCEPT ![n] = {}]
        /\ dealt' = dealt \cup
             {[from |-> n, topic |-> currentVote[n].topic, of |-> l.params.topic,
               view |-> peers, n |-> l.params.n, t |-> l.params.t]}
        /\ currentVote' = [currentVote EXCEPT ![n].parties = Cardinality(peers)]
        /\ Become(n, "InRound")
        /\ UNCHANGED <<composing, joined, calls, draft, sent, rcvd>>

MessageTypes == {"VoteBrief", "VoteAcceptation", "VoteParams"}

Welcome(n, m) ==
  CASE m.type = "VoteBrief"       -> Invited(n, m)
    [] m.type = "VoteAcceptation" -> stat[n] = "Confirmed"
    [] m.type = "VoteParams"      -> TakesParams(n, m)

\* A handler's early return: the message is lost.
Ignore(n, type) ==
  \E m \in Arriving(n, type) :
    /\ Take(n, m)
    /\ ~Welcome(n, m)
    /\ UNCHANGED <<stat, currentVote, composing, joined, calls, draft, lookup, sent, dealt>>

\* The round of VoteRound in one step: it cannot end before every party the
\* phone found has dealt it a share.
Finish(n) ==
  /\ stat[n] = "InRound" /\ lookup[n] = {}
  /\ \E d \in dealt :
       /\ d.from = n /\ d.topic = currentVote[n].topic
       /\ \A p \in d.view : \E e \in dealt : e.from = p /\ e.topic = d.topic
  /\ Become(n, "Inited")
  /\ UNCHANGED <<currentVote, composing, joined, calls, draft, lookup, sent, rcvd, dealt>>

Loop(n) ==
  \/ HandleVoteBrief(n) \/ HandleVoteAccept(n) \/ HandleVoteParams(n) \/ EnterRound(n)
  \/ Finish(n)
  \/ \E type \in MessageTypes : Ignore(n, type)

User(n) ==
  \/ CreateNewVote(n) \/ SendBrief(n) \/ ConfirmNewVote(n) \/ RefuseNewVote(n)
  \/ BeginVote(n) \/ CancelVote(n)

\* What is left of a call.
Proceed(n) ==
  \/ GenVoteBrief(n) \/ JoinVote(n) \/ StoreConfirmed(n) \/ Announce(n)
  \/ EarlyStart(n) \/ Return(n)

Next == \E n \in Phones : Loop(n) \/ User(n) \/ Proceed(n)

Spec == Init /\ [][Next]_vars

\* The program's own steps are never stopped and every message arrives.
Running == \A n \in Phones : WF_vars(Loop(n)) /\ WF_vars(Proceed(n))

\* And the users answer what they are asked and begin what they announced.
FairSpec ==
  Spec /\ Running /\ \A n \in Phones : WF_vars(ConfirmNewVote(n) \/ BeginVote(n))

-----------------------------------------------------------------------------
(* Properties *)

Dealings == [from : Phones, topic : Topics \cup {NoVote}, of : Topics \cup {NoVote},
             view : SUBSET Phones, n : Nat, t : Nat]

Steps == {"Generate", "Join", "Store", "Announce", "EarlyStart",
          "Confirmed", "Inited", "InRound"}

\* Type correctness of server's fields, and of the messages of this phase.
TypeOK ==
  /\ stat \in [Phones -> NodeStat]
  /\ currentVote \in [Phones -> [from : Phones \cup {NoVote},
                                 topic : Topics \cup {NoVote}, parties : Nat]]
  /\ \A n \in Phones : stat[n] = "GotNewVote" \/ Filling(n) =>
       currentVote[n].from \in Phones /\ currentVote[n].topic \in Topics
  /\ composing \in [Phones -> BOOLEAN]
  /\ joined \in [Phones -> SUBSET Topics]
  /\ calls \in [Phones -> SUBSET Steps]
  /\ IsFiniteSet(sent)
  /\ \A m \in sent :
       /\ m.type \in MessageTypes /\ m.to \subseteq Phones
       /\ m.type = "VoteParams" =>
            m.topic \in Topics \cup {NoVote} /\ m.n \in Nat /\ m.t \in Nat
       /\ m.type # "VoteParams" => m.topic \in Topics /\ m.from \in Phones
  /\ draft \in [Phones -> SUBSET [type : {"VoteBrief"}, from : Phones, topic : Topics,
                                 to : {Phones}, by : Phones]]
  /\ \A n \in Phones : IsFiniteSet(draft[n])
  /\ lookup \in [Phones -> SUBSET [topic : Topics \cup {NoVote}, params : Sent("VoteParams")]]
  /\ rcvd \in [Phones -> SUBSET sent]
  /\ dealt \subseteq Dealings

\* The parties of one vote found the same parties and use the same T: identifiers
\* are positions in the list of parties (GetID), so shares dealt under different
\* lists do not belong together.
SameViews ==
  \A d, e \in dealt : d.topic = e.topic => d.view = e.view /\ d.t = e.t

\* Unless somebody refused - the starter counts refusals too - every phone
\* finds as many parties as the starter counted (server.go:370-371).
NoMismatch ==
  \A d \in dealt :
    (\A m \in Sent("VoteAcceptation") : m.result) => Cardinality(d.view) = d.n

\* A phone enters the round of a vote on that vote's own parameters: the topic
\* identifies the vote (vote.go:17).
OwnParams == \A d \in dealt : d.of = d.topic

\* A phone that has refused a vote never deals shares in it, whatever it is
\* asked and does afterwards.
RefuserStaysOut ==
  \A m \in Sent("VoteAcceptation"), d \in dealt :
    ~m.result /\ d.from = m.from => d.topic # m.topic

(***************************************************************************)
(* Why RefuserStaysOut holds: a phone deals in the vote it is in, or in one*)
(* of its own; it gets into a vote of another only by taking its brief,    *)
(* which reaches it once; and once it has refused the vote, it is no       *)
(* longer in it.  Sound only if SendBrief announces what it has filled in. *)
(***************************************************************************)
InvitationTo(t) == Brief(t.starter, [from |-> t.starter, topic |-> t])

BriefsAreInvitations == \A m \in Sent("VoteBrief") : m = InvitationTo(m.topic)

\* Announcements are numbered, so that a new one is not yet joined.
TopicsNumbered == \A m \in Sent("VoteBrief") :
  m.topic.no <= Cardinality(Sent("VoteBrief"))

\* t is a vote of n that nobody has heard of.
Unannounced(n, t) ==
  /\ t \in Topics /\ t.starter = n /\ InvitationTo(t) \notin sent
  /\ t.no <= Cardinality(Sent("VoteBrief")) + 1

AnnouncesItsOwn(n) ==
  /\ "Generate" \in calls[n] =>
       /\ currentVote[n].from = n /\ Unannounced(n, currentVote[n].topic)
       /\ currentVote[n].topic \notin joined[n]
  /\ IF calls[n] \in {{"Join"}, {"Store"}, {"Announce"}}
     THEN \E t \in Topics : draft[n] = {InvitationTo(t)} /\ Unannounced(n, t)
     ELSE draft[n] = {}

OneCallAtATime(n) ==
  /\ calls[n] = {} \/ \E s \in Steps : calls[n] = {s}
  /\ calls[n] \in {{"Confirmed"}, {"Inited"}} => stat[n] = "GotNewVote"
  /\ lookup[n] # {} => stat[n] # "GotNewVote"

\* t has been offered to n, which has dealt no shares in it.
Offered(n, t) ==
  /\ t \in Topics /\ t.starter # n /\ InvitationTo(t) \in rcvd[n]
  /\ \A d \in dealt : d.from = n => d.topic # t

AskedByAnother(n) ==
  stat[n] = "GotNewVote" /\ ~Filling(n) =>
    /\ Offered(n, currentVote[n].topic)
    /\ calls[n] # {"Confirmed"} => currentVote[n].topic \notin joined[n]

\* What SendBrief joins is a vote of its own or one that came in meanwhile,
\* and never joined before.
JoinsInvited(n) ==
  calls[n] \in {{"Join"}, {"Store"}} =>
    LET t == currentVote[n].topic
    IN  /\ IF t.starter = n THEN draft[n] = {InvitationTo(t)} ELSE InvitationTo(t) \in rcvd[n]
        /\ calls[n] = {"Join"} => t \notin joined[n]

JoinedWasAsked(n) == \A t \in joined[n] :
  IF t.starter = n THEN InvitationTo(t) \in sent \cup draft[n] ELSE InvitationTo(t) \in rcvd[n]

\* n is, or was, in the vote t: none, its own, or one it was asked about.
WasAsked(n, t) == t = NoVote \/ t.starter = n \/ InvitationTo(t) \in rcvd[n]

Standing(n) ==
  /\ AnnouncesItsOwn(n) /\ OneCallAtATime(n) /\ AskedByAnother(n) /\ JoinsInvited(n)
  /\ JoinedWasAsked(n) /\ WasAsked(n, currentVote[n].topic)

DealersWereAsked == \A d \in dealt : WasAsked(d.from, d.topic)

Refusals == {m \in Sent("VoteAcceptation") : ~m.result}

OutOf(n, t) ==
  /\ Offered(n, t) /\ t \notin joined[n]
  /\ currentVote[n].topic = t =>
       \/ stat[n] = "Inited" /\ calls[n] = {} /\ lookup[n] = {}
       \/ stat[n] = "GotNewVote" /\ calls[n] = {"Inited"}

RefusedForGood == \A m \in Refusals : OutOf(m.from, m.topic)

\* Inductive as long as SendBrief announces what it has filled in.  It also
\* says that no topic is joined twice, at which Join would panic (node.go:210).
RefusalInv ==
  /\ BriefsAreInvitations /\ TopicsNumbered /\ DealersWereAsked /\ RefusedForGood
  /\ \A n \in Phones : Standing(n)

(***************************************************************************)
(* Why the dealers of a vote agree when users make no slip but to refuse   *)
(* and nobody begins twice.  Pressing "begin" freezes a vote: by then every*)
(* phone has taken its brief and answered, so nobody joins it any more and *)
(* no answer to it is on its way.  And whoever has joined a vote stays in  *)
(* it until it takes the vote's parameters, of which there is one message. *)
(***************************************************************************)
Answers(t) == {m \in Sent("VoteAcceptation") : m.topic = t}
Begun(t)   == {m \in Sent("VoteParams") : m.topic = t}
Agreed(t)  == \A m \in Answers(t) : m.result

NoEarlyStart(n) == calls[n] \cap {"EarlyStart", "InRound"} = {}

\* Nothing comes between filling in a vote and announcing it.
AnnouncesUndisturbed(n) == Announcing(n) =>
  LET t == currentVote[n].topic
  IN  /\ lookup[n] = {} /\ currentVote[n].from = n /\ Unannounced(n, t)
      /\ IF Filling(n) THEN stat[n] = "Inited" /\ currentVote[n].parties = 0
                       ELSE stat[n] = "Confirmed"
      /\ calls[n] # {"Generate"} => draft[n] = {InvitationTo(t)}
      /\ calls[n] \in {{"Store"}, {"Announce"}} => t \in joined[n]

\* A look-up is for the parameters of the vote the phone is still in.
LooksUpOwn(n) == \A l \in lookup[n] :
  /\ stat[n] = "Confirmed" /\ l.params \in rcvd[n]
  /\ l.topic = currentVote[n].topic /\ l.params.topic = l.topic

OfItsStarter(n) ==
  LET v == currentVote[n]
  IN  stat[n] \in {"GotNewVote", "Confirmed"} =>
        /\ v.topic \in Topics /\ v.from = v.topic.starter
        /\ InvitationTo(v.topic) \in sent \cup draft[n]

WaitsFor(n, t) ==
  /\ currentVote[n].topic = t
  /\ \/ stat[n] = "Confirmed"
     \/ stat[n] = "GotNewVote" /\ calls[n] = {"Confirmed"}
     \/ calls[n] = {"Store"}

JoinedWaits(n) == \A t \in joined[n] :
  WaitsFor(n, t) \/ Begun(t) \cap rcvd[n] # {}

Counted(n) ==
  /\ FreshForm(n) => currentVote[n].parties = 0
  /\ stat[n] = "Confirmed" /\ currentVote[n].from = n =>
       currentVote[n].parties =
         Cardinality(Answers(currentVote[n].topic) \cap rcvd[n]) + 1

InStep(n) ==
  /\ NoEarlyStart(n) /\ AnnouncesUndisturbed(n) /\ LooksUpOwn(n)
  /\ OfItsStarter(n) /\ JoinedWaits(n) /\ Counted(n)

StartersJoined == \A m \in Sent("VoteBrief") : m.topic \in joined[m.topic.starter]

AnswersFit == \A m \in Sent("VoteAcceptation") :
  /\ m.to = {m.topic.starter}
  /\ InvitationTo(m.topic) \in rcvd[m.from]
  /\ m.result => m.topic \in joined[m.from]

Frozen(m) ==
  /\ m.topic \in Topics
  /\ \A p \in Phones : /\ InvitationTo(m.topic) \in rcvd[p]
                       /\ stat[p] = "GotNewVote" => currentVote[p].topic # m.topic
  /\ m.to = FindPeers(m.topic)
  /\ Answers(m.topic) \subseteq rcvd[m.topic.starter]
  /\ Begun(m.topic) = {m}
  /\ Agreed(m.topic) => m.n = Cardinality(FindPeers(m.topic))
BegunFrozen == \A m \in Sent("VoteParams") : Frozen(m)

Headcount == \A m \in Sent("VoteBrief") :
  Agreed(m.topic) => Cardinality(FindPeers(m.topic)) = Cardinality(Answers(m.topic)) + 1

DealtAsBegun == \A d \in dealt :
  d.of = d.topic /\ \E m \in Begun(d.topic) : d.view = m.to /\ d.n = m.n /\ d.t = m.t

\* Inductive when users only refuse and nobody begins twice: what the starter
\* counts, what it sends and what the dealers find fit together
\* (server.go:166-177, 362-376, 407-413).
DealersInv ==
  /\ StartersJoined /\ AnswersFit /\ BegunFrozen /\ Headcount /\ DealtAsBegun
  /\ \A n \in Phones : InStep(n)

\* A phone that has confirmed a vote gets to take part in it.
TakesPart(n) == stat[n] = "Confirmed" ~> stat[n] = "InRound"

=============================================================================
