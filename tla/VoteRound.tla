------------------------------ MODULE VoteRound ------------------------------
(***************************************************************************)
(* One vote, from the moment the starter presses "begin" to the moment     *)
(* every phone shows the result: the ten-state machine that ui/server.go   *)
(* runs on each phone, the messages it exchanges and the four calls its    *)
(* user interface makes into it.                                           *)
(*                                                                         *)
(* The parties first deal each other shares of their secret keys           *)
(* (PolyResult), publish their parts of the joint public key (PubKeyPart), *)
(* learn the candidates (VoteDetail), broadcast encrypted ballots          *)
(* (CipherText), announce who will decrypt (ID), broadcast decryption      *)
(* shares of the SUM of the ballots (PlainTextPart), decrypt, and compare  *)
(* results (VoteResult).                                                   *)
(*                                                                         *)
(* How the vote was announced and who joined is module Recruit; here the   *)
(* parties are agreed on and everyone is in state Confirmed.               *)
(***************************************************************************)
EXTENDS Naturals, FiniteSets

CONSTANTS
  Parties,    \* the phones taking part: what FindPeers(topic) returns to all
  Starter,    \* the one that created the vote
  Tickets,    \* the filled-in ballots a voter may choose from
  Abstain,    \* the all-zero ballot of AbandonTicket
  NoKey,      \* there is no key yet
  Veterans,   \* parties whose currentParty is left over from an earlier vote
  Races,      \* which of the windows below the environment may open
  MaxCalls,   \* user-interface calls that may overlap at one phone
  MaxBegins   \* how often the starter may press "begin" (bounds the model)

(***************************************************************************)
(* The code relies on sleeps and on the user's pace to keep four pairs of  *)
(* events in order.  Each name below is one such pair coming out of order: *)
(*   share   a PolyResult overtakes VoteParams         (server.go:399)     *)
(*   detail  VoteDetail overtakes a PubKeyPart         (server.go:197)     *)
(*   ballot  a CipherText overtakes VoteDetail                             *)
(*   store   the loop goroutine handles a message between a call's send    *)
(*           and the call's assignment to Stat         (server.go:198-199) *)
(***************************************************************************)
RaceWindows == {"share", "detail", "ballot", "store"}

ASSUME PartiesAssumption  == IsFiniteSet(Parties) /\ Starter \in Parties
ASSUME TicketsAssumption  == Abstain \notin Tickets
ASSUME KeyAssumption      == NoKey \notin Parties \cup {"Joint"}
                             /\ "Joint" \notin Parties
ASSUME VeteransAssumption == Veterans \subseteq Parties
ASSUME RacesAssumption    == Races \subseteq RaceWindows
ASSUME BoundsAssumption   == MaxCalls \in Nat \ {0} /\ MaxBegins \in Nat \ {0}

VARIABLES
  \* s.Stat and s.currentParty
  stat,         \* the phone's state, see NodeStat
  party,        \* currentParty: absent, of an earlier vote, or of this one
  pk,           \* the public key currentParty encrypts ballots under
  \* s.currentVote, up to the joint key
  parties,      \* Parties
  skInf,        \* SkInf: whose secret shares have been collected
  partPubKey,   \* PartPubKey: whose public-key parts have been collected
  \* s.currentVote, the ballots
  evalCipher,   \* EvalCipher: ciphertexts collected
  sum,          \* the ciphertexts EvalAdd has added up
  flag,         \* Flag: this phone takes part in decryption
  decPartNum,   \* DecPartNum: who announced to take part in decryption
  lengthDec,    \* LengthDec: decryption shares needed
  \* s.currentVote, the result
  partdec,      \* Partdec: decryption shares collected
  result,       \* Result, as a set of at most one element
  otherResult,  \* OtherResult: the results received, one per sender
  report,       \* what was sent to the Kotlin side, at most one element
  \* the environment
  calls,        \* user-interface calls that have sent but not yet stored Stat
  crashed,      \* phones that dereferenced a nil currentParty
  sent,         \* every message ever broadcast or sent
  rcvd          \* the messages each phone's loop has taken from MsgCh[Read]

keyVars    == <<party, pk, parties, skInf, partPubKey>>
ballotVars == <<evalCipher, sum, flag, decPartNum, lengthDec>>
resultVars == <<partdec, result, otherResult, report>>
envVars    == <<calls, crashed>>
vars == <<stat, keyVars, ballotVars, resultVars, envVars, sent, rcvd>>

-----------------------------------------------------------------------------
(* States, keys and messages *)

NodeStat == {"Inited", "Confirmed", "GotParams", "SentPki", "GotPK",
             "GotDetail", "Voted", "SentID", "SentCts", "SentResult"}

\* The state in which a ballot is encrypted under somebody's own key is real:
\* NewParty fills pk with a key pair of the party's own.
Keys == Parties \cup {"Joint", NoKey}

\* T of BeginVote.  A set of at least T shares interpolates the joint secret.
Threshold == Cardinality(Parties) \div 2 + 1

VoteParams(k)   == [type |-> "VoteParams", from |-> Starter, tap |-> k]
PolyResult(p, q) == [type |-> "PolyResult", from |-> p, to |-> q]
PubKeyPart(p)   == [type |-> "PubKeyPart", from |-> p]
VoteDetail(k)   == [type |-> "VoteDetail", from |-> Starter, tap |-> k]
CipherText(p, t, key, k) ==
  [type |-> "CipherText", from |-> p, ticket |-> t, under |-> key, tap |-> k]
ID(p)           == [type |-> "ID", from |-> p]
PlainTextPart(p, ids, over) ==
  [type |-> "PlainTextPart", from |-> p, ids |-> ids, over |-> over]
VoteResult(p, r) == [type |-> "VoteResult", from |-> p, result |-> r]

Sent(type)        == {m \in sent : m.type = type}
SentBy(p, type)   == {m \in Sent(type) : m.from = p}
Rcvd(n, type)     == {m \in rcvd[n] : m.type = type}

(***************************************************************************)
(* The guard each handler starts with: the states in which it does not     *)
(* return at once.  A definition whose name ends in Slip is the next one   *)
(* with a plausible mistake in it; the specification does not use it.      *)
(***************************************************************************)
VoteParamsStatesSlip    == NodeStat
VoteParamsStates        == {"Confirmed"}
PolyResultStates        == {"GotParams", "Confirmed"}
PubKeyPartStatesSlip    == {"SentPki"}
PubKeyPartStates        == {"SentPki", "GotParams"}
VoteDetailStates        == {"GotPK", "SentPki"}
CipherTextStates        == {"Voted", "GotDetail"}
IDStates                == {"SentID", "Voted"}
PlainTextPartStates     == {"SentCts", "SentID"}
VoteResultStates        == {"SentResult", "SentCts"}

Expects ==
  [VoteParams    |-> VoteParamsStates,
   PolyResult    |-> PolyResultStates,
   PubKeyPart    |-> PubKeyPartStates,
   VoteDetail    |-> VoteDetailStates,
   CipherText    |-> CipherTextStates,
   ID            |-> IDStates,
   PlainTextPart |-> PlainTextPartStates,
   VoteResult    |-> VoteResultStates]

\* What FindPeers(topic) returns: here all have joined and found each other.
FindPeersSlip(n) == Parties \ {n}
FindPeers(n)     == Parties

\* The tests that end each exchange: has the phone got everybody's message?
EverySecretShare(n, S) == Cardinality(S) = Cardinality(parties[n])

EveryKeyPartSlip(n, S) == Cardinality(S) >= Threshold
EveryKeyPart(n, S)     == Cardinality(S) >= Cardinality(parties[n])

EveryBallotSlip(n, S)  == Cardinality(S) + 1 = Cardinality(parties[n])
EveryBallot(n, S)      == Cardinality(S) = Cardinality(parties[n])

EveryID(n, S)          == flag[n] /\ Cardinality(S) = Cardinality(parties[n])

EveryDecShareSlip(n, S) == Cardinality(S) + 1 = lengthDec[n]
EveryDecShare(n, S)    == Cardinality(S) = lengthDec[n]

EveryResult(n, S)      == result[n] # {} /\ Cardinality(S) = Cardinality(partdec[n])

-----------------------------------------------------------------------------
(* The cryptography, as far as the protocol depends on it *)

\* Lagrange interpolation over the parts of at least Threshold parties gives
\* the joint key, with fewer it gives some other key.
GenPkSlip(n, parts) == n
GenPk(n, parts)     == IF Cardinality(parts) >= Threshold THEN "Joint" ELSE NoKey

\* How many ballots of each kind were added up.  Zero ballots add nothing.
Tally(over) == [t \in Tickets |-> Cardinality({c \in over : c.ticket = t})]

\* c0 + the shares is the plaintext sum when the shares were all made from
\* that sum with the Lagrange coefficients of exactly the parties that sent
\* them, enough of them, and every ballot in it is under the joint key.
Decrypts(over, shares) ==
  /\ \A c \in over : c.under = "Joint"
  /\ \A s \in shares : s.over = over /\ s.ids = {r.from : r \in shares}
  /\ Cardinality(shares) >= Threshold

\* Otherwise decoding yields noise, the same noise for the same inputs.
FinaDec(over, shares) ==
  IF Decrypts(over, shares)
  THEN [votes |-> Tally(over), noise |-> {}]
  ELSE [votes |-> Tally({}),   noise |-> {<<over, shares>>}]

-----------------------------------------------------------------------------
(* Initial state: everyone has confirmed, BeginVote has not been pressed.  *)
(* The starter's Parties has been filled by handleVoteAccept; the others'  *)
(* is empty until handleVoteParams.                                        *)

Init ==
  /\ stat        = [n \in Parties |-> "Confirmed"]
  /\ party       = [n \in Parties |-> IF n \in Veterans THEN "Stale" ELSE "Nil"]
  /\ pk          = [n \in Parties |-> NoKey]
  /\ parties     = [n \in Parties |-> IF n = Starter THEN Parties ELSE {}]
  /\ skInf       = [n \in Parties |-> {}]
  /\ partPubKey  = [n \in Parties |-> {}]
  /\ evalCipher  = [n \in Parties |-> {}]
  /\ sum         = [n \in Parties |-> {}]
  /\ flag        = [n \in Parties |-> FALSE]
  /\ decPartNum  = [n \in Parties |-> {}]
  /\ lengthDec   = [n \in Parties |-> 0]
  /\ partdec     = [n \in Parties |-> {}]
  /\ result      = [n \in Parties |-> {}]
  /\ otherResult = [n \in Parties |-> {}]
  /\ report      = [n \in Parties |-> {}]
  /\ calls       = [n \in Parties |-> {}]
  /\ crashed     = {}
  /\ sent        = {}
  /\ rcvd        = [n \in Parties |-> {}]

-----------------------------------------------------------------------------
(* Delivery.  Broadcasts reach their sender too; handleMessage starts one  *)
(* goroutine per message and the gossip network promises no order, so any  *)
(* message not yet received may come next, or never come.                  *)

InOrder(n, m) ==
  /\ m.type = "PolyResult" /\ "share" \notin Races => Rcvd(n, "VoteParams") # {}
  /\ m.type = "VoteDetail" /\ "detail" \notin Races =>
       Cardinality(Rcvd(n, "PubKeyPart")) = Cardinality(Parties)
  /\ m.type = "CipherText" /\ "ballot" \notin Races =>
       Rcvd(n, "VoteDetail") # {} \/ n = Starter

Addressee(m) == IF m.type = "PolyResult" THEN {m.to} ELSE Parties

Arriving(n, type) ==
  {m \in Sent(type) : n \in Addressee(m) /\ m \notin rcvd[n] /\ InOrder(n, m)}

\* The loop goroutine of server.startLoop takes m from MsgCh[Read].
Take(n, m) ==
  /\ n \notin crashed
  /\ "store" \in Races \/ calls[n] = {}
  /\ rcvd' = [rcvd EXCEPT ![n] = @ \cup {m}]

Become(n, s) == stat' = [stat EXCEPT ![n] = s]
Send(ms)     == sent' = sent \cup ms

\* A handler's early return: the message is logged and lost.
Ignore(n, type) ==
  \E m \in Arriving(n, type) :
    /\ Take(n, m)
    /\ stat[n] \notin Expects[type] \/ (type = "VoteDetail" /\ n = Starter)
    /\ UNCHANGED <<stat, keyVars, ballotVars, resultVars, envVars, sent>>

-----------------------------------------------------------------------------
(* The starter's and the voters' calls (server.go, called from Kotlin).    *)
(* A call that changes Stat sends first and stores Stat afterwards, with   *)
(* no lock: Return is the rest of the call.                                *)

BeginVote ==
  LET k == Cardinality(Sent("VoteParams")) + 1
  IN  /\ Starter \notin crashed
      /\ stat[Starter] = "Confirmed"
      /\ k <= MaxBegins
      /\ Send({VoteParams(k)})
      /\ UNCHANGED <<stat, keyVars, ballotVars, resultVars, envVars, rcvd>>

\* A call enters a free slot; it will store s in Stat when it returns.
Enter(n, s) ==
  \E slot \in 1..MaxCalls :
    /\ n \notin crashed
    /\ \A c \in calls[n] : c.slot # slot
    /\ calls' = [calls EXCEPT ![n] = @ \cup {[slot |-> slot, stores |-> s]}]

SendVoteDetail ==
  /\ stat[Starter] = "GotPK"
  /\ Enter(Starter, "GotDetail")
  /\ Send({VoteDetail(Cardinality(Sent("VoteDetail")) + 1)})
  /\ UNCHANGED <<stat, keyVars, ballotVars, resultVars, crashed, rcvd>>

MayVoteSlip(n) == stat[n] \in {"GotDetail", "Voted"}
MayVote(n)     == stat[n] = "GotDetail"

\* SendVote for a ticket, AbandonTicket for the zero ballot.
SendVote(n, ticket) ==
  /\ MayVote(n)
  /\ Enter(n, "Voted")
  /\ Send({CipherText(n, ticket, pk[n], Cardinality(SentBy(n, "CipherText")) + 1)})
  /\ UNCHANGED <<stat, keyVars, ballotVars, resultVars, crashed, rcvd>>

Return(n) ==
  \E c \in calls[n] :
    /\ n \notin crashed
    /\ calls' = [calls EXCEPT ![n] = @ \ {c}]
    /\ Become(n, c.stores)
    /\ UNCHANGED <<keyVars, ballotVars, resultVars, crashed, sent, rcvd>>

-----------------------------------------------------------------------------
(* The handlers of HandleMessage, run one at a time by the loop goroutine. *)

\* A new Party, with a key pair of its own, deals a share to everyone.  Its
\* own share goes straight into SkInf, and no completion check follows.
HandleVoteParams(n) ==
  \E m \in Arriving(n, "VoteParams") :
    /\ Take(n, m)
    /\ stat[n] \in Expects["VoteParams"]
    /\ parties' = [parties EXCEPT ![n] = FindPeers(n)]
    /\ party'   = [party EXCEPT ![n] = "Current"]
    /\ pk'      = [pk EXCEPT ![n] = n]
    /\ Become(n, "GotParams")
    /\ skInf'   = [skInf EXCEPT ![n] = @ \cup {n}]
    /\ Send({PolyResult(n, q) : q \in Parties \ {n}})
    /\ UNCHANGED <<partPubKey, ballotVars, resultVars, envVars>>

\* The last share completes the secret key; its public part is broadcast.
HandlePolyResult(n) ==
  \E m \in Arriving(n, "PolyResult") :
    /\ Take(n, m)
    /\ stat[n] \in Expects["PolyResult"]
    /\ \/ /\ party[n] = "Nil"
          /\ crashed' = crashed \cup {n}
          /\ UNCHANGED <<stat, skInf, sent>>
       \/ /\ party[n] # "Nil"
          /\ skInf' = [skInf EXCEPT ![n] = @ \cup {m.from}]
          /\ IF EverySecretShare(n, skInf'[n])
             THEN Send({PubKeyPart(n)}) /\ Become(n, "SentPki")
             ELSE UNCHANGED <<sent, stat>>
          /\ UNCHANGED crashed
    /\ UNCHANGED <<party, pk, parties, partPubKey, ballotVars, resultVars, calls>>

\* The last public part completes the joint key.
HandlePubKeyPart(n) ==
  \E m \in Arriving(n, "PubKeyPart") :
    /\ Take(n, m)
    /\ stat[n] \in Expects["PubKeyPart"]
    /\ partPubKey' = [partPubKey EXCEPT ![n] = @ \cup {m.from}]
    /\ IF EveryKeyPart(n, partPubKey'[n])
       THEN pk' = [pk EXCEPT ![n] = GenPk(n, partPubKey'[n])] /\ Become(n, "GotPK")
       ELSE UNCHANGED <<pk, stat>>
    /\ UNCHANGED <<party, parties, skInf, ballotVars, resultVars, envVars, sent>>

HandleVoteDetail(n) ==
  \E m \in Arriving(n, "VoteDetail") :
    /\ Take(n, m)
    /\ n # Starter
    /\ stat[n] \in Expects["VoteDetail"]
    /\ Become(n, "GotDetail")
    /\ UNCHANGED <<keyVars, ballotVars, resultVars, envVars, sent>>

\* The last ballot is added to the others and the phone offers to decrypt.
HandleCipherText(n) ==
  \E m \in Arriving(n, "CipherText") :
    /\ Take(n, m)
    /\ stat[n] \in Expects["CipherText"]
    /\ evalCipher' = [evalCipher EXCEPT ![n] = @ \cup {m}]
    /\ IF EveryBallot(n, evalCipher'[n])
       THEN /\ sum'  = [sum EXCEPT ![n] = evalCipher'[n]]
            /\ flag' = [flag EXCEPT ![n] = TRUE]
            /\ Send({ID(n)})
            /\ Become(n, "SentID")
       ELSE UNCHANGED <<sum, flag, sent, stat>>
    /\ UNCHANGED <<keyVars, decPartNum, lengthDec, resultVars, envVars>>

\* The last announcement fixes who decrypts, hence the Lagrange coefficients.
HandleCoffin(n) ==
  \E m \in Arriving(n, "ID") :
    /\ Take(n, m)
    /\ stat[n] \in Expects["ID"]
    /\ decPartNum' = [decPartNum EXCEPT ![n] = @ \cup {m.from}]
    /\ IF EveryID(n, decPartNum'[n])
       THEN /\ lengthDec' = [lengthDec EXCEPT ![n] = Cardinality(decPartNum'[n])]
            /\ Send({PlainTextPart(n, decPartNum'[n], sum[n])})
            /\ Become(n, "SentCts")
       ELSE UNCHANGED <<lengthDec, sent, stat>>
    /\ UNCHANGED <<keyVars, evalCipher, sum, flag, resultVars, envVars>>

\* The last decryption share gives the result, which is broadcast.
HandlePlainText(n) ==
  \E m \in Arriving(n, "PlainTextPart") :
    /\ Take(n, m)
    /\ stat[n] \in Expects["PlainTextPart"]
    /\ partdec' = [partdec EXCEPT ![n] = @ \cup {m}]
    /\ IF EveryDecShare(n, partdec'[n])
       THEN LET r == FinaDec(sum[n], partdec'[n])
            IN  /\ result' = [result EXCEPT ![n] = {r}]
                /\ Send({VoteResult(n, r)})
                /\ Become(n, "SentResult")
       ELSE UNCHANGED <<result, sent, stat>>
    /\ UNCHANGED <<keyVars, ballotVars, otherResult, report, envVars>>

\* The last result closes the vote: the phone reports its own result and
\* whether all the results it received are equal to it.
HandleVoteResult(n) ==
  \E m \in Arriving(n, "VoteResult") :
    /\ Take(n, m)
    /\ stat[n] \in Expects["VoteResult"]
    /\ otherResult' = [otherResult EXCEPT
         ![n] = {o \in @ : o.from # m.from} \cup {m}]
    /\ IF EveryResult(n, otherResult'[n])
       THEN /\ report' = [report EXCEPT ![n] =
                 {[shown |-> r, isCorrect |-> \A o \in otherResult'[n] : o.result = r]
                    : r \in result[n]}]
            /\ Become(n, "Inited")
       ELSE UNCHANGED <<report, stat>>
    /\ UNCHANGED <<keyVars, ballotVars, partdec, result, envVars, sent>>

-----------------------------------------------------------------------------

MessageTypes == DOMAIN Expects

Loop(n) ==
  \/ HandleVoteParams(n) \/ HandlePolyResult(n) \/ HandlePubKeyPart(n)
  \/ HandleVoteDetail(n) \/ HandleCipherText(n) \/ HandleCoffin(n)
  \/ HandlePlainText(n)  \/ HandleVoteResult(n)
  \/ \E type \in MessageTypes : Ignore(n, type)

Vote(n) == \E t \in Tickets \cup {Abstain} : SendVote(n, t)

Next ==
  \/ BeginVote
  \/ SendVoteDetail
  \/ \E n \in Parties : Loop(n) \/ Vote(n) \/ Return(n)

Spec == Init /\ [][Next]_vars

(***************************************************************************)
(* Fairness: the loop goroutine is never stopped, every message arrives in *)
(* the end (no loss), every call returns, the starter starts and every     *)
(* voter votes or abstains.  The last two are assumptions on the users.    *)
(***************************************************************************)
Fairness ==
  /\ WF_vars(BeginVote) /\ WF_vars(SendVoteDetail)
  /\ \A n \in Parties : WF_vars(Loop(n)) /\ WF_vars(Vote(n)) /\ WF_vars(Return(n))

FairSpec == Spec /\ Fairness

-----------------------------------------------------------------------------
(* Properties *)

Ballots == [type : {"CipherText"}, from : Parties,
            ticket : Tickets \cup {Abstain}, under : Keys, tap : Nat]
DecShares == [type : {"PlainTextPart"}, from : Parties, ids : SUBSET Parties,
              over : SUBSET Ballots]
Results == [votes : [Tickets -> Nat],
            noise : SUBSET ((SUBSET Ballots) \X (SUBSET DecShares))]
ResultMsgs == [type : {"VoteResult"}, from : Parties, result : Results]
Calls == [slot : 1..MaxCalls, stores : {"GotDetail", "Voted"}]

Messages == [type : {"VoteParams", "VoteDetail"}, from : {Starter}, tap : Nat]
            \cup [type : {"PolyResult"}, from : Parties, to : Parties]
            \cup [type : {"PubKeyPart", "ID"}, from : Parties]
            \cup Ballots \cup DecShares \cup ResultMsgs

\* Type correctness: every field of server, Vote and Party holds what its
\* declaration and the handlers that fill it say it holds.
TypeOK ==
  /\ stat \in [Parties -> NodeStat]
  /\ party \in [Parties -> {"Nil", "Stale", "Current"}]
  /\ pk \in [Parties -> Keys]
  /\ parties \in [Parties -> {{}, Parties}]
  /\ skInf \in [Parties -> SUBSET Parties]
  /\ partPubKey \in [Parties -> SUBSET Parties]
  /\ evalCipher \in [Parties -> SUBSET Ballots]
  /\ sum \in [Parties -> SUBSET Ballots]
  /\ flag \in [Parties -> BOOLEAN]
  /\ decPartNum \in [Parties -> SUBSET Parties]
  /\ lengthDec \in [Parties -> 0..Cardinality(Parties)]
  /\ partdec \in [Parties -> SUBSET DecShares]
  /\ result \in [Parties -> SUBSET Results]
  /\ otherResult \in [Parties -> SUBSET ResultMsgs]
  /\ report \in [Parties -> SUBSET [shown : Results, isCorrect : BOOLEAN]]
  /\ calls \in [Parties -> SUBSET Calls]
  /\ crashed \subseteq Parties
  /\ sent \subseteq Messages
  /\ rcvd \in [Parties -> SUBSET Messages]

\* One ballot of every party and nothing else.
FullSum(S) == {c.from : c \in S} = Parties /\ Cardinality(S) = Cardinality(Parties)

\* Secrecy of the ballots: no phone ever makes a decryption share of anything
\* but the sum of exactly one ballot of every party, whatever arrives in
\* whatever order.  handleCipherText only counts the ballots it was sent
\* (server.go:526), and the loop runs unlocked against the users' calls.
FullSumOnly ==
  \A m \in Sent("PlainTextPart") : FullSum(m.over)

(***************************************************************************)
(* Why FullSumOnly holds when the user interface makes one call at a time. *)
(* What a phone collects was sent; a phone sends one ballot, because once  *)
(* it has, its Stat is past GotDetail or its call has yet to store it; so  *)
(* as many ballots as there are parties are one of every party.            *)
(***************************************************************************)
CollectedWasSent ==
  /\ IsFiniteSet(sent)
  /\ \A n \in Parties : /\ rcvd[n] \subseteq sent
                        /\ evalCipher[n] \cup partdec[n] \subseteq rcvd[n]
                        /\ sum[n] \subseteq rcvd[n]

OneBallotEach ==
  \A c, d \in Sent("CipherText") : c.from = d.from => c = d

HasVoted(n) == \E c \in Sent("CipherText") : c.from = n

PastBallot == {"Voted", "SentID", "SentCts", "SentResult", "Inited"}

VotesOnce ==
  \A n \in Parties :
    /\ HasVoted(n) => stat[n] \in PastBallot \/ calls[n] # {}
    /\ \A c, d \in calls[n] : c.slot = d.slot => c = d
    /\ \A c \in calls[n] : c.stores = "GotDetail" => ~HasVoted(n)

FlagMeansFullSum == \A n \in Parties : flag[n] => FullSum(sum[n])

FullSumInv == OneBallotEach /\ VotesOnce /\ FlagMeansFullSum /\ FullSumOnly

(***************************************************************************)
(* Why the results agree: once a full sum exists nobody casts another      *)
(* ballot, so every full sum is the same; a phone makes its decryption     *)
(* share once, of that sum and for all parties; and whoever decrypts has   *)
(* the shares of all of them.                                              *)
(***************************************************************************)
ShareOnce ==
  \A n \in Parties :
    /\ decPartNum[n] \subseteq {m.from : m \in Rcvd(n, "ID")}
    /\ lengthDec[n] # 0 => flag[n] /\ lengthDec[n] = Cardinality(Parties)
    /\ \A m \in SentBy(n, "PlainTextPart") :
         flag[n] /\ decPartNum[n] = Parties /\ m = PlainTextPart(n, Parties, sum[n])

SameResult ==
  \A n \in Parties :
    /\ partdec[n] \subseteq Sent("PlainTextPart")
    /\ \A r \in result[n] :
         /\ {s.from : s \in Sent("PlainTextPart")} = Parties
         /\ r = FinaDec(Sent("CipherText"), Sent("PlainTextPart"))
    /\ \A m \in SentBy(n, "VoteResult") : m.result \in result[n]
    /\ otherResult[n] \subseteq Sent("VoteResult")
    /\ \A a \in report[n] : a.shown \in result[n] /\ a.isCorrect

\* The two together are inductive with FullSumInv: whatever order messages and
\* calls take, no two phones decrypt different things (server.go:575-626).
ResultInv == ShareOnce /\ SameResult

(***************************************************************************)
(* Why ballots are under the joint key when VoteDetail does not overtake a *)
(* part of it: nobody publishes a part before everybody has dealt shares,  *)
(* so no part is dropped, and a phone that waits has not got them all.     *)
(***************************************************************************)
EarlyStates == {"Confirmed", "GotParams", "SentPki"}

DealtFirst ==
  /\ \A n \in Parties : /\ stat[n] # "Confirmed" => parties[n] = Parties
                        /\ \A q \in skInf[n] : stat[q] # "Confirmed"
  /\ \A m \in Sent("PolyResult") : stat[m.from] # "Confirmed"
  /\ Sent("PubKeyPart") # {} => \A q \in Parties : stat[q] # "Confirmed"

NoPartDropped ==
  \A n \in Parties : stat[n] \in EarlyStates =>
    /\ partPubKey[n] = {m.from : m \in Rcvd(n, "PubKeyPart")}
    /\ stat[n] # "Confirmed" => partPubKey[n] # Parties
    /\ calls[n] = {}

\* Inductive when "detail" is no race: a ballot never leaves under another key
\* than the joint one (server.go:459-472, 491-494).
KeyInv ==
  /\ DealtFirst
  /\ NoPartDropped
  /\ \A n \in Parties : stat[n] \notin EarlyStates => pk[n] = "Joint"
  /\ \A c \in Sent("CipherText") : c.under = "Joint"

\* A phone that has t decryption shares decrypts (server.go:621, poll.go:19).
ThresholdDecrypts ==
  \A n \in Parties : Cardinality(partdec[n]) >= Threshold => result[n] # {}

\* Every ballot is encrypted under the key the parties generated together,
\* never under the key pair NewParty made for itself (party.go:29-44).
BallotsUnderJointKey == \A c \in Sent("CipherText") : c.under = "Joint"

\* No secret share is unpacked before currentParty exists (server.go:432).
NoShareBeforeParams == crashed = {}

\* Two phones that report a result report the same one, and each sees that
\* the others agree (handleVoteResult).
ReportsAgree ==
  \A p, q \in Parties : \A a \in report[p], b \in report[q] :
    a.shown = b.shown /\ a.isCorrect

\* A result reported as correct is the count of the ballots the parties cast,
\* unless somebody's ballot is under the wrong key.
CorrectMeansCounted ==
  BallotsUnderJointKey =>
    \A p \in Parties : \A a \in report[p] : a.isCorrect =>
      a.shown = [votes |-> Tally(Sent("CipherText")), noise |-> {}]

\* When the sleeps do their job no message that matters is thrown away: what
\* the loop has taken of a phase is in the collection of that phase.
NothingLost ==
  \A n \in Parties :
    /\ {m.from : m \in Rcvd(n, "PolyResult")} \subseteq skInf[n]
    /\ {m.from : m \in Rcvd(n, "PubKeyPart")} = partPubKey[n]
    /\ Rcvd(n, "CipherText") = evalCipher[n]
    /\ {m.from : m \in Rcvd(n, "ID")} = decPartNum[n]
    /\ Rcvd(n, "PlainTextPart") = partdec[n]
    /\ Rcvd(n, "VoteResult") = otherResult[n]

\* A phone only moves forward through the exchanges of a vote, and becomes
\* Inited again when it has reported: a handler whose state guard lets a late
\* or repeated message in must not take it back.
Phase == [Confirmed |-> 1, GotParams |-> 2, SentPki |-> 3, GotPK |-> 4,
          GotDetail |-> 5, Voted |-> 6, SentID |-> 7, SentCts |-> 8,
          SentResult |-> 9, Inited |-> 10]
OnlyForward ==
  [][\A n \in Parties : Phase[stat'[n]] >= Phase[stat[n]]]_vars

\* No phone runs a whole exchange ahead of another: to have sent its part of
\* one exchange it needs every party's part of the one before.
Lockstep ==
  \A p, q \in Parties :
    /\ Phase[stat[p]] >= Phase["SentPki"]    => Phase[stat[q]] >= Phase["GotParams"]
    /\ Phase[stat[p]] >= Phase["GotPK"]      => Phase[stat[q]] >= Phase["SentPki"]
    /\ Phase[stat[p]] >= Phase["SentID"]     => SentBy(q, "CipherText") # {}
    /\ Phase[stat[p]] >= Phase["SentCts"]    => Phase[stat[q]] >= Phase["SentID"]
    /\ Phase[stat[p]] >= Phase["SentResult"] => Phase[stat[q]] >= Phase["SentCts"]
    /\ Phase[stat[p]] >= Phase["Inited"]     => Phase[stat[q]] >= Phase["SentResult"]

(***************************************************************************)
(* Why nothing is lost when nothing overtakes: to send a message of one    *)
(* exchange a phone needs every party's message of the one before, so all  *)
(* expect it, and who expects it no longer has had one of each.            *)
(***************************************************************************)
From(s) == {x \in NodeStat : Phase[x] >= Phase[s]}

CallsInOrder ==
  \A n \in Parties : \A c \in calls[n] :
    \/ c.stores = "GotDetail" /\ n = Starter /\ stat[n] = "GotPK" /\ Sent("VoteDetail") # {}
    \/ c.stores = "Voted" /\ stat[n] = "GotDetail"

DetailOrder ==
  Sent("VoteDetail") # {} => stat[Starter] \in From("GotDetail") \/ calls[Starter] # {}

KeyOrder(n) ==
  /\ Rcvd(n, "VoteParams") # {} => stat[n] \in From("GotParams")
  /\ stat[n] \in From("GotParams") => party[n] = "Current"
  /\ {m.from : m \in Rcvd(n, "PolyResult")} \subseteq skInf[n]
  /\ stat[n] \in From("SentPki") => skInf[n] = Parties
  /\ SentBy(n, "PubKeyPart") # {} => stat[n] \in From("SentPki")
  /\ partPubKey[n] = {m.from : m \in Rcvd(n, "PubKeyPart")}
  /\ stat[n] \in From("GotPK") => partPubKey[n] = Parties

BallotOrder(n) ==
  /\ Rcvd(n, "VoteDetail") # {} => stat[n] \in From("GotDetail") \/ n = Starter
  /\ stat[n] \in From("GotDetail") => Sent("VoteDetail") # {}
  /\ evalCipher[n] = Rcvd(n, "CipherText")
  /\ stat[n] \in From("SentID") => flag[n]
  /\ SentBy(n, "ID") # {} => stat[n] \in From("SentID")
  /\ decPartNum[n] = {m.from : m \in Rcvd(n, "ID")}
  /\ stat[n] \in From("SentCts") \/ lengthDec[n] # 0 => decPartNum[n] = Parties

ResultOrder(n) ==
  /\ SentBy(n, "PlainTextPart") # {} => stat[n] \in From("SentCts")
  /\ partdec[n] = Rcvd(n, "PlainTextPart")
  /\ stat[n] \in From("SentResult") => result[n] # {}
  /\ result[n] # {} => Cardinality(partdec[n]) = Cardinality(Parties)
  /\ SentBy(n, "VoteResult") # {} => stat[n] \in From("SentResult")
  /\ otherResult[n] = Rcvd(n, "VoteResult")
  /\ stat[n] = "Inited" => {m.from : m \in otherResult[n]} = Parties

\* Inductive, with the invariants above, when Races = {} (server.go:197, 399).
OrderInv ==
  /\ CallsInOrder
  /\ DetailOrder
  /\ \A n \in Parties : KeyOrder(n) /\ BallotOrder(n) /\ ResultOrder(n)

\* What Ballot sees of a round: the ballots sent and the counts reported.
cast == [n \in Parties |-> {c.ticket : c \in SentBy(n, "CipherText")}]
told == [n \in Parties |-> {a.shown.votes : a \in report[n]}]

Election == INSTANCE Ballot WITH cast <- cast, told <- told

\* The round implements Ballot: ballots are cast once, nobody is shown a count
\* before everybody has cast, and what is shown is the count of all of them.
ImplementsBallot == Election!Spec

\* Nothing stops half way: under FairSpec every party gets to vote and every
\* party is told the count.
CompletesBallot == Election!FairSpec

=============================================================================
