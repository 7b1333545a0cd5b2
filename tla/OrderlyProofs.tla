---------------------------- MODULE OrderlyProofs ----------------------------
(***************************************************************************)
(* That a round loses nothing when nothing overtakes: with the sleeps and  *)
(* the users' pace keeping the four races closed, every message finds its  *)
(* addressee in a state that expects it, and no phone runs ahead.          *)
(***************************************************************************)
EXTENDS VoteRoundProofs

-----------------------------------------------------------------------------
(* States only advance *)

\* The states from each exchange on.
LEMMA FromStates ==
  /\ From("GotParams")  = NodeStat \ {"Confirmed"}
  /\ From("SentPki")    = NodeStat \ {"Confirmed", "GotParams"}
  /\ From("GotPK")      = NodeStat \ {"Confirmed", "GotParams", "SentPki"}
  /\ From("GotDetail")  = {"GotDetail", "Voted", "SentID", "SentCts", "SentResult", "Inited"}
  /\ From("SentID")     = {"SentID", "SentCts", "SentResult", "Inited"}
  /\ From("SentCts")    = {"SentCts", "SentResult", "Inited"}
  /\ From("SentResult") = {"SentResult", "Inited"}
  BY DEF From, Phase, NodeStat

\* A step of the loop moves at most its own phone, and forward.
LEMMA LoopForward ==
  ASSUME TypeInv, NEW n \in Parties, Loop(n)
  PROVE  /\ \A q \in Parties \ {n} : stat'[q] = stat[q]
         /\ \A q \in Parties : Phase[stat'[q]] >= Phase[stat[q]]
<1> USE DEF TypeInv, TypeOK, Expects, Become,
  VoteParamsStates, PolyResultStates, PubKeyPartStates, VoteDetailStates,
  CipherTextStates, IDStates, PlainTextPartStates, VoteResultStates
<1>1. \A s \in NodeStat : Phase[s] \in Nat
  BY DEF Phase, NodeStat
<1>2. \A s : Become(n, s) => /\ \A q \in Parties \ {n} : stat'[q] = stat[q]
                             /\ stat'[n] = s
  OBVIOUS
<1>3. ASSUME NEW s \in NodeStat, Become(n, s), Phase[s] >= Phase[stat[n]]
      PROVE  /\ \A q \in Parties \ {n} : stat'[q] = stat[q]
             /\ \A q \in Parties : Phase[stat'[q]] >= Phase[stat[q]]
  BY <1>1, <1>2, <1>3
<1>4. CASE stat' = stat
  BY <1>1, <1>4
<1>5. CASE HandleVoteParams(n)
  <2>1. Become(n, "GotParams") /\ stat[n] = "Confirmed"
    BY <1>5 DEF HandleVoteParams
  <2>. QED
    BY <1>3, <2>1 DEF Phase, NodeStat
<1>6. CASE HandlePolyResult(n) /\ stat' # stat
  <2>1. Become(n, "SentPki") /\ stat[n] \in {"GotParams", "Confirmed"}
    BY <1>6 DEF HandlePolyResult
  <2>. QED
    BY <1>3, <2>1 DEF Phase, NodeStat
<1>7. CASE HandlePubKeyPart(n) /\ stat' # stat
  <2>1. Become(n, "GotPK") /\ stat[n] \in {"GotParams", "SentPki"}
    BY <1>7 DEF HandlePubKeyPart
  <2>. QED
    BY <1>3, <2>1 DEF Phase, NodeStat
<1>8. CASE HandleVoteDetail(n)
  <2>1. Become(n, "GotDetail") /\ stat[n] \in {"GotPK", "SentPki"}
    BY <1>8 DEF HandleVoteDetail
  <2>. QED
    BY <1>3, <2>1 DEF Phase, NodeStat
<1>9. CASE HandleCipherText(n) /\ stat' # stat
  <2>1. Become(n, "SentID") /\ stat[n] \in {"Voted", "GotDetail"}
    BY <1>9 DEF HandleCipherText
  <2>. QED
    BY <1>3, <2>1 DEF Phase, NodeStat
<1>10. CASE HandleCoffin(n) /\ stat' # stat
  <2>1. Become(n, "SentCts") /\ stat[n] \in {"SentID", "Voted"}
    BY <1>10 DEF HandleCoffin
  <2>. QED
    BY <1>3, <2>1 DEF Phase, NodeStat
<1>11. CASE HandlePlainText(n) /\ stat' # stat
  <2>1. Become(n, "SentResult") /\ stat[n] \in {"SentCts", "SentID"}
    BY <1>11 DEF HandlePlainText
  <2>. QED
    BY <1>3, <2>1 DEF Phase, NodeStat
<1>12. CASE HandleVoteResult(n) /\ stat' # stat
  <2>1. Become(n, "Inited") /\ stat[n] \in {"SentResult", "SentCts"}
    BY <1>12 DEF HandleVoteResult
  <2>. QED
    BY <1>3, <2>1 DEF Phase, NodeStat
<1>13. CASE \E type \in MessageTypes : Ignore(n, type)
  BY <1>4, <1>13 DEF Ignore
<1>. QED
  BY <1>4, <1>5, <1>6, <1>7, <1>8, <1>9, <1>10, <1>11, <1>12, <1>13 DEF Loop

\* While the loop waits for calls to return, a call stores the state that
\* follows the one it was made in.
LEMMA CallsStep ==
  ASSUME "store" \notin Races, MaxCalls = 1, TypeInv, TypeInv', FullSumInv,
         CallsInOrder, [Next]_vars
  PROVE  /\ CallsInOrder'
         /\ \A q \in Parties : Phase[stat'[q]] >= Phase[stat[q]]
<1> USE DEF TypeInv, TypeOK, CallsInOrder
<1>0. \A s \in NodeStat : Phase[s] \in Nat
  BY DEF Phase, NodeStat
<1>1. CASE UNCHANGED vars
  BY <1>0, <1>1 DEF vars, envVars, Sent
<1>2. CASE BeginVote
  BY <1>0, <1>2 DEF BeginVote, envVars, Send, Sent, VoteParams
<1>3. CASE SendVoteDetail
  <2>1. calls[Starter] = {}
        /\ calls' = [calls EXCEPT ![Starter] = {[slot |-> 1, stores |-> "GotDetail"]}]
    BY <1>3, EnterAlone, PartiesAssumption DEF SendVoteDetail
  <2>2. Sent("VoteDetail")' # {} /\ stat' = stat /\ stat[Starter] = "GotPK"
    <3>1. PICK m : m.type = "VoteDetail" /\ m \in sent'
      BY <1>3 DEF SendVoteDetail, Send, VoteDetail
    <3>. QED
      BY <1>3, <3>1 DEF SendVoteDetail, Sent
  <2>. QED
    BY <1>0, <2>1, <2>2
<1>4. ASSUME NEW n \in Parties, Loop(n)
      PROVE  /\ CallsInOrder'
             /\ \A q \in Parties : Phase[stat'[q]] >= Phase[stat[q]]
  <2>1. calls[n] = {} /\ calls' = calls
    BY <1>4, LoopKeeps DEF Loop, Ignore, HandleVoteParams, HandlePolyResult,
       HandlePubKeyPart, HandleVoteDetail, HandleCipherText, HandleCoffin,
       HandlePlainText, HandleVoteResult, Take, Keeps
  <2>2. sent \subseteq sent'
    BY <1>4 DEF Loop, Ignore, HandleVoteParams, HandlePolyResult,
       HandlePubKeyPart, HandleVoteDetail, HandleCipherText, HandleCoffin,
       HandlePlainText, HandleVoteResult, Send
  <2>. QED
    BY <1>4, <2>1, <2>2, LoopForward DEF Sent
<1>5. ASSUME NEW n \in Parties, Vote(n)
      PROVE  /\ CallsInOrder'
             /\ \A q \in Parties : Phase[stat'[q]] >= Phase[stat[q]]
  <2>1. PICK t \in Tickets \cup {Abstain} : SendVote(n, t)
    BY <1>5 DEF Vote
  <2>2. calls' = [calls EXCEPT ![n] = {[slot |-> 1, stores |-> "Voted"]}]
    BY <2>1, EnterAlone DEF SendVote
  <2>3. stat' = stat /\ stat[n] = "GotDetail" /\ sent \subseteq sent'
    BY <2>1 DEF SendVote, MayVote, Send
  <2>. QED
    BY <1>0, <2>2, <2>3 DEF Sent
<1>6. ASSUME NEW n \in Parties, Return(n)
      PROVE  /\ CallsInOrder'
             /\ \A q \in Parties : Phase[stat'[q]] >= Phase[stat[q]]
  <2>1. PICK c \in calls[n] : /\ calls' = [calls EXCEPT ![n] = @ \ {c}]
                              /\ stat' = [stat EXCEPT ![n] = c.stores]
    BY <1>6 DEF Return, Become
  <2>2. calls[n] = {c}
    <3>1. \A d \in calls[n] : d.slot = c.slot
      BY DEF Calls
    <3>. QED
      BY <3>1 DEF FullSumInv, VotesOnce
  <2>3. Phase[c.stores] >= Phase[stat[n]]
    BY DEF Phase
  <2>. QED
    BY <1>0, <1>6, <2>1, <2>2, <2>3 DEF Return, Sent
<1>. QED
  BY <1>1, <1>2, <1>3, <1>4, <1>5, <1>6 DEF Next

\* Calls return in order, whatever messages overtake each other.
LEMMA CallsInvariant == "store" \notin Races /\ MaxCalls = 1 => (Spec => []CallsInOrder)
<1> SUFFICES ASSUME "store" \notin Races, MaxCalls = 1 PROVE Spec => []CallsInOrder
  OBVIOUS
<1>1. Init => CallsInOrder
  BY DEF Init, CallsInOrder
<1>2. TypeInv /\ TypeInv' /\ FullSumInv /\ CallsInOrder /\ [Next]_vars => CallsInOrder'
  BY CallsStep
<1>3. MaxCalls = 1 => (Spec => []FullSumInv)
  BY FullSums
<1>4. Spec => []FullSumInv
  BY <1>3
<1>. QED
  BY <1>1, <1>2, <1>4, TypeInvariant, PTL DEF Spec

\* For any number of parties and whatever overtakes, as long as no handler runs
\* between a call's message and its store of Stat: no late or repeated message
\* and no late store takes a phone back (the guards of server.go:364-652).
THEOREM NeverBackward == "store" \notin Races /\ MaxCalls = 1 => (Spec => OnlyForward)
<1> SUFFICES ASSUME "store" \notin Races, MaxCalls = 1 PROVE Spec => OnlyForward
  OBVIOUS
<1>1. TypeInv /\ TypeInv' /\ FullSumInv /\ CallsInOrder /\ [Next]_vars =>
        [\A n \in Parties : Phase[stat'[n]] >= Phase[stat[n]]]_vars
  BY CallsStep
<1>2. MaxCalls = 1 => (Spec => []FullSumInv)
  BY FullSums
<1>3. Spec => []FullSumInv
  BY <1>2
<1>4. "store" \notin Races /\ MaxCalls = 1 => (Spec => []CallsInOrder)
  BY CallsInvariant
<1>5. Spec => []CallsInOrder
  BY <1>4
<1>. QED
  BY <1>1, <1>3, <1>5, TypeInvariant, PTL DEF Spec, OnlyForward

-----------------------------------------------------------------------------
(* Who receives a message expects it *)

OrderlyInv == RoundInv /\ KeyInv /\ OrderInv

\* Taking a message adds it to the messages of its type and to no others.
LEMMA TakeAdds ==
  ASSUME TypeInv, NEW n \in Parties, NEW type, NEW m \in Arriving(n, type), Take(n, m)
  PROVE  /\ Rcvd(n, type)' = Rcvd(n, type) \cup {m}
         /\ \A p \in Parties : \A t : p # n \/ t # type => Rcvd(p, t)' = Rcvd(p, t)
<1>1. m.type = type /\ rcvd' = [rcvd EXCEPT ![n] = @ \cup {m}]
  BY DEF Arriving, Sent, Take
<1>2. n \in DOMAIN rcvd
  BY DEF TypeInv, TypeOK
<1>. QED
  BY <1>1, <1>2 DEF Rcvd, TypeInv, TypeOK

\* Every message has a party for its sender.
LEMMA SenderType ==
  ASSUME TypeInv, NEW m \in sent
  PROVE  /\ m.type \in {"PolyResult", "PubKeyPart", "CipherText", "ID", "PlainTextPart", "VoteResult"}
              => m.from \in Parties
         /\ m.type = "PubKeyPart" => m = PubKeyPart(m.from)
         /\ m.type = "VoteResult" => m = VoteResult(m.from, m.result)
  BY DEF TypeInv, TypeOK, Messages, Ballots, DecShares, ResultMsgs, PubKeyPart, VoteResult

\* A party's part of the key only arrives where a share has been dealt.
LEMMA PartExpected ==
  ASSUME OrderlyInv, Sent("PubKeyPart") # {}, NEW n \in Parties
  PROVE  stat[n] \in From("GotParams")
<1>1. stat[n] # "Confirmed" /\ stat[n] \in NodeStat
  BY DEF OrderlyInv, RoundInv, TypeInv, TypeOK, KeyInv, DealtFirst
<1>. QED
  BY <1>1, FromStates

LEMMA DetailExpected ==
  ASSUME Races = {}, OrderlyInv, NEW n \in Parties, NEW m \in Arriving(n, "VoteDetail")
  PROVE  stat[n] \in From("GotPK")
<1> USE DEF OrderlyInv, RoundInv, TypeInv, TypeOK
<1>1. Cardinality(Rcvd(n, "PubKeyPart")) = Cardinality(Parties)
  BY DEF Arriving, Sent, InOrder
<1>2. \A o \in Rcvd(n, "PubKeyPart") :
        o.from \in Parties /\ o = PubKeyPart(o.from) /\ o \in Sent("PubKeyPart")
  BY SenderType DEF Rcvd, CollectedWasSent, Sent
<1>3. {o.from : o \in Rcvd(n, "PubKeyPart")} = Parties
  BY <1>1, <1>2, AllSenders
<1>4. stat[n] # "Confirmed"
  BY <1>2, <1>3, PartiesAssumption DEF KeyInv, DealtFirst
<1>5. stat[n] \notin EarlyStates
  BY <1>3, <1>4 DEF KeyInv, NoPartDropped
<1>6. stat[n] \in NodeStat
  OBVIOUS
<1>. QED
  BY <1>5, <1>6, FromStates DEF EarlyStates

\* Who has cast a ballot knew the candidates.
LEMMA VoterInformed ==
  ASSUME OrderlyInv, NEW q \in Parties, HasVoted(q)
  PROVE  stat[q] \in From("GotDetail")
<1>1. stat[q] \in PastBallot \/ \E c \in calls[q] : TRUE
  BY DEF OrderlyInv, RoundInv, FullSumInv, VotesOnce
<1>2. ASSUME NEW c \in calls[q] PROVE stat[q] = "GotDetail"
  BY <1>2 DEF OrderlyInv, RoundInv, FullSumInv, VotesOnce, OrderInv, CallsInOrder
<1>. QED
  BY <1>1, <1>2, FromStates DEF PastBallot

\* A ballot arrives at a phone that knows the candidates and has not had all.
LEMMA BallotExpected ==
  ASSUME Races = {}, OrderlyInv, NEW n \in Parties, calls[n] = {},
         NEW m \in Arriving(n, "CipherText")
  PROVE  stat[n] \in CipherTextStates
<1>1. m \in Sent("CipherText") /\ m \notin rcvd[n] /\ InOrder(n, m)
  BY DEF Arriving
<1>2. stat[n] \in From("GotDetail")
  <2>1. CASE n # Starter
    BY <1>1, <2>1 DEF InOrder, Sent, OrderlyInv, OrderInv, DetailOrder, BallotOrder
  <2>2. CASE n = Starter
    <3>1. m.from \in Parties /\ HasVoted(m.from)
      BY <1>1, SenderType DEF Sent, HasVoted, OrderlyInv, RoundInv
    <3>2. Sent("VoteDetail") # {}
      BY <3>1, VoterInformed DEF OrderlyInv, OrderInv, DetailOrder, BallotOrder
    <3>. QED
      BY <2>2, <3>2 DEF OrderlyInv, OrderInv, DetailOrder, BallotOrder
  <2>. QED
    BY <2>1, <2>2
<1>3. stat[n] \notin From("SentID")
  <2>1. SUFFICES ASSUME flag[n] PROVE FALSE
    BY DEF OrderlyInv, OrderInv, DetailOrder, BallotOrder
  <2>2. m \in sum[n]
    BY <1>1, <2>1, SumIsAll DEF OrderlyInv, RoundInv
  <2>. QED
    BY <1>1, <2>2 DEF OrderlyInv, RoundInv, TypeInv, CollectedWasSent
<1>. QED
  BY <1>2, <1>3, FromStates DEF CipherTextStates

\* Whoever has a full sum has it of everybody, this phone included.
LEMMA IDExpected ==
  ASSUME OrderlyInv, NEW n \in Parties, calls[n] = {}, NEW m \in Arriving(n, "ID")
  PROVE  stat[n] \in IDStates
<1>1. m \in sent /\ m.type = "ID" /\ m \notin rcvd[n]
  BY DEF Arriving, Sent
<1>2. m.from \in Parties /\ m = ID(m.from)
  BY <1>1, IDType DEF OrderlyInv, RoundInv
<1>3. flag[m.from]
  BY <1>1, <1>2, FromStates DEF OrderlyInv, OrderInv, DetailOrder, BallotOrder, SentBy, Sent
<1>4. HasVoted(n)
  <2>1. FullSum(Sent("CipherText"))
    BY <1>2, <1>3, SumIsAll DEF OrderlyInv, RoundInv
  <2>2. n \in {c.from : c \in Sent("CipherText")}
    BY <2>1 DEF FullSum
  <2>. QED
    BY <2>2 DEF HasVoted
<1>5. stat[n] \in PastBallot
  BY <1>4 DEF OrderlyInv, RoundInv, FullSumInv, VotesOnce
<1>6. stat[n] \notin From("SentCts")
  <2>1. SUFFICES ASSUME decPartNum[n] = Parties PROVE FALSE
    BY DEF OrderlyInv, OrderInv, DetailOrder, BallotOrder
  <2>2. PICK o \in Rcvd(n, "ID") : o.from = m.from
    <3>1. m.from \in {o.from : o \in Rcvd(n, "ID")}
      BY <1>2, <2>1 DEF OrderlyInv, OrderInv, DetailOrder, BallotOrder
    <3>. QED
      BY <3>1
  <2>3. o = ID(o.from)
    BY IDType DEF Rcvd, OrderlyInv, RoundInv, TypeInv, CollectedWasSent
  <2>. QED
    BY <1>1, <1>2, <2>2, <2>3 DEF Rcvd
<1>. QED
  BY <1>5, <1>6, FromStates DEF PastBallot, IDStates

\* Whoever has made its share has had this phone's announcement.
LEMMA ShareExpected ==
  ASSUME OrderlyInv, NEW n \in Parties, NEW m \in Arriving(n, "PlainTextPart")
  PROVE  stat[n] \in PlainTextPartStates /\ result[n] = {}
<1>1. m \in Sent("PlainTextPart") /\ m \notin rcvd[n]
  BY DEF Arriving
<1>2. m.from \in Parties
  BY <1>1, ShareType DEF OrderlyInv, RoundInv
<1>3. decPartNum[m.from] = Parties
  BY <1>1, <1>2 DEF OrderlyInv, RoundInv, ResultInv, ShareOnce, SentBy
<1>4. stat[n] \in From("SentID")
  <2>1. n \in {o.from : o \in Rcvd(m.from, "ID")}
    BY <1>2, <1>3 DEF OrderlyInv, OrderInv, DetailOrder, BallotOrder
  <2>2. PICK o \in Rcvd(m.from, "ID") : o.from = n
    BY <2>1
  <2>3. o \in SentBy(n, "ID")
    BY <1>2, <2>2 DEF Rcvd, SentBy, Sent, OrderlyInv, RoundInv, TypeInv, CollectedWasSent
  <2>. QED
    BY <2>3 DEF OrderlyInv, OrderInv, DetailOrder, BallotOrder
<1>5. result[n] = {}
  <2>1. SUFFICES ASSUME result[n] # {} PROVE FALSE
    OBVIOUS
  <2>2. partdec[n] \subseteq Sent("PlainTextPart") /\ Cardinality(partdec[n]) = Cardinality(Parties)
    BY <2>1 DEF OrderlyInv, RoundInv, ResultInv, SameResult, OrderInv, ResultOrder
  <2>3. lengthDec[n] # 0 \/ flag[n]
    BY <1>4 DEF OrderlyInv, OrderInv, DetailOrder, BallotOrder
  <2>4. flag[n]
    BY <2>3 DEF OrderlyInv, RoundInv, ResultInv, ShareOnce
  <2>5. partdec[n] = Sent("PlainTextPart")
    BY <2>2, <2>4, SharesAreAll DEF OrderlyInv, RoundInv
  <2>. QED
    BY <1>1, <2>5 DEF OrderlyInv, OrderInv, ResultOrder, Rcvd
<1>6. stat[n] \notin From("SentResult")
  BY <1>5 DEF OrderlyInv, OrderInv, ResultOrder
<1>. QED
  BY <1>4, <1>5, <1>6, FromStates DEF PlainTextPartStates

\* There is one result of each party.
LEMMA OneResult ==
  ASSUME OrderlyInv, NEW v \in Sent("VoteResult"), NEW w \in Sent("VoteResult"), v.from = w.from
  PROVE  v = w
<1>1. /\ v.from \in Parties /\ v = VoteResult(v.from, v.result)
      /\ w = VoteResult(w.from, w.result)
  BY SenderType DEF Sent, OrderlyInv, RoundInv
<1>2. v.result \in result[v.from] /\ w.result \in result[v.from]
  BY <1>1 DEF OrderlyInv, RoundInv, ResultInv, SameResult, SentBy
<1>3. v.result = w.result
  BY <1>1, <1>2 DEF OrderlyInv, RoundInv, ResultInv, SameResult
<1>. QED
  BY <1>1, <1>3

\* Whoever has decrypted has had this phone's share.
LEMMA ResultExpected ==
  ASSUME OrderlyInv, NEW n \in Parties, NEW m \in Arriving(n, "VoteResult")
  PROVE  stat[n] \in VoteResultStates
<1>1. m \in Sent("VoteResult") /\ m \notin rcvd[n] /\ m.from \in Parties
  BY SenderType DEF Arriving, Sent, OrderlyInv, RoundInv
<1>2. stat[n] \in From("SentCts")
  <2>1. PICK r \in result[m.from] : TRUE
    BY <1>1 DEF OrderlyInv, RoundInv, ResultInv, SameResult, SentBy
  <2>2. n \in {s.from : s \in Sent("PlainTextPart")}
    BY <1>1, <2>1 DEF OrderlyInv, RoundInv, ResultInv, SameResult
  <2>3. PICK s \in Sent("PlainTextPart") : s.from = n
    BY <2>2
  <2>. QED
    BY <2>3 DEF SentBy, OrderlyInv, OrderInv, ResultOrder
<1>3. stat[n] # "Inited"
  <2>1. SUFFICES ASSUME m.from \in {o.from : o \in otherResult[n]} PROVE FALSE
    BY <1>1 DEF OrderlyInv, OrderInv, ResultOrder
  <2>2. PICK o \in otherResult[n] : o.from = m.from
    BY <2>1
  <2>3. o \in Sent("VoteResult") /\ o \in rcvd[n]
    BY DEF OrderlyInv, RoundInv, ResultInv, SameResult, OrderInv, ResultOrder, Rcvd
  <2>. QED
    BY <1>1, <2>2, <2>3, OneResult
<1>. QED
  BY <1>2, <1>3, FromStates DEF VoteResultStates

-----------------------------------------------------------------------------
(* OrderInv is inductive: what a step leaves alone, then the actions       *)

\* What the order of each group of exchanges speaks of at p is left alone.
KeyRest(p) ==
  /\ party'[p] = party[p] /\ skInf'[p] = skInf[p] /\ partPubKey'[p] = partPubKey[p]
  /\ SentBy(p, "PubKeyPart")' = SentBy(p, "PubKeyPart")
  /\ Rcvd(p, "VoteParams")' = Rcvd(p, "VoteParams")
  /\ Rcvd(p, "PolyResult")' = Rcvd(p, "PolyResult")
  /\ Rcvd(p, "PubKeyPart")' = Rcvd(p, "PubKeyPart")
  /\ stat'[p] = stat[p] \/ (stat[p] \in From("GotPK") /\ stat'[p] \in From("GotPK"))

BallotRest(p) ==
  /\ evalCipher'[p] = evalCipher[p] /\ flag'[p] = flag[p]
  /\ decPartNum'[p] = decPartNum[p] /\ lengthDec'[p] = lengthDec[p]
  /\ Sent("VoteDetail") \subseteq Sent("VoteDetail")'
  /\ SentBy(p, "ID")' = SentBy(p, "ID")
  /\ Rcvd(p, "VoteDetail")' = Rcvd(p, "VoteDetail")
  /\ Rcvd(p, "CipherText")' = Rcvd(p, "CipherText")
  /\ Rcvd(p, "ID")' = Rcvd(p, "ID")
  /\ \/ stat'[p] = stat[p]
     \/ stat[p] \notin From("GotDetail") /\ stat'[p] \notin From("GotDetail")
     \/ stat[p] \in From("SentCts") /\ stat'[p] \in From("SentCts")

ResultRest(p) ==
  /\ partdec'[p] = partdec[p] /\ result'[p] = result[p] /\ otherResult'[p] = otherResult[p]
  /\ SentBy(p, "PlainTextPart")' = SentBy(p, "PlainTextPart")
  /\ SentBy(p, "VoteResult")' = SentBy(p, "VoteResult")
  /\ Rcvd(p, "PlainTextPart")' = Rcvd(p, "PlainTextPart")
  /\ Rcvd(p, "VoteResult")' = Rcvd(p, "VoteResult")
  /\ \/ stat'[p] = stat[p]
     \/ stat[p] \notin From("SentCts") /\ stat'[p] \notin From("SentCts")

LEMMA RestKeeps ==
  ASSUME NEW p \in Parties
  PROVE  /\ KeyOrder(p) /\ KeyRest(p) => KeyOrder(p)'
         /\ BallotOrder(p) /\ BallotRest(p) => BallotOrder(p)'
         /\ ResultOrder(p) /\ ResultRest(p) => ResultOrder(p)'
<1>0. \A t : From(t)' = From(t)
  BY DEF From
<1>1. \A s : /\ s \in From("GotPK") => s \in From("SentPki") /\ s \in From("GotParams")
             /\ s \in From("SentCts") => s \in From("SentID")
             /\ s \in From("SentID") => s \in From("GotDetail")
             /\ s \in From("SentResult") \/ s = "Inited" => s \in From("SentCts")
  BY FromStates
<1>2. ASSUME KeyOrder(p), KeyRest(p) PROVE KeyOrder(p)'
  <2>1. /\ stat'[p] \in From("GotParams") <=> stat[p] \in From("GotParams")
        /\ stat'[p] \in From("SentPki") <=> stat[p] \in From("SentPki")
        /\ stat'[p] \in From("GotPK") <=> stat[p] \in From("GotPK")
    BY <1>1, <1>2 DEF KeyRest
  <2>. QED
    BY <1>0, <1>2, <2>1 DEF KeyRest, KeyOrder
<1>3. ASSUME BallotOrder(p), BallotRest(p) PROVE BallotOrder(p)'
  <2>1. /\ stat'[p] \in From("GotDetail") <=> stat[p] \in From("GotDetail")
        /\ stat'[p] \in From("SentID") <=> stat[p] \in From("SentID")
        /\ stat'[p] \in From("SentCts") <=> stat[p] \in From("SentCts")
    BY <1>1, <1>3 DEF BallotRest
  <2>. QED
    BY <1>0, <1>3, <2>1 DEF BallotRest, BallotOrder
<1>4. ASSUME ResultOrder(p), ResultRest(p) PROVE ResultOrder(p)'
  <2>1. /\ stat'[p] \in From("SentCts") <=> stat[p] \in From("SentCts")
        /\ stat'[p] \in From("SentResult") <=> stat[p] \in From("SentResult")
        /\ stat'[p] = "Inited" <=> stat[p] = "Inited"
    BY <1>1, <1>4 DEF ResultRest
  <2>. QED
    BY <1>0, <1>4, <2>1 DEF ResultRest, ResultOrder
<1>. QED
  BY <1>2, <1>3, <1>4

\* A call sends and stores in its turn.
LEMMA CallKeepsOrder ==
  ASSUME MaxCalls = 1, OrderlyInv, CallsInOrder',
         \/ BeginVote \/ SendVoteDetail
         \/ \E n \in Parties : Vote(n) \/ Return(n)
  PROVE  OrderInv'
<1> USE DEF OrderlyInv, RoundInv, TypeInv, TypeOK, OrderInv
<1>1. CASE BeginVote
  <2>1. \A p \in Parties : KeyRest(p) /\ BallotRest(p) /\ ResultRest(p)
    BY <1>1 DEF BeginVote, Send, Sent, SentBy, Rcvd, VoteParams, KeyRest, BallotRest,
       ResultRest, keyVars, ballotVars, resultVars, envVars
  <2>2. DetailOrder'
    BY <1>1 DEF BeginVote, Send, Sent, VoteParams, envVars, DetailOrder, From
  <2>. QED
    BY <2>1, <2>2, RestKeeps
<1>2. CASE SendVoteDetail
  <2>1. \A p \in Parties : KeyRest(p) /\ BallotRest(p) /\ ResultRest(p)
    BY <1>2 DEF SendVoteDetail, Send, Sent, SentBy, Rcvd, VoteDetail, KeyRest, BallotRest,
       ResultRest, keyVars, ballotVars, resultVars
  <2>2. calls'[Starter] # {}
    <3>1. calls' = [calls EXCEPT ![Starter] = {[slot |-> 1, stores |-> "GotDetail"]}]
      BY <1>2, EnterAlone, PartiesAssumption DEF SendVoteDetail
    <3>. QED
      BY <3>1, PartiesAssumption
  <2>. QED
    BY <2>1, <2>2, RestKeeps DEF DetailOrder
<1>3. ASSUME NEW n \in Parties, Vote(n) PROVE OrderInv'
  <2>1. PICK v \in Tickets \cup {Abstain} : SendVote(n, v)
    BY <1>3 DEF Vote
  <2>2. \A p \in Parties : KeyRest(p) /\ BallotRest(p) /\ ResultRest(p)
    BY <2>1 DEF SendVote, Send, Sent, SentBy, Rcvd, CipherText, KeyRest, BallotRest,
       ResultRest, keyVars, ballotVars, resultVars
  <2>3. /\ stat' = stat /\ \A p \in Parties : calls[p] \subseteq calls'[p]
        /\ Sent("VoteDetail") = Sent("VoteDetail")'
    BY <2>1, EnterAlone DEF SendVote, Send, Sent, CipherText
  <2>4. DetailOrder'
    BY <2>3, PartiesAssumption DEF DetailOrder, From
  <2>. QED
    BY <2>2, <2>4, RestKeeps
<1>4. ASSUME NEW n \in Parties, Return(n) PROVE OrderInv'
  <2>1. PICK c \in calls[n] : /\ calls' = [calls EXCEPT ![n] = @ \ {c}]
                              /\ stat' = [stat EXCEPT ![n] = c.stores]
    BY <1>4 DEF Return, Become
  <2>2. \/ c.stores = "GotDetail" /\ n = Starter /\ stat[n] = "GotPK" /\ Sent("VoteDetail") # {}
        \/ c.stores = "Voted" /\ stat[n] = "GotDetail"
    BY DEF CallsInOrder
  <2>3. UNCHANGED <<keyVars, ballotVars, resultVars, sent, rcvd>>
    BY <1>4 DEF Return
  <2>4. \A p \in Parties \ {n} : stat'[p] = stat[p] /\ calls'[p] = calls[p]
    BY <2>1
  <2>5. stat'[n] = c.stores
    BY <2>1
  <2>6. \A p \in Parties : KeyRest(p) /\ ResultRest(p)
    BY <2>2, <2>3, <2>4, <2>5, FromStates
       DEF Sent, SentBy, Rcvd, KeyRest, ResultRest, keyVars, resultVars, NodeStat
  <2>7. \A p \in Parties \ {n} : BallotRest(p)
    BY <2>3, <2>4 DEF Sent, SentBy, Rcvd, BallotRest, ballotVars
  <2>8. /\ stat'[n] \in From("GotDetail") /\ Sent("VoteDetail") # {}
        /\ stat'[n] \notin From("SentID") /\ stat'[n] \notin From("SentCts")
        /\ stat[n] \notin From("SentID") /\ stat[n] \notin From("SentCts")
    BY <2>2, <2>5, FromStates DEF BallotOrder
  <2>9. BallotOrder(n)'
    <3>1. /\ evalCipher'[n] = evalCipher[n] /\ flag'[n] = flag[n]
          /\ decPartNum'[n] = decPartNum[n] /\ lengthDec'[n] = lengthDec[n]
          /\ Sent("VoteDetail")' = Sent("VoteDetail")
          /\ SentBy(n, "ID")' = SentBy(n, "ID")
          /\ \A t : Rcvd(n, t)' = Rcvd(n, t) /\ From(t)' = From(t)
      BY <2>3 DEF Sent, SentBy, Rcvd, From, ballotVars
    <3>. QED
      BY <2>8, <3>1 DEF BallotOrder
  <2>10. DetailOrder'
    BY <2>3, <2>4, <2>8, PartiesAssumption DEF DetailOrder, Sent, From
  <2>. QED
    BY <2>6, <2>7, <2>9, <2>10, RestKeeps
<1>. QED
  BY <1>1, <1>2, <1>3, <1>4

\* A step of the loop leaves the other phones alone, and starts in its turn.
LEMMA OthersKeep ==
  ASSUME TypeInv, OrderInv, NEW n \in Parties, Loop(n)
  PROVE  /\ \A p \in Parties \ {n} : KeyOrder(p)' /\ BallotOrder(p)' /\ ResultOrder(p)'
         /\ DetailOrder'
<1> USE DEF TypeInv, TypeOK
<1>1. Sent("VoteDetail")' = Sent("VoteDetail") /\ calls' = calls
  BY DEF Loop, Ignore, HandleVoteParams, HandlePolyResult, HandlePubKeyPart, HandleVoteDetail,
     HandleCipherText, HandleCoffin, HandlePlainText, HandleVoteResult, envVars, Send, Sent,
     PolyResult, PubKeyPart, ID, PlainTextPart, VoteResult
<1>2. ASSUME NEW p \in Parties \ {n}
      PROVE  KeyOrder(p)' /\ BallotOrder(p)' /\ ResultOrder(p)'
  <2>1. \A t : Rcvd(p, t)' = Rcvd(p, t)
    <3>1. \E m : Take(n, m)
      BY DEF Loop, Ignore, HandleVoteParams, HandlePolyResult, HandlePubKeyPart,
         HandleVoteDetail, HandleCipherText, HandleCoffin, HandlePlainText, HandleVoteResult
    <3>2. rcvd'[p] = rcvd[p]
      BY <1>2, <3>1 DEF Take
    <3>. QED
      BY <3>2 DEF Rcvd
  <2>2. \A t : SentBy(p, t)' = SentBy(p, t)
    BY DEF Loop, Ignore, HandleVoteParams, HandlePolyResult, HandlePubKeyPart, HandleVoteDetail,
       HandleCipherText, HandleCoffin, HandlePlainText, HandleVoteResult, Send, Sent, SentBy,
       PolyResult, PubKeyPart, ID, PlainTextPart, VoteResult
  <2>3. stat'[p] = stat[p]
    BY LoopForward
  <2>4. party'[p] = party[p] /\ skInf'[p] = skInf[p] /\ partPubKey'[p] = partPubKey[p]
    BY DEF Loop, Ignore, HandleVoteParams, HandlePolyResult, HandlePubKeyPart, HandleVoteDetail,
       HandleCipherText, HandleCoffin, HandlePlainText, HandleVoteResult, keyVars
  <2>5. /\ evalCipher'[p] = evalCipher[p] /\ flag'[p] = flag[p]
        /\ decPartNum'[p] = decPartNum[p] /\ lengthDec'[p] = lengthDec[p]
    <3>1. CASE HandleCipherText(n)
      BY <3>1 DEF HandleCipherText
    <3>2. CASE HandleCoffin(n)
      BY <3>2 DEF HandleCoffin
    <3>3. CASE UNCHANGED ballotVars
      BY <3>3 DEF ballotVars
    <3>. QED
      BY <3>1, <3>2, <3>3 DEF Loop, Ignore, HandleVoteParams, HandlePolyResult,
         HandlePubKeyPart, HandleVoteDetail, HandlePlainText, HandleVoteResult
  <2>6. /\ partdec'[p] = partdec[p] /\ result'[p] = result[p]
        /\ otherResult'[p] = otherResult[p]
    <3>1. CASE HandlePlainText(n)
      BY <3>1 DEF HandlePlainText
    <3>2. CASE HandleVoteResult(n)
      BY <3>2 DEF HandleVoteResult
    <3>3. CASE UNCHANGED resultVars
      BY <3>3 DEF resultVars
    <3>. QED
      BY <3>1, <3>2, <3>3 DEF Loop, Ignore, HandleVoteParams, HandlePolyResult,
         HandlePubKeyPart, HandleVoteDetail, HandleCipherText, HandleCoffin
  <2>7. KeyRest(p) /\ BallotRest(p) /\ ResultRest(p)
    BY <1>1, <2>1, <2>2, <2>3, <2>4, <2>5, <2>6 DEF KeyRest, BallotRest, ResultRest
  <2>. QED
    BY <2>7, RestKeeps DEF OrderInv
<1>3. DetailOrder'
  <2>1. stat[Starter] \in From("GotDetail") => stat'[Starter] \in From("GotDetail")
    <3>1. stat'[Starter] \in NodeStat
      BY LoopKeeps, PartiesAssumption DEF Keeps
    <3>2. Phase[stat'[Starter]] >= Phase[stat[Starter]]
      BY LoopForward, PartiesAssumption
    <3>3. \A s \in NodeStat : Phase[s] \in Nat
      BY DEF Phase, NodeStat
    <3>. QED
      BY <3>1, <3>2, <3>3, PartiesAssumption DEF From, NodeStat
  <2>. QED
    BY <1>1, <2>1 DEF OrderInv, DetailOrder, From
<1>. QED
  BY <1>2, <1>3

\* The three exchanges of keys.  A part published is the part of a phone that
\* has all its shares, so who has every part has sent its own.
LEMMA KeyHandlersKeepOrder ==
  ASSUME Races = {}, OrderlyInv, NEW n \in Parties,
         HandleVoteParams(n) \/ HandlePolyResult(n) \/ HandlePubKeyPart(n)
  PROVE  KeyOrder(n)' /\ BallotOrder(n)' /\ ResultOrder(n)'
<1> USE DEF OrderlyInv, RoundInv, TypeInv, TypeOK, OrderInv, Expects
<1>0. \A t : From(t)' = From(t)
  BY DEF From
<1>1. CASE HandleVoteParams(n)
  <2>1. PICK m \in Arriving(n, "VoteParams") : HandleVoteParams(n)!(m)
    BY <1>1 DEF HandleVoteParams
  <2>2. /\ stat[n] = "Confirmed" /\ stat'[n] = "GotParams" /\ party'[n] = "Current"
        /\ skInf[n] \subseteq skInf'[n] /\ partPubKey' = partPubKey
        /\ UNCHANGED <<ballotVars, resultVars>> /\ Take(n, m)
    BY <2>1 DEF VoteParamsStates, Become
  <2>3. \A t : t # "PolyResult" => Sent(t)' = Sent(t)
    BY <2>1 DEF Send, Sent, PolyResult
  <2>4. \A t : t # "VoteParams" => Rcvd(n, t)' = Rcvd(n, t)
    BY <2>2, TakeAdds
  <2>5. BallotRest(n) /\ ResultRest(n)
    BY <2>2, <2>3, <2>4, FromStates DEF BallotRest, ResultRest, SentBy, ballotVars, resultVars
  <2>6. KeyOrder(n)'
    <3>1. SentBy(n, "PubKeyPart")' = SentBy(n, "PubKeyPart")
      BY <2>3 DEF SentBy
    <3>. QED
      BY <1>0, <2>2, <2>4, <3>1, FromStates DEF KeyOrder, NodeStat
  <2>. QED
    BY <2>5, <2>6, RestKeeps
<1>2. CASE HandlePolyResult(n)
  <2>1. PICK m \in Arriving(n, "PolyResult") : HandlePolyResult(n)!(m)
    BY <1>2 DEF HandlePolyResult
  <2>2. stat[n] = "GotParams" /\ party[n] = "Current" /\ parties[n] = Parties
    <3>1. Rcvd(n, "VoteParams") # {}
      BY DEF Arriving, InOrder, Sent
    <3>. QED
      BY <2>1, <3>1, FromStates DEF PolyResultStates, KeyOrder, KeyInv, DealtFirst
  <2>3. /\ skInf'[n] = skInf[n] \cup {m.from}
        /\ party' = party /\ partPubKey' = partPubKey
        /\ UNCHANGED <<ballotVars, resultVars>> /\ Take(n, m)
    BY <2>1, <2>2
  <2>4. \/ stat'[n] = "GotParams" /\ sent' = sent
        \/ /\ stat'[n] = "SentPki" /\ sent' = sent \cup {PubKeyPart(n)}
           /\ Cardinality(skInf'[n]) = Cardinality(Parties)
    BY <2>1, <2>2 DEF Become, Send, EverySecretShare
  <2>5. \A t : t # "PubKeyPart" => Sent(t)' = Sent(t)
    BY <2>4 DEF Sent, PubKeyPart
  <2>6. /\ Rcvd(n, "PolyResult")' = Rcvd(n, "PolyResult") \cup {m}
        /\ \A t : t # "PolyResult" => Rcvd(n, t)' = Rcvd(n, t)
    BY <2>3, TakeAdds
  <2>7. BallotRest(n) /\ ResultRest(n)
    BY <2>2, <2>3, <2>4, <2>5, <2>6, FromStates
       DEF BallotRest, ResultRest, SentBy, ballotVars, resultVars
  <2>8. stat'[n] = "SentPki" => skInf'[n] = Parties
    <3>1. m.from \in Parties
      BY SenderType DEF Arriving, Sent
    <3>. QED
      BY <2>3, <2>4, <3>1, AllParties, PartiesCardinality
  <2>9. SentBy(n, "PubKeyPart") = {}
    BY <2>2, FromStates DEF KeyOrder
  <2>10. stat'[n] = "GotParams" => SentBy(n, "PubKeyPart")' = SentBy(n, "PubKeyPart")
    BY <2>4 DEF SentBy, Sent
  <2>11. /\ stat'[n] \in From("GotParams") /\ stat'[n] \notin From("GotPK")
         /\ stat'[n] = "SentPki" <=> stat'[n] \in From("SentPki")
    BY <2>4, FromStates DEF NodeStat
  <2>12. KeyOrder(n)'
    <3>1. {o.from : o \in Rcvd(n, "PolyResult")'} \subseteq skInf'[n]
      BY <2>3, <2>6 DEF KeyOrder
    <3>2. SentBy(n, "PubKeyPart")' # {} => stat'[n] = "SentPki"
      BY <2>4, <2>9, <2>10
    <3>3. Rcvd(n, "PubKeyPart")' = Rcvd(n, "PubKeyPart")
      BY <2>6
    <3>. QED
      BY <1>0, <2>2, <2>3, <2>8, <2>11, <3>1, <3>2, <3>3 DEF KeyOrder
  <2>. QED
    BY <2>7, <2>12, RestKeeps
<1>3. CASE HandlePubKeyPart(n)
  <2>1. PICK m \in Arriving(n, "PubKeyPart") : HandlePubKeyPart(n)!(m)
    BY <1>3 DEF HandlePubKeyPart
  <2>2. /\ stat[n] \in {"SentPki", "GotParams"} /\ parties[n] = Parties
        /\ partPubKey'[n] = partPubKey[n] \cup {m.from}
        /\ party' = party /\ skInf' = skInf /\ sent' = sent
        /\ UNCHANGED <<ballotVars, resultVars>> /\ Take(n, m)
    BY <2>1 DEF PubKeyPartStates, KeyInv, DealtFirst
  <2>3. \/ stat'[n] = stat[n]
        \/ stat'[n] = "GotPK" /\ Cardinality(partPubKey'[n]) >= Cardinality(Parties)
    BY <2>1, <2>2 DEF Become, EveryKeyPart
  <2>4. \A t : Sent(t)' = Sent(t)
    BY <2>2 DEF Sent
  <2>5. /\ Rcvd(n, "PubKeyPart")' = Rcvd(n, "PubKeyPart") \cup {m}
        /\ \A t : t # "PubKeyPart" => Rcvd(n, t)' = Rcvd(n, t)
    BY <2>2, TakeAdds
  <2>6. BallotRest(n) /\ ResultRest(n)
    BY <2>2, <2>3, <2>4, <2>5, FromStates
       DEF BallotRest, ResultRest, SentBy, ballotVars, resultVars
  <2>7. m \in Sent("PubKeyPart") /\ m.from \in Parties
    BY SenderType DEF Arriving, Sent
  <2>8. stat'[n] = "GotPK" => partPubKey'[n] = Parties /\ skInf[n] = Parties
    <3>1. SUFFICES ASSUME stat'[n] = "GotPK"
                   PROVE  partPubKey'[n] = Parties /\ skInf[n] = Parties
      OBVIOUS
    <3>2. partPubKey'[n] = Parties
      BY <2>2, <2>3, <2>7, <3>1, AllParties
    <3>3. \E o \in Sent("PubKeyPart") : o.from = n
      BY <2>2, <2>7, <3>2 DEF KeyOrder, Rcvd, CollectedWasSent, Sent
    <3>4. stat[n] \in From("SentPki")
      BY <3>3 DEF KeyOrder, SentBy
    <3>. QED
      BY <3>2, <3>4 DEF KeyOrder
  <2>9. stat'[n] \in From("GotPK") => stat'[n] = "GotPK"
    BY <2>2, <2>3, FromStates
  <2>10. /\ stat'[n] \in From("GotParams")
         /\ stat[n] \in From("GotParams")
         /\ stat'[n] \in From("SentPki") => stat[n] \in From("SentPki") \/ stat'[n] = "GotPK"
         /\ stat[n] \in From("SentPki") => stat'[n] \in From("SentPki")
    BY <2>2, <2>3, FromStates DEF NodeStat
  <2>11. SentBy(n, "PubKeyPart")' = SentBy(n, "PubKeyPart")
    BY <2>4 DEF SentBy
  <2>12. KeyOrder(n)'
    BY <1>0, <2>2, <2>5, <2>8, <2>9, <2>10, <2>11 DEF KeyOrder
  <2>. QED
    BY <2>6, <2>12, RestKeeps
<1>. QED
  BY <1>1, <1>2, <1>3

\* The candidates, the ballots and the announcements.
LEMMA BallotHandlersKeepOrder ==
  ASSUME Races = {}, OrderlyInv, RoundInv', NEW n \in Parties,
         HandleVoteDetail(n) \/ HandleCipherText(n) \/ HandleCoffin(n)
  PROVE  KeyOrder(n)' /\ BallotOrder(n)' /\ ResultOrder(n)'
<1> USE DEF OrderlyInv, RoundInv, TypeInv, TypeOK, OrderInv, Expects
<1>0. \A t : From(t)' = From(t)
  BY DEF From
<1>1. CASE HandleVoteDetail(n)
  <2>1. PICK m \in Arriving(n, "VoteDetail") : HandleVoteDetail(n)!(m)
    BY <1>1 DEF HandleVoteDetail
  <2>2. stat[n] = "GotPK" /\ stat'[n] = "GotDetail"
    BY <2>1, DetailExpected, FromStates DEF VoteDetailStates, Become
  <2>3. /\ UNCHANGED <<keyVars, ballotVars, resultVars>> /\ Take(n, m)
        /\ \A t : Sent(t)' = Sent(t)
    BY <2>1 DEF Sent
  <2>4. \A t : t # "VoteDetail" => Rcvd(n, t)' = Rcvd(n, t)
    BY <2>3, TakeAdds
  <2>5. KeyRest(n) /\ ResultRest(n)
    BY <2>2, <2>3, <2>4, FromStates DEF KeyRest, ResultRest, SentBy, keyVars, resultVars, NodeStat
  <2>6. /\ stat'[n] \in From("GotDetail") /\ stat'[n] \notin From("SentID")
        /\ stat'[n] \notin From("SentCts")
        /\ SentBy(n, "ID") = {} /\ SentBy(n, "ID")' = SentBy(n, "ID")
        /\ Sent("VoteDetail")' # {}
    BY <2>2, <2>3, FromStates DEF BallotOrder, Arriving, SentBy
  <2>7. BallotOrder(n)'
    BY <1>0, <2>3, <2>4, <2>6 DEF BallotOrder, ballotVars
  <2>. QED
    BY <2>5, <2>7, RestKeeps
<1>2. CASE HandleCipherText(n)
  <2>1. PICK m \in Arriving(n, "CipherText") : HandleCipherText(n)!(m)
    BY <1>2 DEF HandleCipherText
  <2>2. /\ stat[n] \in {"Voted", "GotDetail"} /\ Take(n, m)
        /\ evalCipher'[n] = evalCipher[n] \cup {m}
        /\ UNCHANGED <<keyVars, decPartNum, lengthDec, resultVars>>
        /\ \/ stat'[n] = stat[n] /\ flag' = flag /\ sent' = sent
           \/ stat'[n] = "SentID" /\ flag'[n] = TRUE /\ sent' = sent \cup {ID(n)}
    BY <2>1 DEF CipherTextStates, Become, Send
  <2>3. \A t : t # "ID" => Sent(t)' = Sent(t)
    BY <2>2 DEF Sent, ID
  <2>4. /\ Rcvd(n, "CipherText")' = Rcvd(n, "CipherText") \cup {m}
        /\ \A t : t # "CipherText" => Rcvd(n, t)' = Rcvd(n, t)
    BY <2>2, TakeAdds
  <2>5. KeyRest(n) /\ ResultRest(n)
    BY <2>2, <2>3, <2>4, FromStates DEF KeyRest, ResultRest, SentBy, keyVars, resultVars, NodeStat
  <2>6. stat'[n] = stat[n] => SentBy(n, "ID")' = SentBy(n, "ID") /\ flag' = flag
    BY <2>2 DEF SentBy, Sent
  <2>7. /\ stat[n] \in From("GotDetail") /\ stat'[n] \in From("GotDetail")
        /\ stat[n] \notin From("SentID") /\ stat'[n] \notin From("SentCts")
        /\ stat'[n] # stat[n] => stat'[n] \in From("SentID") /\ flag'[n]
    BY <2>2, FromStates
  <2>8. BallotOrder(n)'
    BY <1>0, <2>2, <2>3, <2>4, <2>6, <2>7 DEF BallotOrder
  <2>. QED
    BY <2>5, <2>8, RestKeeps
<1>3. CASE HandleCoffin(n)
  <2>1. PICK m \in Arriving(n, "ID") : HandleCoffin(n)!(m)
    BY <1>3 DEF HandleCoffin
  <2>2. m.from \in Parties
    BY IDType DEF Arriving, Sent
  <2>3. /\ stat[n] \in {"SentID", "Voted"} /\ Take(n, m)
        /\ decPartNum'[n] = decPartNum[n] \cup {m.from}
        /\ UNCHANGED <<keyVars, evalCipher, sum, flag, resultVars>>
    BY <2>1 DEF IDStates
  <2>4. \/ stat'[n] = stat[n] /\ lengthDec' = lengthDec /\ sent' = sent
        \/ /\ stat'[n] = "SentCts" /\ flag[n]
           /\ sent' = sent \cup {PlainTextPart(n, decPartNum'[n], sum[n])}
    <3>1. CASE EveryID(n, decPartNum'[n])
      <4>1. Send({PlainTextPart(n, decPartNum'[n], sum[n])}) /\ Become(n, "SentCts")
        BY <2>1, <3>1
      <4>. QED
        BY <3>1, <4>1 DEF Become, Send, EveryID
    <3>2. CASE ~EveryID(n, decPartNum'[n])
      <4>1. UNCHANGED <<lengthDec, sent, stat>>
        BY <2>1, <3>2
      <4>. QED
        BY <4>1
    <3>. QED
      BY <3>1, <3>2
  <2>5. \A t : t # "PlainTextPart" => Sent(t)' = Sent(t)
    BY <2>4 DEF Sent, PlainTextPart
  <2>6. /\ Rcvd(n, "ID")' = Rcvd(n, "ID") \cup {m}
        /\ \A t : t # "ID" => Rcvd(n, t)' = Rcvd(n, t)
    BY <2>3, TakeAdds
  <2>7. KeyRest(n)
    BY <2>3, <2>4, <2>5, <2>6, FromStates DEF KeyRest, SentBy, keyVars, NodeStat
  <2>8. stat'[n] = "SentCts" => decPartNum'[n] = Parties
    <3>1. SUFFICES ASSUME stat'[n] = "SentCts" PROVE decPartNum'[n] = Parties
      OBVIOUS
    <3>2. PlainTextPart(n, decPartNum'[n], sum[n]) \in SentBy(n, "PlainTextPart")'
      BY <2>3, <2>4, <3>1 DEF SentBy, Sent, PlainTextPart
    <3>. QED
      BY <3>2 DEF ResultInv, ShareOnce
  <2>9. /\ stat[n] \in From("GotDetail") /\ stat'[n] \in From("GotDetail")
        /\ stat[n] \notin From("SentCts")
        /\ stat'[n] \in From("SentID") => flag[n] /\ (stat'[n] = stat[n] \/ stat'[n] = "SentCts")
        /\ stat[n] \in From("SentID") => stat'[n] \in From("SentID")
        /\ stat'[n] \in From("SentCts") => stat'[n] = "SentCts"
        /\ stat'[n] = "SentCts" => stat'[n] \in From("SentCts")
        /\ stat'[n] \notin From("SentResult") /\ stat'[n] # "Inited"
    BY <2>3, <2>4, FromStates DEF BallotOrder
  <2>10. SentBy(n, "ID")' = SentBy(n, "ID") /\ SentBy(n, "VoteResult")' = SentBy(n, "VoteResult")
    BY <2>5 DEF SentBy
  <2>11. BallotOrder(n)'
    <3>1. stat'[n] \in From("SentCts") \/ lengthDec'[n] # 0 => decPartNum'[n] = Parties
      BY <2>2, <2>3, <2>4, <2>8, <2>9 DEF BallotOrder
    <3>2. decPartNum'[n] = {o.from : o \in Rcvd(n, "ID")'}
      BY <2>3, <2>6 DEF BallotOrder
    <3>3. SentBy(n, "ID")' # {} => stat'[n] \in From("SentID")
      BY <2>9, <2>10 DEF BallotOrder
    <3>. QED
      BY <1>0, <2>3, <2>5, <2>6, <2>9, <3>1, <3>2, <3>3 DEF BallotOrder
  <2>12. ResultOrder(n)'
    <3>1. SentBy(n, "PlainTextPart") = {}
      BY <2>9 DEF ResultOrder
    <3>2. SentBy(n, "PlainTextPart")' # {} => stat'[n] = "SentCts"
      BY <2>4, <3>1 DEF SentBy, Sent
    <3>3. SentBy(n, "VoteResult") = {}
      BY <2>3, FromStates DEF ResultOrder
    <3>. QED
      BY <1>0, <2>3, <2>6, <2>9, <2>10, <3>2, <3>3 DEF ResultOrder, resultVars
  <2>. QED
    BY <2>7, <2>11, <2>12, RestKeeps
<1>. QED
  BY <1>1, <1>2, <1>3

\* The shares and the results.
LEMMA ResultHandlersKeepOrder ==
  ASSUME OrderlyInv, NEW n \in Parties, HandlePlainText(n) \/ HandleVoteResult(n)
  PROVE  KeyOrder(n)' /\ BallotOrder(n)' /\ ResultOrder(n)'
<1> USE DEF OrderlyInv, RoundInv, TypeInv, TypeOK, OrderInv, Expects
<1>0. \A t : From(t)' = From(t)
  BY DEF From
<1>1. CASE HandlePlainText(n)
  <2>1. PICK m \in Arriving(n, "PlainTextPart") : HandlePlainText(n)!(m)
    BY <1>1 DEF HandlePlainText
  <2>2. result[n] = {}
    BY ShareExpected
  <2>3. /\ stat[n] \in {"SentCts", "SentID"} /\ Take(n, m)
        /\ partdec'[n] = partdec[n] \cup {m}
        /\ UNCHANGED <<keyVars, ballotVars, otherResult>>
    BY <2>1 DEF PlainTextPartStates
  <2>4. \/ stat'[n] = stat[n] /\ result' = result /\ sent' = sent
        \/ /\ stat'[n] = "SentResult" /\ Cardinality(partdec'[n]) = lengthDec[n]
           /\ \E r : result'[n] = {r} /\ sent' = sent \cup {VoteResult(n, r)}
    <3>1. DEFINE r == FinaDec(sum[n], partdec'[n])
    <3>. HIDE DEF r
    <3>2. EveryDecShare(n, partdec'[n]) =>
            result' = [result EXCEPT ![n] = {r}] /\ Send({VoteResult(n, r)})
            /\ Become(n, "SentResult")
      BY <2>1 DEF r
    <3>. QED
      BY <2>1, <3>2 DEF Become, Send, EveryDecShare
  <2>5. \A t : t # "VoteResult" => Sent(t)' = Sent(t)
    BY <2>4 DEF Sent, VoteResult
  <2>6. /\ Rcvd(n, "PlainTextPart")' = Rcvd(n, "PlainTextPart") \cup {m}
        /\ \A t : t # "PlainTextPart" => Rcvd(n, t)' = Rcvd(n, t)
    BY <2>3, TakeAdds
  <2>7. KeyRest(n)
    BY <2>3, <2>4, <2>5, <2>6, FromStates DEF KeyRest, SentBy, keyVars, NodeStat
  <2>8. stat'[n] = "SentResult" =>
          /\ lengthDec[n] = Cardinality(Parties) /\ decPartNum[n] = Parties
          /\ Cardinality(partdec'[n]) = Cardinality(Parties) /\ result'[n] # {}
    <3>1. SUFFICES ASSUME stat'[n] = "SentResult"
                   PROVE  lengthDec[n] # 0 /\ result'[n] # {}
                          /\ Cardinality(partdec'[n]) = lengthDec[n]
      BY DEF ResultInv, ShareOnce, BallotOrder
    <3>2. Cardinality(partdec'[n]) = lengthDec[n] /\ result'[n] # {}
      BY <2>3, <2>4, <3>1
    <3>3. IsFiniteSet(partdec'[n])
      <4>1. partdec'[n] \subseteq sent
        BY <2>3 DEF CollectedWasSent, Arriving, Sent
      <4>. QED
        BY <4>1, FS_Subset DEF CollectedWasSent
    <3>4. Cardinality(partdec'[n]) # 0
      BY <2>3, <3>3, FS_EmptySet
    <3>. QED
      BY <3>2, <3>4
  <2>9. /\ stat[n] \in From("SentID") /\ stat'[n] \in From("SentID")
        /\ stat[n] \in From("GotDetail") /\ stat'[n] \in From("GotDetail")
        /\ stat[n] \notin From("SentResult")
        /\ stat[n] \in From("SentCts") => stat'[n] \in From("SentCts")
        /\ stat'[n] \in From("SentCts") => stat[n] \in From("SentCts") \/ stat'[n] = "SentResult"
        /\ stat'[n] \in From("SentResult") <=> stat'[n] = "SentResult"
        /\ stat'[n] # "Inited"
    BY <2>3, <2>4, FromStates
  <2>10. BallotOrder(n)'
    <3>1. SentBy(n, "ID")' = SentBy(n, "ID")
      BY <2>5 DEF SentBy
    <3>. QED
      BY <1>0, <2>3, <2>5, <2>6, <2>8, <2>9, <3>1 DEF BallotOrder, ballotVars
  <2>11. ResultOrder(n)'
    <3>1. SentBy(n, "PlainTextPart")' = SentBy(n, "PlainTextPart")
      BY <2>5 DEF SentBy
    <3>2. SentBy(n, "VoteResult") = {}
      BY <2>9 DEF ResultOrder
    <3>3. SentBy(n, "VoteResult")' # {} => stat'[n] = "SentResult"
      BY <2>4, <3>2 DEF SentBy, Sent
    <3>4. result'[n] # {} => stat'[n] = "SentResult"
      BY <2>2, <2>4
    <3>5. partdec'[n] = Rcvd(n, "PlainTextPart")' /\ otherResult'[n] = Rcvd(n, "VoteResult")'
      BY <2>3, <2>6 DEF ResultOrder
    <3>. QED
      BY <1>0, <2>8, <2>9, <3>1, <3>3, <3>4, <3>5 DEF ResultOrder
  <2>. QED
    BY <2>7, <2>10, <2>11, RestKeeps
<1>2. CASE HandleVoteResult(n)
  <2>1. PICK m \in Arriving(n, "VoteResult") : HandleVoteResult(n)!(m)
    BY <1>2 DEF HandleVoteResult
  <2>2. /\ stat[n] \in {"SentResult", "SentCts"} /\ Take(n, m)
        /\ otherResult'[n] = {o \in otherResult[n] : o.from # m.from} \cup {m}
        /\ UNCHANGED <<keyVars, ballotVars, partdec, result, sent>>
        /\ \/ stat'[n] = stat[n]
           \/ /\ stat'[n] = "Inited" /\ result[n] # {}
              /\ Cardinality(otherResult'[n]) = Cardinality(partdec[n])
    BY <2>1 DEF VoteResultStates, Become, EveryResult
  <2>3. m \in Sent("VoteResult") /\ otherResult[n] \subseteq Sent("VoteResult")
    BY DEF Arriving, ResultInv, SameResult
  <2>4. otherResult'[n] = otherResult[n] \cup {m}
    BY <2>2, <2>3, OneResult
  <2>5. /\ Rcvd(n, "VoteResult")' = Rcvd(n, "VoteResult") \cup {m}
        /\ \A t : t # "VoteResult" => Rcvd(n, t)' = Rcvd(n, t)
    BY <2>2, TakeAdds
  <2>6. \A t : Sent(t)' = Sent(t) /\ SentBy(n, t)' = SentBy(n, t)
    BY <2>2 DEF Sent, SentBy
  <2>7. KeyRest(n) /\ BallotRest(n)
    BY <2>2, <2>5, <2>6, FromStates DEF KeyRest, BallotRest, keyVars, ballotVars, NodeStat
  <2>8. stat'[n] = "Inited" => {o.from : o \in otherResult'[n]} = Parties
    <3>1. SUFFICES ASSUME stat'[n] = "Inited"
                   PROVE  {o.from : o \in otherResult'[n]} = Parties
      OBVIOUS
    <3>2. Cardinality(otherResult'[n]) = Cardinality(Parties)
      BY <2>2, <3>1 DEF ResultOrder
    <3>3. /\ \A o \in otherResult'[n] : o.from \in Parties
          /\ \A o, q \in otherResult'[n] : o.from = q.from => o = q
      BY <2>3, <2>4, SenderType, OneResult DEF Sent
    <3>. QED
      BY <3>2, <3>3, AllSenders
  <2>9. /\ stat[n] \in From("SentCts") /\ stat'[n] \in From("SentCts")
        /\ stat'[n] \in From("SentResult") => stat[n] \in From("SentResult") \/ result[n] # {}
        /\ stat[n] \in From("SentResult") => stat'[n] \in From("SentResult")
    BY <2>2, FromStates
  <2>10. ResultOrder(n)'
    <3>1. partdec'[n] = Rcvd(n, "PlainTextPart")' /\ otherResult'[n] = Rcvd(n, "VoteResult")'
      BY <2>2, <2>4, <2>5 DEF ResultOrder
    <3>. QED
      BY <1>0, <2>2, <2>6, <2>8, <2>9, <3>1 DEF ResultOrder
  <2>. QED
    BY <2>7, <2>10, RestKeeps
<1>. QED
  BY <1>1, <1>2

\* What a handler ignores, the phone has had already, or does not exist.
LEMMA IgnoreKeepsOrder ==
  ASSUME Races = {}, OrderlyInv, NEW n \in Parties, NEW type \in MessageTypes, Ignore(n, type)
  PROVE  KeyOrder(n)' /\ BallotOrder(n)' /\ ResultOrder(n)'
<1> USE DEF OrderlyInv, RoundInv, TypeInv, TypeOK, OrderInv, Expects
<1>0. \A t : From(t)' = From(t)
  BY DEF From
<1>1. PICK m \in Arriving(n, type) :
        /\ Take(n, m)
        /\ stat[n] \notin Expects[type] \/ (type = "VoteDetail" /\ n = Starter)
        /\ UNCHANGED <<stat, keyVars, ballotVars, resultVars, calls, sent>>
  BY DEF Ignore, envVars
<1>2. calls[n] = {} /\ m \in Sent(type) /\ stat[n] \in NodeStat
  BY <1>1 DEF Take, Arriving
<1>3. \A p, t : Sent(t)' = Sent(t) /\ SentBy(p, t)' = SentBy(p, t)
  BY <1>1 DEF Sent, SentBy
<1>4. /\ Rcvd(n, type)' = Rcvd(n, type) \cup {m}
      /\ \A t : t # type => Rcvd(n, t)' = Rcvd(n, t)
  BY <1>1, TakeAdds
<1>5. type \in {"VoteParams", "PolyResult", "PubKeyPart", "VoteDetail"}
  <2>1. type # "CipherText"
    BY <1>1, <1>2, BallotExpected
  <2>2. type # "ID"
    BY <1>1, <1>2, IDExpected
  <2>3. type # "PlainTextPart"
    BY <1>1, <1>2, ShareExpected
  <2>4. type # "VoteResult"
    BY <1>1, <1>2, ResultExpected
  <2>. QED
    BY <2>1, <2>2, <2>3, <2>4 DEF MessageTypes
<1>6. ResultRest(n)
  BY <1>1, <1>3, <1>4, <1>5 DEF ResultRest, resultVars
<1>7. CASE type = "VoteParams"
  <2>1. stat[n] \in From("GotParams")
    BY <1>1, <1>2, <1>7, FromStates DEF VoteParamsStates
  <2>2. BallotRest(n)
    BY <1>1, <1>3, <1>4, <1>7 DEF BallotRest, ballotVars
  <2>3. KeyOrder(n)'
    BY <1>0, <1>1, <1>3, <1>4, <1>7, <2>1 DEF KeyOrder, keyVars
  <2>. QED
    BY <1>6, <2>2, <2>3, RestKeeps
<1>8. CASE type = "PolyResult"
  <2>1. stat[n] \in From("SentPki") /\ m.from \in Parties
    BY <1>1, <1>2, <1>8, FromStates, SenderType DEF PolyResultStates, Sent
  <2>2. BallotRest(n)
    BY <1>1, <1>3, <1>4, <1>8 DEF BallotRest, ballotVars
  <2>3. KeyOrder(n)'
    <3>1. {o.from : o \in Rcvd(n, "PolyResult")'} \subseteq skInf[n]
      BY <1>4, <1>8, <2>1 DEF KeyOrder
    <3>. QED
      BY <1>0, <1>1, <1>3, <1>4, <1>8, <3>1 DEF KeyOrder, keyVars
  <2>. QED
    BY <1>6, <2>2, <2>3, RestKeeps
<1>9. CASE type = "PubKeyPart"
  <2>1. stat[n] \in From("GotParams") /\ m.from \in Parties
    BY <1>2, <1>9, PartExpected, SenderType DEF Sent
  <2>2. stat[n] \in From("GotPK")
    BY <1>1, <1>2, <1>9, <2>1, FromStates DEF PubKeyPartStates
  <2>3. BallotRest(n)
    BY <1>1, <1>3, <1>4, <1>9 DEF BallotRest, ballotVars
  <2>4. KeyOrder(n)'
    <3>1. {o.from : o \in Rcvd(n, "PubKeyPart")'} = partPubKey[n]
      BY <1>4, <1>9, <2>1, <2>2 DEF KeyOrder
    <3>. QED
      BY <1>0, <1>1, <1>3, <1>4, <1>9, <3>1 DEF KeyOrder, keyVars
  <2>. QED
    BY <1>6, <2>3, <2>4, RestKeeps
<1>10. CASE type = "VoteDetail"
  <2>1. stat[n] \in From("GotDetail") \/ n = Starter
    <3>1. stat[n] \in From("GotPK")
      BY <1>10, DetailExpected
    <3>. QED
      BY <1>1, <1>2, <1>10, <3>1, FromStates DEF VoteDetailStates, NodeStat
  <2>2. KeyRest(n)
    BY <1>1, <1>3, <1>4, <1>10 DEF KeyRest, keyVars
  <2>3. BallotOrder(n)'
    BY <1>0, <1>1, <1>3, <1>4, <1>10, <2>1 DEF BallotOrder, ballotVars
  <2>. QED
    BY <1>6, <2>2, <2>3, RestKeeps
<1>. QED
  BY <1>5, <1>7, <1>8, <1>9, <1>10

LEMMA OrderInit == Init => OrderInv
<1> SUFFICES ASSUME Init PROVE OrderInv
  OBVIOUS
<1>1. CallsInOrder /\ DetailOrder
  BY DEF Init, CallsInOrder, DetailOrder, Sent
<1>2. ASSUME NEW n \in Parties PROVE KeyOrder(n) /\ BallotOrder(n) /\ ResultOrder(n)
  <2>1. \A t : Sent(t) = {} /\ SentBy(n, t) = {} /\ Rcvd(n, t) = {}
    BY DEF Init, Sent, SentBy, Rcvd
  <2>2. stat[n] = "Confirmed"
    BY DEF Init
  <2>. QED
    BY <2>1, <2>2, FromStates DEF Init, KeyOrder, BallotOrder, ResultOrder, NodeStat
<1>. QED
  BY <1>1, <1>2 DEF OrderInv

LEMMA OrderStep ==
  ASSUME Races = {}, MaxCalls = 1, OrderlyInv, RoundInv', [Next]_vars
  PROVE  OrderInv'
<1>1. CallsInOrder'
  BY CallsStep DEF OrderlyInv, RoundInv, OrderInv
<1>2. CASE UNCHANGED vars
  <2>1. \A p \in Parties : KeyRest(p) /\ BallotRest(p) /\ ResultRest(p)
    BY <1>2 DEF vars, keyVars, ballotVars, resultVars, Sent, SentBy, Rcvd,
       KeyRest, BallotRest, ResultRest
  <2>2. DetailOrder'
    BY <1>2 DEF vars, envVars, OrderlyInv, OrderInv, DetailOrder, Sent, From
  <2>. QED
    BY <1>1, <2>1, <2>2, RestKeeps DEF OrderlyInv, OrderInv
<1>3. CASE BeginVote \/ SendVoteDetail \/ \E n \in Parties : Vote(n) \/ Return(n)
  BY <1>1, <1>3, CallKeepsOrder
<1>4. ASSUME NEW n \in Parties, Loop(n) PROVE OrderInv'
  <2>1. /\ \A p \in Parties \ {n} : KeyOrder(p)' /\ BallotOrder(p)' /\ ResultOrder(p)'
        /\ DetailOrder'
    BY <1>4, OthersKeep DEF OrderlyInv, RoundInv
  <2>2. KeyOrder(n)' /\ BallotOrder(n)' /\ ResultOrder(n)'
    BY <1>4, KeyHandlersKeepOrder, BallotHandlersKeepOrder, ResultHandlersKeepOrder,
       IgnoreKeepsOrder DEF Loop
  <2>. QED
    BY <1>1, <2>1, <2>2 DEF OrderInv
<1>. QED
  BY <1>2, <1>3, <1>4 DEF Next

\* The whole inductive invariant of an orderly round: what was dealt, cast,
\* announced and decrypted fits the state each phone is in (server.go:364-716).
THEOREM OrderInvariant == Races = {} /\ MaxCalls = 1 => (Spec => []OrderInv)
<1> SUFFICES ASSUME Races = {}, MaxCalls = 1 PROVE Spec => []OrderInv
  OBVIOUS
<1>1. Init => OrderInv
  BY OrderInit
<1>2. RoundInv /\ RoundInv' /\ KeyInv /\ OrderInv /\ [Next]_vars => OrderInv'
  BY OrderStep DEF OrderlyInv
<1>3. Spec => []RoundInv
  BY RoundInvariant
<1>4. Spec => []KeyInv
  BY KeyInvariant
<1>. QED
  BY <1>1, <1>2, <1>3, <1>4, PTL DEF Spec

-----------------------------------------------------------------------------
(* What an orderly round promises *)

\* For any number of parties: when nothing overtakes, whatever the loop has
\* taken of an exchange is in the collection of that exchange; no handler's
\* state guard throws away a message that counts (server.go:364-652).
THEOREM NothingIsLost == Races = {} /\ MaxCalls = 1 => (Spec => []NothingLost)
<1> SUFFICES ASSUME Races = {}, MaxCalls = 1 PROVE Spec => []NothingLost
  OBVIOUS
<1>1. OrderInv => NothingLost
  BY DEF OrderInv, KeyOrder, BallotOrder, ResultOrder, NothingLost
<1>2. Spec => []OrderInv
  BY OrderInvariant
<1>. QED
  BY <1>1, <1>2, PTL

LEMMA OrderIsLockstep == OrderlyInv => Lockstep
<1> SUFFICES ASSUME OrderlyInv, NEW p \in Parties, NEW q \in Parties
             PROVE  /\ Phase[stat[p]] >= Phase["SentPki"]    => Phase[stat[q]] >= Phase["GotParams"]
                    /\ Phase[stat[p]] >= Phase["GotPK"]      => Phase[stat[q]] >= Phase["SentPki"]
                    /\ Phase[stat[p]] >= Phase["SentID"]     => SentBy(q, "CipherText") # {}
                    /\ Phase[stat[p]] >= Phase["SentCts"]    => Phase[stat[q]] >= Phase["SentID"]
                    /\ Phase[stat[p]] >= Phase["SentResult"] => Phase[stat[q]] >= Phase["SentCts"]
                    /\ Phase[stat[p]] >= Phase["Inited"]     => Phase[stat[q]] >= Phase["SentResult"]
  BY DEF Lockstep
<1> USE DEF OrderlyInv, RoundInv, OrderInv
<1>0. stat[p] \in NodeStat /\ stat[q] \in NodeStat /\ rcvd[p] \subseteq sent
  BY DEF TypeInv, TypeOK, CollectedWasSent
<1>1. stat[p] \in From("SentPki") => stat[q] \in From("GotParams")
  <2>1. stat[p] \in From("SentPki") => stat[q] # "Confirmed"
    BY DEF KeyOrder, KeyInv, DealtFirst
  <2>. QED
    BY <1>0, <2>1, FromStates
<1>2. stat[p] \in From("GotPK") => stat[q] \in From("SentPki")
  <2>1. SUFFICES ASSUME stat[p] \in From("GotPK") PROVE SentBy(q, "PubKeyPart") # {}
    BY DEF KeyOrder
  <2>2. q \in {m.from : m \in Rcvd(p, "PubKeyPart")}
    BY <2>1 DEF KeyOrder
  <2>. QED
    BY <1>0, <2>2 DEF Rcvd, SentBy, Sent
<1>3. stat[p] \in From("SentID") => SentBy(q, "CipherText") # {}
  <2>1. SUFFICES ASSUME stat[p] \in From("SentID") PROVE SentBy(q, "CipherText") # {}
    OBVIOUS
  <2>2. FullSum(Sent("CipherText"))
    <3>1. flag[p]
      BY <2>1 DEF BallotOrder
    <3>. QED
      BY <3>1, SumIsAll
  <2>3. q \in {c.from : c \in Sent("CipherText")}
    BY <2>2 DEF FullSum
  <2>. QED
    BY <2>3 DEF SentBy
<1>4. stat[p] \in From("SentCts") => stat[q] \in From("SentID")
  <2>1. SUFFICES ASSUME stat[p] \in From("SentCts") PROVE SentBy(q, "ID") # {}
    BY DEF BallotOrder
  <2>2. q \in {m.from : m \in Rcvd(p, "ID")}
    BY <2>1 DEF BallotOrder
  <2>. QED
    BY <1>0, <2>2 DEF Rcvd, SentBy, Sent
<1>5. stat[p] \in From("SentResult") => stat[q] \in From("SentCts")
  <2>1. SUFFICES ASSUME stat[p] \in From("SentResult") PROVE SentBy(q, "PlainTextPart") # {}
    BY DEF ResultOrder
  <2>2. q \in {s.from : s \in Sent("PlainTextPart")}
    BY <2>1 DEF ResultOrder, ResultInv, SameResult
  <2>. QED
    BY <2>2 DEF SentBy
<1>6. stat[p] = "Inited" => stat[q] \in From("SentResult")
  <2>1. SUFFICES ASSUME stat[p] = "Inited" PROVE SentBy(q, "VoteResult") # {}
    BY DEF ResultOrder
  <2>2. q \in {m.from : m \in otherResult[p]} /\ otherResult[p] \subseteq Sent("VoteResult")
    BY <2>1 DEF ResultOrder, ResultInv, SameResult
  <2>. QED
    BY <2>2 DEF SentBy
<1>7. Phase[stat[p]] >= Phase["Inited"] => stat[p] = "Inited"
  BY <1>0 DEF NodeStat, Phase
<1>. QED
  BY <1>0, <1>1, <1>2, <1>3, <1>4, <1>5, <1>6, <1>7 DEF From

\* For any number of parties: no phone is a whole exchange ahead of another,
\* which is why the guards of the handlers need to name two states only.
THEOREM InLockstep == Races = {} /\ MaxCalls = 1 => (Spec => []Lockstep)
<1> SUFFICES ASSUME Races = {}, MaxCalls = 1 PROVE Spec => []Lockstep
  OBVIOUS
<1>1. RoundInv /\ KeyInv /\ OrderInv => Lockstep
  BY OrderIsLockstep DEF OrderlyInv
<1>2. Spec => []RoundInv
  BY RoundInvariant
<1>3. Spec => []KeyInv
  BY KeyInvariant
<1>4. Spec => []OrderInv
  BY OrderInvariant
<1>. QED
  BY <1>1, <1>2, <1>3, <1>4, PTL
=============================================================================
