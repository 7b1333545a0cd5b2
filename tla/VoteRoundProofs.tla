--------------------------- MODULE VoteRoundProofs ---------------------------
(***************************************************************************)
(* Theorems of VoteRound, for any set of parties and any order of events:  *)
(* types; only full sums are decrypted; the results phones report are      *)
(* equal and count the ballots; ballots are under the joint key when       *)
(* VoteDetail comes after the parts of that key; and then VoteRound        *)
(* implements Ballot.                                                      *)
(***************************************************************************)
EXTENDS VoteRound, FiniteSetTheorems, TLAPS

-----------------------------------------------------------------------------
(* Facts about the data *)

LEMMA PartiesCardinality == Cardinality(Parties) \in Nat
  BY PartiesAssumption, FS_CardinalityType

\* The shares a party deals are finitely many.
LEMMA DealtFinite ==
  ASSUME NEW n
  PROVE  IsFiniteSet({PolyResult(n, q) : q \in Parties \ {n}})
<1> DEFINE To == Parties \ {n}
           Dealt == {PolyResult(n, q) : q \in To}
           f == [q \in To |-> PolyResult(n, q)]
<1>1. IsFiniteSet(To)
  BY PartiesAssumption, FS_Subset
<1>2. f \in Surjection(To, Dealt)
  BY DEF Surjection
<1>. QED
  BY <1>1, <1>2, FS_Surjection

\* Counting finitely many ballots gives a number for every ticket.
LEMMA TallyType ==
  ASSUME NEW over, IsFiniteSet(over)
  PROVE  Tally(over) \in [Tickets -> Nat]
<1>1. ASSUME NEW t \in Tickets
      PROVE  Cardinality({c \in over : c.ticket = t}) \in Nat
  BY FS_Subset, FS_CardinalityType
<1>. QED
  BY <1>1 DEF Tally

\* Final decryption yields a result, decodable or not.
LEMMA FinaDecType ==
  ASSUME NEW over \in SUBSET Ballots, IsFiniteSet(over),
         NEW shares \in SUBSET DecShares
  PROVE  FinaDec(over, shares) \in Results
<1>1. Tally(over) \in [Tickets -> Nat] /\ Tally({}) \in [Tickets -> Nat]
  BY TallyType, FS_EmptySet
<1>. QED
  BY <1>1 DEF FinaDec, Results

-----------------------------------------------------------------------------
(* Type correctness *)

TypeInv == TypeOK /\ CollectedWasSent

LEMMA TypeInit == Init => TypeInv
<1> SUFFICES ASSUME Init PROVE TypeInv
  OBVIOUS
<1>1. TypeOK
  BY PartiesAssumption, PartiesCardinality DEF Init, TypeOK, NodeStat, Keys
<1>2. CollectedWasSent
  BY FS_EmptySet DEF Init, CollectedWasSent
<1>. QED
  BY <1>1, <1>2 DEF TypeInv

\* The messages of a phone's inbox, and their senders, are well typed.
LEMMA ArrivingType ==
  ASSUME TypeInv, NEW n \in Parties, NEW type, NEW m \in Arriving(n, type)
  PROVE  m \in sent /\ m \in Messages /\ m.type = type
  BY DEF TypeInv, TypeOK, Arriving, Sent

\* Numbering messages by those already sent gives a number.
LEMMA SentCount ==
  ASSUME TypeInv, NEW S \in SUBSET sent
  PROVE  Cardinality(S) + 1 \in Nat
  BY FS_Subset, FS_CardinalityType DEF TypeInv, CollectedWasSent

LEMMA TypeBeginVote ==
  TypeInv /\ BeginVote => TypeInv'
<1> SUFFICES ASSUME TypeInv, BeginVote PROVE TypeInv'
  OBVIOUS
<1>0. Cardinality(Sent("VoteParams")) + 1 \in Nat
  BY SentCount DEF Sent
<1>1. TypeOK'
  BY <1>0 DEF TypeInv, TypeOK, BeginVote, Send, VoteParams, Messages, keyVars, ballotVars, resultVars, envVars
<1>2. CollectedWasSent'
  BY FS_AddElement DEF TypeInv, TypeOK, CollectedWasSent, BeginVote, Send, keyVars, ballotVars, resultVars, envVars
<1>. QED
  BY <1>1, <1>2 DEF TypeInv

LEMMA TypeSendVoteDetail ==
  TypeInv /\ SendVoteDetail => TypeInv'
<1> SUFFICES ASSUME TypeInv, SendVoteDetail PROVE TypeInv'
  OBVIOUS
<1>0. Cardinality(Sent("VoteDetail")) + 1 \in Nat
  BY SentCount DEF Sent
<1>1. TypeOK'
  BY <1>0, PartiesAssumption DEF TypeInv, TypeOK, SendVoteDetail, Enter, Send, VoteDetail, Messages, Calls, keyVars, ballotVars, resultVars, envVars
<1>2. CollectedWasSent'
  BY FS_AddElement DEF TypeInv, TypeOK, CollectedWasSent, SendVoteDetail, Send, keyVars, ballotVars, resultVars, envVars
<1>. QED
  BY <1>1, <1>2 DEF TypeInv

LEMMA TypeSendVote ==
  ASSUME NEW n \in Parties, NEW t \in Tickets \cup {Abstain}
  PROVE  TypeInv /\ SendVote(n, t) => TypeInv'
<1> SUFFICES ASSUME TypeInv, SendVote(n, t) PROVE TypeInv'
  OBVIOUS
<1>0. Cardinality(SentBy(n, "CipherText")) + 1 \in Nat
  BY SentCount DEF SentBy, Sent
<1>1. TypeOK'
  BY <1>0 DEF TypeInv, TypeOK, SendVote, Enter, Send, CipherText, Messages, Ballots, Calls, keyVars, ballotVars, resultVars, envVars
<1>2. CollectedWasSent'
  BY FS_AddElement DEF TypeInv, TypeOK, CollectedWasSent, SendVote, Send, keyVars, ballotVars, resultVars, envVars
<1>. QED
  BY <1>1, <1>2 DEF TypeInv

LEMMA TypeReturn ==
  ASSUME NEW n \in Parties
  PROVE  TypeInv /\ Return(n) => TypeInv'
<1> SUFFICES ASSUME TypeInv, Return(n) PROVE TypeInv'
  OBVIOUS
<1>1. TypeOK'
  BY DEF TypeInv, TypeOK, Return, Become, NodeStat, Calls, keyVars, ballotVars, resultVars, envVars
<1>2. CollectedWasSent'
  BY DEF TypeInv, TypeOK, CollectedWasSent, Return, keyVars, ballotVars, resultVars, envVars
<1>. QED
  BY <1>1, <1>2 DEF TypeInv

LEMMA TypeIgnore ==
  ASSUME NEW n \in Parties, NEW type
  PROVE  TypeInv /\ Ignore(n, type) => TypeInv'
<1> SUFFICES ASSUME TypeInv, Ignore(n, type) PROVE TypeInv'
  OBVIOUS
<1>1. TypeOK'
  BY DEF TypeInv, TypeOK, Ignore, Arriving, Sent, Take, keyVars, ballotVars, resultVars, envVars
<1>2. CollectedWasSent'
  BY DEF TypeInv, TypeOK, CollectedWasSent, Ignore, Arriving, Sent, Take, keyVars, ballotVars, resultVars, envVars
<1>. QED
  BY <1>1, <1>2 DEF TypeInv

LEMMA TypeVoteParams ==
  ASSUME NEW n \in Parties
  PROVE  TypeInv /\ HandleVoteParams(n) => TypeInv'
<1> SUFFICES ASSUME TypeInv, HandleVoteParams(n) PROVE TypeInv'
  OBVIOUS
<1>b. {PolyResult(n, q) : q \in Parties \ {n}} \subseteq Messages
  BY DEF PolyResult, Messages
<1>1. TypeOK'
  <2>1. PICK m \in Arriving(n, "VoteParams") : HandleVoteParams(n)!(m)
    BY DEF HandleVoteParams
  <2>2. sent' \subseteq Messages
    BY <2>1, <1>b DEF Send, TypeInv, TypeOK
  <2>3. /\ rcvd' \in [Parties -> SUBSET Messages]
        /\ stat' \in [Parties -> NodeStat]
    BY <2>1, ArrivingType DEF Take, Become, NodeStat, TypeInv, TypeOK
  <2>4. /\ parties' \in [Parties -> {{}, Parties}]
        /\ party' \in [Parties -> {"Nil", "Stale", "Current"}]
        /\ pk' \in [Parties -> Keys]
        /\ skInf' \in [Parties -> SUBSET Parties]
    BY <2>1 DEF TypeInv, TypeOK, Keys, FindPeers
  <2>. QED
    BY <2>1, <2>2, <2>3, <2>4 DEF TypeInv, TypeOK, ballotVars, resultVars, envVars
<1>2. CollectedWasSent'
  <2>1. PICK m \in Arriving(n, "VoteParams") : HandleVoteParams(n)!(m)
    BY DEF HandleVoteParams
  <2>2. IsFiniteSet(sent') /\ sent \subseteq sent'
    BY <2>1, FS_Union, DealtFinite DEF Send, TypeInv, CollectedWasSent
  <2>. QED
    BY <2>1, <2>2, ArrivingType DEF Take, TypeInv, TypeOK, CollectedWasSent, ballotVars, resultVars
<1>. QED
  BY <1>1, <1>2 DEF TypeInv

LEMMA TypePolyResult ==
  ASSUME NEW n \in Parties
  PROVE  TypeInv /\ HandlePolyResult(n) => TypeInv'
<1> SUFFICES ASSUME TypeInv, HandlePolyResult(n) PROVE TypeInv'
  OBVIOUS
<1>0. \A m \in Arriving(n, "PolyResult") : m.from \in Parties
  BY ArrivingType DEF Messages, Ballots, DecShares, ResultMsgs
<1>b. PubKeyPart(n) \in Messages
  BY DEF PubKeyPart, Messages
<1>1. TypeOK'
  <2>1. PICK m \in Arriving(n, "PolyResult") : HandlePolyResult(n)!(m)
    BY DEF HandlePolyResult
  <2>2. sent' \subseteq Messages
    BY <2>1, <1>b DEF Send, TypeInv, TypeOK
  <2>3. rcvd' \in [Parties -> SUBSET Messages]
    BY <2>1, ArrivingType DEF Take, TypeInv, TypeOK
  <2>4. stat' \in [Parties -> NodeStat]
    BY <2>1 DEF Become, NodeStat, TypeInv, TypeOK
  <2>5. crashed' \subseteq Parties
    BY <2>1 DEF TypeInv, TypeOK
  <2>6. skInf' \in [Parties -> SUBSET Parties]
    BY <2>1, <1>0 DEF TypeInv, TypeOK
  <2>. QED
    BY <2>1, <2>2, <2>3, <2>4, <2>5, <2>6 DEF TypeInv, TypeOK, ballotVars, resultVars
<1>2. CollectedWasSent'
  <2>1. PICK m \in Arriving(n, "PolyResult") : HandlePolyResult(n)!(m)
    BY DEF HandlePolyResult
  <2>2. IsFiniteSet(sent') /\ sent \subseteq sent'
    BY <2>1, FS_AddElement DEF Send, TypeInv, CollectedWasSent
  <2>4. m \in sent /\ rcvd' = [rcvd EXCEPT ![n] = @ \cup {m}]
    BY <2>1, ArrivingType DEF Take
  <2>5. UNCHANGED <<evalCipher, sum, partdec>>
    BY <2>1 DEF ballotVars, resultVars
  <2>. QED
    BY <2>2, <2>4, <2>5 DEF TypeInv, TypeOK, CollectedWasSent
<1>. QED
  BY <1>1, <1>2 DEF TypeInv

LEMMA TypePubKeyPart ==
  ASSUME NEW n \in Parties
  PROVE  TypeInv /\ HandlePubKeyPart(n) => TypeInv'
<1> SUFFICES ASSUME TypeInv, HandlePubKeyPart(n) PROVE TypeInv'
  OBVIOUS
<1>0. \A m \in Arriving(n, "PubKeyPart") : m.from \in Parties
  BY ArrivingType DEF Messages, Ballots, DecShares, ResultMsgs
<1>1. TypeOK'
  BY <1>0 DEF TypeInv, TypeOK, HandlePubKeyPart, Arriving, Sent, Take, Become, NodeStat, Keys, GenPk, keyVars, ballotVars, resultVars, envVars
<1>2. CollectedWasSent'
  <2>1. PICK m \in Arriving(n, "PubKeyPart") : HandlePubKeyPart(n)!(m)
    BY DEF HandlePubKeyPart
  <2>2. sent' = sent
    BY <2>1
  <2>4. m \in sent /\ rcvd' = [rcvd EXCEPT ![n] = @ \cup {m}]
    BY <2>1, ArrivingType DEF Take
  <2>5. UNCHANGED <<evalCipher, sum, partdec>>
    BY <2>1 DEF ballotVars, resultVars
  <2>. QED
    BY <2>2, <2>4, <2>5 DEF TypeInv, TypeOK, CollectedWasSent
<1>. QED
  BY <1>1, <1>2 DEF TypeInv

LEMMA TypeVoteDetail ==
  ASSUME NEW n \in Parties
  PROVE  TypeInv /\ HandleVoteDetail(n) => TypeInv'
<1> SUFFICES ASSUME TypeInv, HandleVoteDetail(n) PROVE TypeInv'
  OBVIOUS
<1>1. TypeOK'
  BY DEF TypeInv, TypeOK, HandleVoteDetail, Arriving, Sent, Take, Become, NodeStat, keyVars, ballotVars, resultVars, envVars
<1>2. CollectedWasSent'
  <2>1. PICK m \in Arriving(n, "VoteDetail") : HandleVoteDetail(n)!(m)
    BY DEF HandleVoteDetail
  <2>2. sent' = sent
    BY <2>1
  <2>4. m \in sent /\ rcvd' = [rcvd EXCEPT ![n] = @ \cup {m}]
    BY <2>1, ArrivingType DEF Take
  <2>5. UNCHANGED <<evalCipher, sum, partdec>>
    BY <2>1 DEF ballotVars, resultVars
  <2>. QED
    BY <2>2, <2>4, <2>5 DEF TypeInv, TypeOK, CollectedWasSent
<1>. QED
  BY <1>1, <1>2 DEF TypeInv

LEMMA TypeCipherText ==
  ASSUME NEW n \in Parties
  PROVE  TypeInv /\ HandleCipherText(n) => TypeInv'
<1> SUFFICES ASSUME TypeInv, HandleCipherText(n) PROVE TypeInv'
  OBVIOUS
<1>0. \A m \in Arriving(n, "CipherText") : m \in Ballots
  BY ArrivingType DEF Messages, DecShares, ResultMsgs
<1>b. ID(n) \in Messages
  BY DEF ID, Messages
<1>1. TypeOK'
  <2>1. PICK m \in Arriving(n, "CipherText") : HandleCipherText(n)!(m)
    BY DEF HandleCipherText
  <2>2. evalCipher' \in [Parties -> SUBSET Ballots]
    BY <2>1, <1>0 DEF TypeInv, TypeOK
  <2>3. /\ sum' = sum \/ sum' = [sum EXCEPT ![n] = evalCipher'[n]]
        /\ flag' = flag \/ flag' = [flag EXCEPT ![n] = TRUE]
    BY <2>1
  <2>6. sum' \in [Parties -> SUBSET Ballots] /\ flag' \in [Parties -> BOOLEAN]
    BY <2>2, <2>3 DEF TypeInv, TypeOK
  <2>4. /\ rcvd' \in [Parties -> SUBSET Messages]
        /\ stat' \in [Parties -> NodeStat]
    BY <2>1, ArrivingType DEF Take, Become, NodeStat, TypeInv, TypeOK
  <2>5. sent' \subseteq Messages
    BY <2>1, <1>b DEF Send, TypeInv, TypeOK
  <2>. QED
    BY <2>1, <2>2, <2>3, <2>4, <2>5, <2>6 DEF TypeInv, TypeOK, keyVars, resultVars, envVars
<1>2. CollectedWasSent'
  <2>1. PICK m \in Arriving(n, "CipherText") : HandleCipherText(n)!(m)
    BY DEF HandleCipherText
  <2>2. IsFiniteSet(sent') /\ sent \subseteq sent'
    BY <2>1, FS_AddElement DEF Send, TypeInv, CollectedWasSent
  <2>3. evalCipher' = [evalCipher EXCEPT ![n] = @ \cup {m}]
        /\ (sum' = sum \/ sum' = [sum EXCEPT ![n] = evalCipher'[n]])
    BY <2>1
  <2>4. m \in sent /\ rcvd' = [rcvd EXCEPT ![n] = @ \cup {m}] /\ partdec' = partdec
    BY <2>1, ArrivingType DEF Take, resultVars
  <2>. QED
    BY <2>2, <2>3, <2>4 DEF TypeInv, TypeOK, CollectedWasSent
<1>. QED
  BY <1>1, <1>2 DEF TypeInv

LEMMA TypeCoffin ==
  ASSUME NEW n \in Parties
  PROVE  TypeInv /\ HandleCoffin(n) => TypeInv'
<1> SUFFICES ASSUME TypeInv, HandleCoffin(n) PROVE TypeInv'
  OBVIOUS
<1>0. \A m \in Arriving(n, "ID") : m.from \in Parties
  BY ArrivingType DEF Messages, Ballots, DecShares, ResultMsgs
<1>a. \A S \in SUBSET Parties : Cardinality(S) \in 0..Cardinality(Parties)
  BY PartiesAssumption, PartiesCardinality, FS_Subset, FS_CardinalityType
<1>b. \A S \in SUBSET Parties : PlainTextPart(n, S, sum[n]) \in Messages
  BY DEF PlainTextPart, Messages, DecShares, TypeInv, TypeOK
<1>1. TypeOK'
  <2>1. PICK m \in Arriving(n, "ID") : HandleCoffin(n)!(m)
    BY DEF HandleCoffin
  <2>2. decPartNum' \in [Parties -> SUBSET Parties]
    BY <2>1, <1>0 DEF TypeInv, TypeOK
  <2>3. sent' \subseteq Messages
    BY <2>1, <2>2, <1>b DEF Send, TypeInv, TypeOK
  <2>4. /\ rcvd' \in [Parties -> SUBSET Messages]
        /\ stat' \in [Parties -> NodeStat]
    BY <2>1, ArrivingType DEF Take, Become, NodeStat, TypeInv, TypeOK
  <2>5. lengthDec' \in [Parties -> 0..Cardinality(Parties)]
    BY <2>1, <2>2, <1>a DEF TypeInv, TypeOK
  <2>. QED
    BY <2>1, <2>2, <2>3, <2>4, <2>5 DEF TypeInv, TypeOK, keyVars, resultVars, envVars
<1>2. CollectedWasSent'
  <2>1. PICK m \in Arriving(n, "ID") : HandleCoffin(n)!(m)
    BY DEF HandleCoffin
  <2>2. IsFiniteSet(sent') /\ sent \subseteq sent'
    BY <2>1, FS_AddElement DEF Send, TypeInv, CollectedWasSent
  <2>4. m \in sent /\ rcvd' = [rcvd EXCEPT ![n] = @ \cup {m}]
    BY <2>1, ArrivingType DEF Take
  <2>5. UNCHANGED <<evalCipher, sum, partdec>>
    BY <2>1 DEF ballotVars, resultVars
  <2>. QED
    BY <2>2, <2>4, <2>5 DEF TypeInv, TypeOK, CollectedWasSent
<1>. QED
  BY <1>1, <1>2 DEF TypeInv

LEMMA TypePlainText ==
  ASSUME NEW n \in Parties
  PROVE  TypeInv /\ HandlePlainText(n) => TypeInv'
<1> SUFFICES ASSUME TypeInv, HandlePlainText(n) PROVE TypeInv'
  OBVIOUS
<1>0. \A m \in Arriving(n, "PlainTextPart") : m \in DecShares
  BY ArrivingType DEF Messages, Ballots, ResultMsgs
<1>a. sum[n] \in SUBSET Ballots /\ IsFiniteSet(sum[n])
  <2>1. sum[n] \in SUBSET Ballots /\ sum[n] \in SUBSET sent /\ IsFiniteSet(sent)
    BY DEF TypeInv, TypeOK, CollectedWasSent
  <2>. QED
    BY <2>1, FS_Subset
<1>b. \A r \in Results : VoteResult(n, r) \in Messages
  BY DEF VoteResult, Messages, ResultMsgs
<1>1. TypeOK'
  <2>1. PICK m \in Arriving(n, "PlainTextPart") : HandlePlainText(n)!(m)
    BY DEF HandlePlainText
  <2>2. partdec' \in [Parties -> SUBSET DecShares]
    BY <2>1, <1>0 DEF TypeInv, TypeOK
  <2>3. FinaDec(sum[n], partdec'[n]) \in Results
    <3>1. partdec'[n] \in SUBSET DecShares
      BY <2>2
    <3>. QED
      BY <3>1, <1>a, FinaDecType
  <2>4. result' \in [Parties -> SUBSET Results]
    <3>1. result' = result
          \/ result' = [result EXCEPT ![n] = {FinaDec(sum[n], partdec'[n])}]
      BY <2>1
    <3>. QED
      BY <3>1, <2>3 DEF TypeInv, TypeOK
  <2>5. sent' \subseteq Messages
    <3>1. sent' = sent \/ sent' = sent \cup {VoteResult(n, FinaDec(sum[n], partdec'[n]))}
      BY <2>1 DEF Send
    <3>. QED
      BY <3>1, <2>3, <1>b DEF TypeInv, TypeOK
  <2>6. rcvd' \in [Parties -> SUBSET Messages]
    BY <2>1, ArrivingType DEF Take, TypeInv, TypeOK
  <2>7. stat' \in [Parties -> NodeStat]
    <3>1. stat' = stat \/ stat' = [stat EXCEPT ![n] = "SentResult"]
      BY <2>1 DEF Become
    <3>. QED
      BY <3>1 DEF NodeStat, TypeInv, TypeOK
  <2>. QED
    BY <2>1, <2>2, <2>4, <2>5, <2>6, <2>7 DEF TypeInv, TypeOK, keyVars, ballotVars, envVars
<1>2. CollectedWasSent'
  <2>1. PICK m \in Arriving(n, "PlainTextPart") : HandlePlainText(n)!(m)
    BY DEF HandlePlainText
  <2>2. IsFiniteSet(sent') /\ sent \subseteq sent'
    BY <2>1, FS_AddElement DEF Send, TypeInv, CollectedWasSent
  <2>3. partdec' = [partdec EXCEPT ![n] = @ \cup {m}]
    BY <2>1
  <2>4. m \in sent /\ rcvd' = [rcvd EXCEPT ![n] = @ \cup {m}]
    BY <2>1, ArrivingType DEF Take
  <2>5. UNCHANGED <<evalCipher, sum>>
    BY <2>1 DEF ballotVars, resultVars
  <2>. QED
    BY <2>2, <2>3, <2>4, <2>5 DEF TypeInv, TypeOK, CollectedWasSent
<1>. QED
  BY <1>1, <1>2 DEF TypeInv

LEMMA TypeVoteResult ==
  ASSUME NEW n \in Parties
  PROVE  TypeInv /\ HandleVoteResult(n) => TypeInv'
<1> SUFFICES ASSUME TypeInv, HandleVoteResult(n) PROVE TypeInv'
  OBVIOUS
<1>0. \A m \in Arriving(n, "VoteResult") : m \in ResultMsgs
  BY ArrivingType DEF Messages, Ballots, DecShares
<1>1. TypeOK'
  <2>1. PICK m \in Arriving(n, "VoteResult") : HandleVoteResult(n)!(m)
    BY DEF HandleVoteResult
  <2>2. otherResult' \in [Parties -> SUBSET ResultMsgs]
    BY <2>1, <1>0 DEF TypeInv, TypeOK
  <2>3. rcvd' \in [Parties -> SUBSET Messages]
    BY <2>1, ArrivingType DEF Take, TypeInv, TypeOK
  <2>5. stat' \in [Parties -> NodeStat]
    <3>1. stat' = stat \/ stat' = [stat EXCEPT ![n] = "Inited"]
      BY <2>1 DEF Become
    <3>. QED
      BY <3>1 DEF NodeStat, TypeInv, TypeOK
  <2>4. report' \in [Parties -> SUBSET [shown : Results, isCorrect : BOOLEAN]]
    <3> DEFINE verdicts ==
          {[shown |-> r, isCorrect |-> \A o \in otherResult'[n] : o.result = r]
             : r \in result[n]}
    <3>1. verdicts \subseteq [shown : Results, isCorrect : BOOLEAN]
      <4>1. ASSUME NEW r \in result[n], NEW b \in BOOLEAN
            PROVE  [shown |-> r, isCorrect |-> b] \in [shown : Results, isCorrect : BOOLEAN]
        BY DEF TypeInv, TypeOK
      <4>2. ASSUME NEW r PROVE (\A o \in otherResult'[n] : o.result = r) \in BOOLEAN
        OBVIOUS
      <4>. QED
        BY <4>1, <4>2, Zenon
    <3>2. report' = report \/ report' = [report EXCEPT ![n] = verdicts]
      BY <2>1
    <3>. HIDE DEF verdicts
    <3>. QED
      BY <3>1, <3>2 DEF TypeInv, TypeOK
  <2>. QED
    BY <2>1, <2>2, <2>3, <2>4, <2>5 DEF TypeInv, TypeOK, keyVars, ballotVars, envVars
<1>2. CollectedWasSent'
  <2>1. PICK m \in Arriving(n, "VoteResult") : HandleVoteResult(n)!(m)
    BY DEF HandleVoteResult
  <2>2. sent' = sent
    BY <2>1
  <2>4. m \in sent /\ rcvd' = [rcvd EXCEPT ![n] = @ \cup {m}]
    BY <2>1, ArrivingType DEF Take
  <2>5. UNCHANGED <<evalCipher, sum, partdec>>
    BY <2>1 DEF ballotVars, resultVars
  <2>. QED
    BY <2>2, <2>4, <2>5 DEF TypeInv, TypeOK, CollectedWasSent
<1>. QED
  BY <1>1, <1>2 DEF TypeInv

\* Every step keeps the fields typed and the collections received.
LEMMA TypeStep == TypeInv /\ [Next]_vars => TypeInv'
<1> SUFFICES ASSUME TypeInv, [Next]_vars PROVE TypeInv'
  OBVIOUS
<1>1. CASE UNCHANGED vars
  BY <1>1 DEF TypeInv, TypeOK, CollectedWasSent, vars, keyVars, ballotVars, resultVars, envVars
<1>2. CASE BeginVote
  BY <1>2, TypeBeginVote
<1>3. CASE SendVoteDetail
  BY <1>3, TypeSendVoteDetail
<1>4. ASSUME NEW n \in Parties, Loop(n) PROVE TypeInv'
  BY <1>4, TypeIgnore, TypeVoteParams, TypePolyResult, TypePubKeyPart, TypeVoteDetail,
     TypeCipherText, TypeCoffin, TypePlainText, TypeVoteResult DEF Loop
<1>5. ASSUME NEW n \in Parties, Vote(n) PROVE TypeInv'
  BY <1>5, TypeSendVote DEF Vote
<1>6. ASSUME NEW n \in Parties, Return(n) PROVE TypeInv'
  BY <1>6, TypeReturn
<1>. QED
  BY <1>1, <1>2, <1>3, <1>4, <1>5, <1>6 DEF Next

LEMMA TypeInvariant == Spec => []TypeInv
  BY TypeInit, TypeStep, PTL DEF Spec

\* Every field keeps its type, whatever the number of parties, the tickets and
\* the races: no handler stores anything but what its declaration allows.
THEOREM TypeCorrect == Spec => []TypeOK
<1>1. TypeInv => TypeOK
  BY DEF TypeInv
<1>. QED
  BY <1>1, TypeInvariant, PTL

-----------------------------------------------------------------------------
(* Only sums of everybody's ballot are decrypted *)

\* As many ballots as there are parties, at most one of each, are all of them.
LEMMA OneOfEach ==
  ASSUME OneBallotEach, NEW S \in SUBSET Sent("CipherText"), S \subseteq Ballots,
         Cardinality(S) = Cardinality(Parties)
  PROVE  FullSum(S)
<1> DEFINE voter == [c \in S |-> c.from]
<1>1. voter \in Injection(S, Parties)
  BY DEF Injection, IsInjective, OneBallotEach, Ballots
<1>2. voter \in Surjection(S, Parties)
  BY <1>1, FS_Injection, PartiesAssumption
<1>. QED
  BY <1>2 DEF Surjection, FullSum, Ballots

\* What a step of the loop leaves alone: the calls in progress, the ballots
\* and the fact of being past one's ballot.
Keeps(n) ==
  /\ calls' = calls
  /\ Sent("CipherText")' = Sent("CipherText")
  /\ stat' \in [Parties -> NodeStat]
  /\ \A q \in Parties : stat[q] \in PastBallot => stat'[q] \in PastBallot

LEMMA LoopKeeps ==
  ASSUME TypeInv, NEW n \in Parties, Loop(n)
  PROVE  Keeps(n)
<1> USE DEF Keeps, TypeInv, TypeOK, NodeStat, PastBallot, Expects, envVars,
  VoteParamsStates, PolyResultStates, PubKeyPartStates, VoteDetailStates,
  CipherTextStates, IDStates, PlainTextPartStates, VoteResultStates
<1>1. CASE \E type \in MessageTypes : Ignore(n, type)
  BY <1>1 DEF Ignore, Sent
<1>2. CASE HandleVoteParams(n)
  BY <1>2 DEF HandleVoteParams, Become, Send, Sent, PolyResult
<1>3. CASE HandlePolyResult(n)
  BY <1>3 DEF HandlePolyResult, Become, Send, Sent, PubKeyPart
<1>4. CASE HandlePubKeyPart(n)
  BY <1>4 DEF HandlePubKeyPart, Become, Sent
<1>5. CASE HandleVoteDetail(n)
  BY <1>5 DEF HandleVoteDetail, Become, Sent
<1>6. CASE HandleCipherText(n)
  BY <1>6 DEF HandleCipherText, Become, Send, Sent, ID
<1>7. CASE HandleCoffin(n)
  BY <1>7 DEF HandleCoffin, Become, Send, Sent, PlainTextPart
<1>8. CASE HandlePlainText(n)
  BY <1>8 DEF HandlePlainText, Become, Send, Sent, VoteResult
<1>9. CASE HandleVoteResult(n)
  <2>1. /\ stat[n] \in VoteResultStates
        /\ stat' = stat \/ stat' = [stat EXCEPT ![n] = "Inited"]
        /\ calls' = calls /\ sent' = sent
    BY <1>9 DEF HandleVoteResult, Become
  <2>. QED
    BY <2>1 DEF Sent
<1>. QED
  BY <1>1, <1>2, <1>3, <1>4, <1>5, <1>6, <1>7, <1>8, <1>9 DEF Loop

\* The loop adds up ballots and offers to decrypt only full sums.
LEMMA LoopFullSum ==
  ASSUME TypeInv, TypeInv', FullSumInv, NEW n \in Parties, Loop(n)
  PROVE  FlagMeansFullSum' /\ FullSumOnly'
<1> USE DEF TypeInv, TypeOK, FullSumInv, FlagMeansFullSum, FullSumOnly
<1>1. CASE \E type \in MessageTypes : Ignore(n, type)
  BY <1>1 DEF Ignore, Sent, ballotVars
<1>2. CASE HandleVoteParams(n)
  BY <1>2 DEF HandleVoteParams, Send, Sent, PolyResult, ballotVars
<1>3. CASE HandlePolyResult(n)
  BY <1>3 DEF HandlePolyResult, Send, Sent, PubKeyPart, ballotVars
<1>4. CASE HandlePubKeyPart(n)
  BY <1>4 DEF HandlePubKeyPart, Sent, ballotVars
<1>5. CASE HandleVoteDetail(n)
  BY <1>5 DEF HandleVoteDetail, Sent, ballotVars
<1>6. CASE HandleCipherText(n)
  <2>1. PICK m \in Arriving(n, "CipherText") : HandleCipherText(n)!(m)
    BY <1>6 DEF HandleCipherText
  <2>2. FullSumOnly'
    BY <2>1 DEF Send, Sent, ID
  <2>3. CASE flag' = flag /\ sum' = sum
    BY <2>2, <2>3
  <2>4. CASE EveryBallot(n, evalCipher'[n])
    <3>1. evalCipher'[n] = evalCipher[n] \cup {m}
      BY <2>1
    <3>2. evalCipher'[n] \subseteq Sent("CipherText") /\ evalCipher'[n] \subseteq Ballots
      <4>1. evalCipher'[n] \subseteq Ballots
        OBVIOUS
      <4>2. evalCipher'[n] \subseteq sent
        BY <3>1, ArrivingType DEF CollectedWasSent
      <4>. QED
        BY <4>1, <4>2 DEF Sent, Ballots
    <3>3. parties[n] = Parties
      <4>1. IsFiniteSet(evalCipher'[n]) /\ evalCipher'[n] # {}
        BY <3>1, <3>2, FS_Subset DEF Sent, CollectedWasSent
      <4>. QED
        <5>1. Cardinality(evalCipher'[n]) # Cardinality({})
          BY <4>1, FS_EmptySet
        <5>2. parties[n] \in {{}, Parties}
          OBVIOUS
        <5>. QED
          BY <5>1, <5>2, <2>4 DEF EveryBallot
    <3>4. FullSum(evalCipher'[n])
      BY <2>4, <3>2, <3>3, OneOfEach DEF EveryBallot
    <3>5. sum' = [sum EXCEPT ![n] = evalCipher'[n]] /\ flag' = [flag EXCEPT ![n] = TRUE]
      BY <2>1, <2>4
    <3>6. ASSUME NEW q \in Parties, flag'[q] PROVE FullSum(sum'[q])
      <4>1. CASE q = n
        BY <3>4, <3>5, <4>1
      <4>2. CASE q # n
        <5>1. flag'[q] = flag[q] /\ sum'[q] = sum[q]
          BY <3>5, <4>2
        <5>. QED
          BY <3>6, <5>1
      <4>. QED
        BY <4>1, <4>2
    <3>. QED
      BY <2>2, <3>6 DEF FullSum
  <2>. QED
    BY <2>1, <2>3, <2>4
<1>7. CASE HandleCoffin(n)
  <2>1. PICK m \in Arriving(n, "ID") : HandleCoffin(n)!(m)
    BY <1>7 DEF HandleCoffin
  <2>2. flag[n] => FullSum(sum[n])
    OBVIOUS
  <2>. QED
    BY <2>1, <2>2 DEF EveryID, Send, Sent, PlainTextPart
<1>8. CASE HandlePlainText(n)
  BY <1>8 DEF HandlePlainText, Send, Sent, VoteResult, ballotVars
<1>9. CASE HandleVoteResult(n)
  BY <1>9 DEF HandleVoteResult, Sent, ballotVars
<1>. QED
  BY <1>1, <1>2, <1>3, <1>4, <1>5, <1>6, <1>7, <1>8, <1>9 DEF Loop

\* With one slot, a phone that enters a call is in no other.
LEMMA EnterAlone ==
  ASSUME MaxCalls = 1, TypeInv, NEW n \in Parties, NEW s, Enter(n, s)
  PROVE  calls[n] = {} /\ calls' = [calls EXCEPT ![n] = {[slot |-> 1, stores |-> s]}]
<1>1. PICK slot \in 1..MaxCalls :
        /\ \A c \in calls[n] : c.slot # slot
        /\ calls' = [calls EXCEPT ![n] = @ \cup {[slot |-> slot, stores |-> s]}]
  BY DEF Enter
<1>2. slot = 1 /\ \A c \in calls[n] : c.slot = 1
  BY DEF TypeInv, TypeOK, Calls
<1>3. calls[n] = {}
  BY <1>1, <1>2
<1>. QED
  BY <1>1, <1>2, <1>3 DEF TypeInv, TypeOK

\* A ballot: the voter had none, and now is in a call that will store Voted.
LEMMA VoteKeepsInv ==
  ASSUME MaxCalls = 1, TypeInv, FullSumInv, NEW n \in Parties, Vote(n)
  PROVE  FullSumInv'
<1> USE DEF TypeInv, TypeOK, FullSumInv, Calls
<1>1. PICK t \in Tickets \cup {Abstain} : SendVote(n, t)
  BY DEF Vote
<1> DEFINE b == CipherText(n, t, pk[n], Cardinality(SentBy(n, "CipherText")) + 1)
           c == [slot |-> 1, stores |-> "Voted"]
<1>2. calls[n] = {} /\ calls' = [calls EXCEPT ![n] = {c}]
  BY <1>1, EnterAlone DEF SendVote, MayVote
<1>3. b.type = "CipherText" /\ b.from = n
  BY DEF CipherText
<1>4. Sent("CipherText")' = Sent("CipherText") \cup {b}
  BY <1>1, <1>3 DEF SendVote, Send, Sent
<1>5. Sent("PlainTextPart")' = Sent("PlainTextPart") /\ UNCHANGED <<flag, sum, stat>>
  BY <1>1, <1>3 DEF SendVote, Send, Sent, ballotVars
<1>6. ~HasVoted(n)
  BY <1>1, <1>2 DEF SendVote, MayVote, VotesOnce, PastBallot
<1>. HIDE DEF b
<1>7. OneBallotEach'
  BY <1>3, <1>4, <1>6 DEF OneBallotEach, HasVoted
<1>8. VotesOnce'
  <2>1. \A q \in Parties \ {n} : HasVoted(q)' <=> HasVoted(q)
    BY <1>3, <1>4 DEF HasVoted
  <2>2. calls'[n] = {c} /\ \A q \in Parties \ {n} : calls'[q] = calls[q]
    BY <1>2
  <2>3. ASSUME NEW q \in Parties
        PROVE  /\ HasVoted(q)' => stat'[q] \in PastBallot \/ calls'[q] # {}
               /\ \A d, e \in calls'[q] : d.slot = e.slot => d = e
               /\ \A d \in calls'[q] : d.stores = "GotDetail" => ~HasVoted(q)'
    <3>1. CASE q = n
      <4>1. calls'[q] = {c} /\ c.stores = "Voted"
        BY <2>2, <3>1
      <4>. HIDE DEF c
      <4>. QED
        BY <4>1
    <3>2. CASE q # n
      BY <2>1, <2>2, <1>5, <3>2 DEF VotesOnce
    <3>. QED
      BY <3>1, <3>2
  <2>. QED
    BY <2>3 DEF VotesOnce, PastBallot
<1>9. FlagMeansFullSum' /\ FullSumOnly'
  BY <1>5 DEF FlagMeansFullSum, FullSumOnly, FullSum
<1>. QED
  BY <1>7, <1>8, <1>9

\* The other calls send no ballot and store nothing before a ballot is sent.
LEMMA DetailKeepsInv ==
  ASSUME MaxCalls = 1, TypeInv, FullSumInv, SendVoteDetail
  PROVE  FullSumInv'
<1> USE DEF TypeInv, TypeOK, FullSumInv, Calls
<1> DEFINE c == [slot |-> 1, stores |-> "GotDetail"]
<1>1. calls[Starter] = {} /\ calls' = [calls EXCEPT ![Starter] = {c}]
  BY PartiesAssumption, EnterAlone DEF SendVoteDetail
<1>2. /\ Sent("CipherText")' = Sent("CipherText")
      /\ Sent("PlainTextPart")' = Sent("PlainTextPart")
      /\ UNCHANGED <<flag, sum, stat>>
  BY DEF SendVoteDetail, Send, Sent, VoteDetail, ballotVars
<1>3. ~HasVoted(Starter)
  BY <1>1, PartiesAssumption DEF SendVoteDetail, VotesOnce, PastBallot
<1>4. VotesOnce'
  BY <1>1, <1>2, <1>3 DEF VotesOnce, HasVoted
<1>. QED
  BY <1>2, <1>4 DEF OneBallotEach, FlagMeansFullSum, FullSumOnly, FullSum

LEMMA ReturnKeepsInv ==
  ASSUME MaxCalls = 1, TypeInv, FullSumInv, NEW n \in Parties, Return(n)
  PROVE  FullSumInv'
<1> USE DEF TypeInv, TypeOK, FullSumInv, Calls
<1>1. PICK c \in calls[n] : /\ calls' = [calls EXCEPT ![n] = @ \ {c}]
                            /\ stat' = [stat EXCEPT ![n] = c.stores]
  BY DEF Return, Become
<1>2. sent' = sent /\ UNCHANGED <<flag, sum>>
  BY DEF Return, ballotVars
<1>3. VotesOnce'
  BY <1>1, <1>2 DEF VotesOnce, HasVoted, Sent, PastBallot
<1>. QED
  BY <1>2, <1>3 DEF OneBallotEach, FlagMeansFullSum, FullSumOnly, FullSum, Sent

\* FullSumInv is inductive, given the types.
LEMMA FullSumStep ==
  ASSUME MaxCalls = 1, TypeInv, TypeInv', FullSumInv, [Next]_vars
  PROVE  FullSumInv'
<1>1. CASE UNCHANGED vars
  BY <1>1 DEF vars, ballotVars, envVars, FullSumInv, OneBallotEach, VotesOnce,
     HasVoted, FlagMeansFullSum, FullSumOnly, FullSum, Sent
<1>2. CASE BeginVote
  <2>1. /\ Sent("CipherText")' = Sent("CipherText")
        /\ Sent("PlainTextPart")' = Sent("PlainTextPart")
        /\ UNCHANGED <<flag, sum, stat, calls>>
    BY <1>2 DEF BeginVote, Send, Sent, VoteParams, ballotVars, envVars
  <2>. QED
    BY <2>1 DEF FullSumInv, OneBallotEach, VotesOnce, HasVoted, FlagMeansFullSum,
       FullSumOnly, FullSum
<1>3. CASE SendVoteDetail
  BY <1>3, DetailKeepsInv
<1>4. ASSUME NEW n \in Parties, Loop(n) PROVE FullSumInv'
  <2>1. FlagMeansFullSum' /\ FullSumOnly'
    BY <1>4, LoopFullSum
  <2>2. OneBallotEach' /\ VotesOnce'
    BY <1>4, LoopKeeps DEF Keeps, FullSumInv, OneBallotEach, VotesOnce, HasVoted
  <2>. QED
    BY <2>1, <2>2 DEF FullSumInv
<1>5. ASSUME NEW n \in Parties, Vote(n) PROVE FullSumInv'
  BY <1>5, VoteKeepsInv
<1>6. ASSUME NEW n \in Parties, Return(n) PROVE FullSumInv'
  BY <1>6, ReturnKeepsInv
<1>. QED
  BY <1>1, <1>2, <1>3, <1>4, <1>5, <1>6 DEF Next

\* FullSumInv holds throughout: a phone casts once, offers to decrypt only a
\* full sum, and the late store of Stat never gives it a second ballot.
THEOREM FullSums == MaxCalls = 1 => (Spec => []FullSumInv)
<1> SUFFICES ASSUME MaxCalls = 1 PROVE Spec => []FullSumInv
  OBVIOUS
<1>1. Init => FullSumInv
  BY DEF Init, FullSumInv, OneBallotEach, VotesOnce, HasVoted, FlagMeansFullSum,
     FullSumOnly, Sent
<1>2. TypeInv /\ TypeInv' /\ FullSumInv /\ [Next]_vars => FullSumInv'
  BY FullSumStep
<1>. QED
  BY <1>1, <1>2, TypeInvariant, PTL DEF Spec

\* If a phone's user interface makes one call at a time, then however many
\* parties there are, whatever is late or lost and however the calls and the
\* loop interleave, no phone helps to decrypt anything but the sum of exactly
\* one ballot of every party.
THEOREM SecretBallots == MaxCalls = 1 => (Spec => []FullSumOnly)
<1> SUFFICES ASSUME MaxCalls = 1 PROVE Spec => []FullSumOnly
  OBVIOUS
<1>1. FullSumInv => FullSumOnly
  BY DEF FullSumInv
<1>2. Spec => []FullSumInv
  BY FullSums
<1>. QED
  BY <1>1, <1>2, PTL


-----------------------------------------------------------------------------
(* Full sums *)

\* There are at least as many parties as a threshold asks for.
LEMMA ThresholdReached == Cardinality(Parties) >= Threshold
<1>1. Cardinality(Parties) # 0
  BY PartiesAssumption, FS_EmptySet
<1>. QED
  BY <1>1, PartiesCardinality DEF Threshold

\* The sum a phone offers to decrypt is of all the ballots there are.
LEMMA SumIsAll ==
  ASSUME TypeInv, FullSumInv, NEW n \in Parties, flag[n]
  PROVE  sum[n] = Sent("CipherText") /\ FullSum(sum[n])
<1>1. FullSum(sum[n])
  BY DEF FullSumInv, FlagMeansFullSum
<1>2. sum[n] \subseteq Sent("CipherText")
  BY DEF TypeInv, TypeOK, CollectedWasSent, Sent, Ballots
<1>3. ASSUME NEW c \in Sent("CipherText") PROVE c \in sum[n]
  <2>1. c.from \in Parties
    BY DEF TypeInv, TypeOK, Sent, Messages, Ballots, DecShares, ResultMsgs
  <2>2. PICK d \in sum[n] : d.from = c.from
    BY <1>1, <2>1 DEF FullSum
  <2>. QED
    BY <1>2, <2>2 DEF FullSumInv, OneBallotEach
<1>. QED
  BY <1>1, <1>2, <1>3

\* As many parties as there are are all of them.
LEMMA AllParties ==
  ASSUME NEW S \in SUBSET Parties, Cardinality(S) >= Cardinality(Parties)
  PROVE  S = Parties
<1>1. Cardinality(S) <= Cardinality(Parties) /\ Cardinality(S) \in Nat
  BY PartiesAssumption, FS_Subset, FS_CardinalityType
<1>2. Cardinality(S) = Cardinality(Parties)
  BY <1>1, PartiesCardinality
<1>. QED
  BY <1>2, PartiesAssumption, FS_Subset

\* As many messages as there are parties, one of each, have all as senders.
LEMMA AllSenders ==
  ASSUME NEW S, \A m \in S : m.from \in Parties, \A m, o \in S : m.from = o.from => m = o,
         Cardinality(S) = Cardinality(Parties)
  PROVE  {m.from : m \in S} = Parties
<1> DEFINE sender == [m \in S |-> m.from]
<1>1. sender \in Injection(S, Parties)
  BY DEF Injection, IsInjective
<1>2. sender \in Surjection(S, Parties)
  BY <1>1, FS_Injection, PartiesAssumption
<1>3. \A q \in Parties : \E m \in S : m.from = q
  <2>1. \A q \in Parties : \E m \in S : sender[m] = q
    BY <1>2 DEF Surjection
  <2>. QED
    BY <2>1
<1>. QED
  BY <1>3

-----------------------------------------------------------------------------
(* ResultInv is inductive *)

\* What it speaks of and most steps leave alone.
ResultFrame ==
  /\ Sent("CipherText")' = Sent("CipherText")
  /\ Sent("PlainTextPart")' = Sent("PlainTextPart")
  /\ Sent("VoteResult")' = Sent("VoteResult")
  /\ UNCHANGED <<flag, sum, decPartNum, lengthDec, resultVars>>
  /\ \A n \in Parties : rcvd[n] \subseteq rcvd'[n]

\* SameResult depends on what was sent and on the fields of the result only.
LEMMA SameResultKept ==
  ASSUME SameResult, UNCHANGED resultVars,
         Sent("CipherText")' = Sent("CipherText"),
         Sent("PlainTextPart")' = Sent("PlainTextPart"),
         Sent("VoteResult")' = Sent("VoteResult")
  PROVE  SameResult'
  BY DEF SameResult, SentBy, resultVars, FinaDec, Decrypts, Tally

\* A step that leaves all that alone keeps the invariant.
LEMMA FrameKeepsResult ==
  ASSUME ResultInv, ResultFrame
  PROVE  ResultInv'
<1> USE DEF ResultInv, ResultFrame
<1>1. ShareOnce'
  BY DEF ShareOnce, SentBy, Rcvd, PlainTextPart
<1>2. SameResult'
  BY SameResultKept
<1>. QED
  BY <1>1, <1>2

\* Which those are.
LEMMA FramedSteps ==
  ASSUME TypeInv, NEW n \in Parties,
         \/ HandleVoteParams(n) \/ HandlePolyResult(n) \/ HandlePubKeyPart(n)
         \/ HandleVoteDetail(n) \/ Return(n) \/ BeginVote \/ SendVoteDetail
         \/ \E type \in MessageTypes : Ignore(n, type)
  PROVE  ResultFrame
<1> USE DEF TypeInv, TypeOK, ResultFrame, ballotVars
<1>1. CASE HandleVoteParams(n)
  BY <1>1 DEF HandleVoteParams, Take, Send, Sent, PolyResult
<1>2. CASE HandlePolyResult(n)
  BY <1>2 DEF HandlePolyResult, Take, Send, Sent, PubKeyPart
<1>3. CASE HandlePubKeyPart(n)
  BY <1>3 DEF HandlePubKeyPart, Take, Sent
<1>4. CASE HandleVoteDetail(n)
  BY <1>4 DEF HandleVoteDetail, Take, Sent
<1>5. CASE Return(n)
  BY <1>5 DEF Return, Sent
<1>6. CASE BeginVote
  BY <1>6 DEF BeginVote, Send, Sent, VoteParams
<1>7. CASE SendVoteDetail
  BY <1>7 DEF SendVoteDetail, Send, Sent, VoteDetail
<1>8. CASE \E type \in MessageTypes : Ignore(n, type)
  BY <1>8 DEF Ignore, Take, Sent
<1>. QED
  BY <1>1, <1>2, <1>3, <1>4, <1>5, <1>6, <1>7, <1>8

\* Nobody casts a ballot after somebody has a full sum.
LEMMA VoteKeepsResult ==
  ASSUME MaxCalls = 1, TypeInv, FullSumInv, ResultInv, NEW n \in Parties, Vote(n)
  PROVE  ResultInv'
<1> USE DEF TypeInv, TypeOK
<1>1. PICK t \in Tickets \cup {Abstain} : SendVote(n, t)
  BY DEF Vote
<1>2. calls[n] = {}
  BY <1>1, EnterAlone DEF SendVote
<1>3. ~HasVoted(n)
  BY <1>1, <1>2 DEF SendVote, MayVote, VotesOnce, PastBallot, FullSumInv
<1>4. \A p \in Parties : ~flag[p]
  BY <1>3, SumIsAll DEF FullSum, HasVoted
<1>5. Sent("PlainTextPart") = {}
  BY <1>4 DEF ResultInv, ShareOnce, SentBy, Sent, Messages, Ballots, DecShares, ResultMsgs
<1>6. \A p \in Parties : result[p] = {}
  BY <1>5, PartiesAssumption DEF ResultInv, SameResult
<1>7. /\ Sent("PlainTextPart")' = Sent("PlainTextPart")
      /\ Sent("VoteResult")' = Sent("VoteResult")
      /\ UNCHANGED <<flag, sum, decPartNum, lengthDec, resultVars, rcvd>>
  BY <1>1 DEF SendVote, Send, Sent, CipherText, ballotVars
<1>8. ShareOnce'
  BY <1>4, <1>5, <1>7 DEF ResultInv, ShareOnce, SentBy, Rcvd
<1>9. SameResult'
  BY <1>6, <1>7 DEF ResultInv, SameResult, SentBy, resultVars
<1>. QED
  BY <1>8, <1>9 DEF ResultInv

\* A phone adds up ballots once: a further one would be of a party whose
\* ballot it has.
LEMMA CipherTextKeepsResult ==
  ASSUME TypeInv, TypeInv', FullSumInv, ResultInv, NEW n \in Parties, HandleCipherText(n)
  PROVE  ResultInv'
<1> USE DEF TypeInv, TypeOK
<1>1. PICK m \in Arriving(n, "CipherText") : HandleCipherText(n)!(m)
  BY DEF HandleCipherText
<1>2. ~flag[n]
  <2>1. m \in Sent("CipherText") /\ m \notin rcvd[n]
    BY DEF Arriving
  <2>. QED
    BY <2>1, SumIsAll DEF CollectedWasSent
<1>3. /\ Sent("CipherText")' = Sent("CipherText")
      /\ Sent("PlainTextPart")' = Sent("PlainTextPart")
      /\ Sent("VoteResult")' = Sent("VoteResult")
  BY <1>1 DEF Send, Sent, ID
<1>4. /\ UNCHANGED <<decPartNum, lengthDec, resultVars>>
      /\ rcvd' = [rcvd EXCEPT ![n] = @ \cup {m}]
      /\ \A q \in Parties \ {n} : flag'[q] = flag[q] /\ sum'[q] = sum[q]
  BY <1>1 DEF Take
<1>5. ShareOnce'
  BY <1>2, <1>3, <1>4 DEF ResultInv, ShareOnce, SentBy, Rcvd, PlainTextPart
<1>6. SameResult'
  BY <1>3, <1>4, SameResultKept DEF ResultInv
<1>. QED
  BY <1>5, <1>6 DEF ResultInv

\* An ID message is nothing but its sender.
LEMMA IDType ==
  ASSUME TypeInv, NEW m \in sent, m.type = "ID"
  PROVE  m.from \in Parties /\ m = ID(m.from)
  BY DEF TypeInv, TypeOK, Messages, Ballots, DecShares, ResultMsgs, ID

\* Decryption shares are typed and come from parties.
LEMMA ShareType ==
  ASSUME TypeInv, NEW m \in Sent("PlainTextPart")
  PROVE  m \in DecShares /\ m.from \in Parties
  BY DEF TypeInv, TypeOK, Sent, Messages, Ballots, DecShares, ResultMsgs

\* A phone makes its decryption share once: a further announcement would be of
\* a party that has announced itself already.
LEMMA CoffinKeepsResult ==
  ASSUME TypeInv, TypeInv', FullSumInv, ResultInv, NEW n \in Parties, HandleCoffin(n)
  PROVE  ResultInv'
<1>1. PICK m \in Arriving(n, "ID") : HandleCoffin(n)!(m)
  BY DEF HandleCoffin
<1>2. m \in sent /\ m.type = "ID" /\ m \notin rcvd[n]
  BY DEF Arriving, Sent
<1>3. m.from \in Parties /\ m = ID(m.from)
  BY <1>2, IDType
<1>4. m.from \notin decPartNum[n]
  <2>1. SUFFICES ASSUME m.from \in decPartNum[n] PROVE FALSE
    OBVIOUS
  <2>2. PICK o \in Rcvd(n, "ID") : o.from = m.from
    BY <2>1 DEF ResultInv, ShareOnce
  <2>3. o = ID(o.from)
    BY IDType DEF Rcvd, TypeInv, CollectedWasSent
  <2>. QED
    BY <1>2, <1>3, <2>2, <2>3 DEF Rcvd
<1>5. SentBy(n, "PlainTextPart") = {}
  BY <1>3, <1>4 DEF ResultInv, ShareOnce
<1>6. /\ decPartNum' = [decPartNum EXCEPT ![n] = @ \cup {m.from}]
      /\ rcvd' = [rcvd EXCEPT ![n] = @ \cup {m}]
      /\ UNCHANGED <<sum, flag, resultVars>>
  BY <1>1 DEF Take
<1>7. \A p \in Parties : decPartNum'[p] \subseteq {o.from : o \in Rcvd(p, "ID")'}
  BY <1>2, <1>6 DEF ResultInv, ShareOnce, Rcvd, TypeInv, TypeOK
<1>8. /\ Sent("CipherText")' = Sent("CipherText")
      /\ Sent("VoteResult")' = Sent("VoteResult")
  BY <1>1 DEF Send, Sent, PlainTextPart
<1>9. CASE EveryID(n, decPartNum'[n])
  <2> DEFINE s == PlainTextPart(n, decPartNum'[n], sum[n])
  <2>1. /\ flag[n]
        /\ Cardinality(decPartNum'[n]) = Cardinality(parties[n])
        /\ lengthDec' = [lengthDec EXCEPT ![n] = Cardinality(decPartNum'[n])]
    BY <1>1, <1>9 DEF EveryID
  <2>2. Sent("PlainTextPart")' = Sent("PlainTextPart") \cup {s}
    BY <1>1, <1>9 DEF Send, Sent, PlainTextPart
  <2>3. decPartNum'[n] = Parties
    <3>1. decPartNum'[n] \subseteq Parties /\ decPartNum'[n] # {}
      BY <1>3, <1>6 DEF TypeInv, TypeOK
    <3>2. Cardinality(decPartNum'[n]) # 0
      BY <3>1, PartiesAssumption, FS_Subset, FS_EmptySet
    <3>3. parties[n] = Parties
      BY <2>1, <3>2, FS_EmptySet DEF TypeInv, TypeOK
    <3>. QED
      BY <2>1, <3>1, <3>3, AllParties, PartiesCardinality
  <2>4. ShareOnce'
    <3>1. \A p \in Parties : lengthDec'[p] # 0 =>
             flag'[p] /\ lengthDec'[p] = Cardinality(Parties)
      <4>1. lengthDec'[n] = Cardinality(Parties) /\ flag' = flag
        BY <1>6, <2>1, <2>3 DEF TypeInv, TypeOK
      <4>2. \A p \in Parties \ {n} : lengthDec'[p] = lengthDec[p]
        BY <2>1
      <4>. QED
        BY <2>1, <4>1, <4>2 DEF ResultInv, ShareOnce
    <3>2. ASSUME NEW p \in Parties, NEW o \in SentBy(p, "PlainTextPart")'
          PROVE  flag'[p] /\ decPartNum'[p] = Parties /\ o = PlainTextPart(p, Parties, sum'[p])
      <4>1. o \in SentBy(p, "PlainTextPart") \/ (o = s /\ p = n)
        BY <2>2 DEF SentBy, PlainTextPart
      <4>2. CASE o = s /\ p = n
        BY <1>6, <2>1, <2>3, <4>2
      <4>3. CASE o \in SentBy(p, "PlainTextPart")
        <5>1. p # n
          BY <1>5, <4>3
        <5>2. flag[p] /\ decPartNum[p] = Parties /\ o = PlainTextPart(p, Parties, sum[p])
          BY <4>3 DEF ResultInv, ShareOnce
        <5>. QED
          BY <1>6, <5>1, <5>2 DEF TypeInv, TypeOK
      <4>. QED
        BY <4>1, <4>2, <4>3
    <3>. QED
      BY <1>7, <3>1, <3>2 DEF ShareOnce
  <2>5. \A p \in Parties : result[p] = {}
    <3>1. n \notin {o.from : o \in Sent("PlainTextPart")}
      BY <1>5 DEF SentBy
    <3>. QED
      BY <3>1 DEF ResultInv, SameResult
  <2>6. SameResult'
    BY <1>6, <1>8, <2>2, <2>5 DEF ResultInv, SameResult, SentBy, resultVars
  <2>. QED
    BY <2>4, <2>6 DEF ResultInv
<1>10. CASE ~EveryID(n, decPartNum'[n])
  <2>1. Sent("PlainTextPart")' = Sent("PlainTextPart") /\ lengthDec' = lengthDec
    BY <1>1, <1>10 DEF Sent
  <2>2. SameResult'
    BY <1>6, <1>8, <2>1, SameResultKept DEF ResultInv
  <2>3. \A p \in Parties : decPartNum[p] = Parties => decPartNum'[p] = Parties
    <3>1. \A p \in Parties \ {n} : decPartNum'[p] = decPartNum[p]
      BY <1>6
    <3>. QED
      BY <1>3, <1>4, <3>1
  <2>4. ShareOnce'
    BY <1>6, <1>7, <2>1, <2>3 DEF ResultInv, ShareOnce, SentBy, PlainTextPart
  <2>. QED
    BY <2>2, <2>4 DEF ResultInv
<1>. QED
  BY <1>9, <1>10

\* Whoever decrypts has every party's share, and all of them are of all ballots.
LEMMA SharesAreAll ==
  ASSUME TypeInv, FullSumInv, ResultInv, NEW n \in Parties, flag[n],
         NEW S \in SUBSET Sent("PlainTextPart"), Cardinality(S) = Cardinality(Parties)
  PROVE  /\ S = Sent("PlainTextPart")
         /\ {s.from : s \in S} = Parties
<1>1. \A m \in Sent("PlainTextPart") : m.from \in Parties
  BY ShareType
<1>2. \A m, o \in Sent("PlainTextPart") : m.from = o.from => m = o
  BY <1>1 DEF ResultInv, ShareOnce, SentBy
<1>3. {s.from : s \in S} = Parties
  BY <1>1, <1>2, AllSenders
<1>. QED
  BY <1>1, <1>2, <1>3

\* The last share gives the one result there can be.
LEMMA PlainTextKeepsResult ==
  ASSUME TypeInv, TypeInv', FullSumInv, ResultInv, NEW n \in Parties, HandlePlainText(n)
  PROVE  ResultInv'
<1>1. PICK m \in Arriving(n, "PlainTextPart") : HandlePlainText(n)!(m)
  BY DEF HandlePlainText
<1>2. m \in Sent("PlainTextPart")
  BY DEF Arriving
<1>3. /\ partdec' = [partdec EXCEPT ![n] = @ \cup {m}]
      /\ rcvd' = [rcvd EXCEPT ![n] = @ \cup {m}]
      /\ UNCHANGED <<flag, sum, decPartNum, lengthDec, otherResult, report>>
  BY <1>1 DEF Take, ballotVars
<1>4. /\ Sent("CipherText")' = Sent("CipherText")
      /\ Sent("PlainTextPart")' = Sent("PlainTextPart")
  BY <1>1 DEF Send, Sent, VoteResult
<1>5. ShareOnce'
  BY <1>3, <1>4 DEF ResultInv, ShareOnce, SentBy, Rcvd, PlainTextPart, TypeInv, TypeOK
<1>6. \A p \in Parties : partdec'[p] \subseteq Sent("PlainTextPart")
  BY <1>2, <1>3 DEF ResultInv, SameResult, TypeInv, TypeOK
<1> DEFINE R == FinaDec(Sent("CipherText"), Sent("PlainTextPart"))
<1>7. R' = R
  BY <1>4 DEF FinaDec, Decrypts, Tally
<1>8. CASE ~EveryDecShare(n, partdec'[n])
  <2>1. Sent("VoteResult")' = Sent("VoteResult") /\ UNCHANGED result
    BY <1>1, <1>8 DEF Sent
  <2>. QED
    BY <1>3, <1>4, <1>5, <1>6, <1>7, <2>1 DEF ResultInv, SameResult, SentBy
<1>9. CASE EveryDecShare(n, partdec'[n])
  <2> DEFINE r == FinaDec(sum[n], partdec'[n])
  <2>1. /\ result' = [result EXCEPT ![n] = {r}]
        /\ Sent("VoteResult")' = Sent("VoteResult") \cup {VoteResult(n, r)}
    BY <1>1, <1>9 DEF Send, Sent, VoteResult
  <2>2. Cardinality(partdec'[n]) = lengthDec[n] /\ lengthDec[n] # 0
    <3>1. Cardinality(partdec'[n]) = lengthDec[n]
      BY <1>9 DEF EveryDecShare
    <3>2. IsFiniteSet(partdec'[n]) /\ partdec'[n] # {}
      BY <1>3, FS_Subset DEF TypeInv, TypeOK, CollectedWasSent
    <3>. QED
      BY <3>1, <3>2, FS_EmptySet
  <2>3. flag[n] /\ Cardinality(partdec'[n]) = Cardinality(Parties)
    BY <2>2 DEF ResultInv, ShareOnce
  <2>4. /\ sum[n] = Sent("CipherText") /\ partdec'[n] = Sent("PlainTextPart")
        /\ {s.from : s \in Sent("PlainTextPart")} = Parties
    BY <1>6, <2>3, SumIsAll, SharesAreAll
  <2>5. r = R
    BY <2>4
  <2>. HIDE DEF r, R
  <2>6. result' \in [Parties -> SUBSET Results] /\ result'[n] = {R}
    BY <2>1, <2>5 DEF TypeInv, TypeOK
  <2>7. \A p \in Parties : result[p] \subseteq {R}
    BY DEF ResultInv, SameResult, R
  <2>8. \A p \in Parties : result'[p] \subseteq {R} /\ result[p] \subseteq result'[p]
    BY <2>1, <2>5, <2>6, <2>7
  <2>9. ASSUME NEW p \in Parties, NEW v \in SentBy(p, "VoteResult")'
        PROVE  v.result \in result'[p]
    <3>1. v \in SentBy(p, "VoteResult") \/ (p = n /\ v.result = R)
      BY <2>1, <2>5 DEF SentBy, VoteResult
    <3>. QED
      BY <2>6, <2>8, <3>1 DEF ResultInv, SameResult
  <2>10. SameResult'
    <3>1. \A p \in Parties : \A x \in result'[p] : x = R'
      BY <1>7, <2>8
    <3>2. \A p \in Parties : /\ otherResult'[p] \subseteq Sent("VoteResult")'
                             /\ \A a \in report'[p] : a.shown \in result'[p] /\ a.isCorrect
      BY <1>3, <2>1, <2>8 DEF ResultInv, SameResult
    <3>. QED
      BY <1>4, <1>6, <2>4, <2>9, <3>1, <3>2 DEF SameResult, R
  <2>. QED
    BY <1>5, <2>10 DEF ResultInv
<1>. QED
  BY <1>8, <1>9

\* The verdict compares equal results.
LEMMA VoteResultKeepsResult ==
  ASSUME TypeInv, TypeInv', ResultInv, NEW n \in Parties, HandleVoteResult(n)
  PROVE  ResultInv'
<1>1. PICK m \in Arriving(n, "VoteResult") : HandleVoteResult(n)!(m)
  BY DEF HandleVoteResult
<1>2. m \in Sent("VoteResult")
  BY DEF Arriving
<1>3. /\ UNCHANGED <<flag, sum, decPartNum, lengthDec, partdec, result, sent>>
      /\ rcvd' = [rcvd EXCEPT ![n] = @ \cup {m}]
      /\ otherResult' = [otherResult EXCEPT
           ![n] = {o \in @ : o.from # m.from} \cup {m}]
  BY <1>1 DEF Take, ballotVars
<1>4. ShareOnce'
  BY <1>3 DEF ResultInv, ShareOnce, SentBy, Sent, Rcvd, PlainTextPart, TypeInv, TypeOK
<1>5. \A p \in Parties : otherResult'[p] \subseteq Sent("VoteResult")
  BY <1>2, <1>3 DEF ResultInv, SameResult, TypeInv, TypeOK
<1>6. \A v \in Sent("VoteResult") : v.from \in Parties /\ v.result \in result[v.from]
  <2>1. \A v \in Sent("VoteResult") : v.from \in Parties
    BY DEF TypeInv, TypeOK, Sent, Messages, Ballots, DecShares, ResultMsgs
  <2>. QED
    BY <2>1 DEF ResultInv, SameResult, SentBy
<1>7. ASSUME NEW r \in result[n], NEW v \in Sent("VoteResult") PROVE v.result = r
  BY <1>6 DEF ResultInv, SameResult
<1>8. ASSUME NEW p \in Parties, NEW a \in report'[p]
      PROVE  a.shown \in result[p] /\ a.isCorrect
  <2>1. CASE report'[p] = report[p]
    BY <2>1 DEF ResultInv, SameResult
  <2>2. CASE p = n /\ EveryResult(n, otherResult'[n])
    <3>1. PICK r \in result[n] :
            a = [shown |-> r, isCorrect |-> \A o \in otherResult'[n] : o.result = r]
      BY <1>1, <2>2 DEF TypeInv, TypeOK
    <3>. QED
      BY <1>5, <1>7, <2>2, <3>1
  <2>3. p # n \/ ~EveryResult(n, otherResult'[n]) => report'[p] = report[p]
    <3>1. \/ EveryResult(n, otherResult'[n])
             /\ \E S : report' = [report EXCEPT ![n] = S]
          \/ ~EveryResult(n, otherResult'[n]) /\ report' = report
      BY <1>1
    <3>. QED
      BY <3>1 DEF TypeInv, TypeOK
  <2>. QED
    BY <2>1, <2>2, <2>3
<1>9. SameResult'
  <2>1. /\ Sent("CipherText")' = Sent("CipherText")
        /\ Sent("PlainTextPart")' = Sent("PlainTextPart")
        /\ Sent("VoteResult")' = Sent("VoteResult")
    BY <1>3 DEF Sent
  <2>2. FinaDec(Sent("CipherText"), Sent("PlainTextPart"))'
          = FinaDec(Sent("CipherText"), Sent("PlainTextPart"))
    BY <2>1 DEF FinaDec, Decrypts, Tally
  <2>. QED
    BY <1>3, <1>5, <1>8, <2>1, <2>2 DEF ResultInv, SameResult, SentBy
<1>. QED
  BY <1>4, <1>9 DEF ResultInv

\* Nothing has been sent at first.
LEMMA ResultInit == Init => ResultInv
<1> SUFFICES ASSUME Init PROVE ResultInv
  OBVIOUS
<1>1. ShareOnce
  BY DEF Init, ShareOnce, SentBy, Sent
<1>2. SameResult
  BY DEF Init, SameResult, SentBy, Sent
<1>. QED
  BY <1>1, <1>2 DEF ResultInv

\* Every step keeps ResultInv, given the other invariants.
LEMMA ResultStep ==
  ASSUME MaxCalls = 1, TypeInv, TypeInv', FullSumInv, ResultInv, [Next]_vars
  PROVE  ResultInv'
<1>1. CASE UNCHANGED vars
  <2>1. ResultFrame
    BY <1>1 DEF vars, ballotVars, ResultFrame, Sent
  <2>. QED
    BY <2>1, FrameKeepsResult
<1>2. CASE BeginVote \/ SendVoteDetail
  BY <1>2, FramedSteps, FrameKeepsResult, PartiesAssumption
<1>3. ASSUME NEW n \in Parties, Loop(n) PROVE ResultInv'
  BY <1>3, FramedSteps, FrameKeepsResult, CipherTextKeepsResult, CoffinKeepsResult,
     PlainTextKeepsResult, VoteResultKeepsResult DEF Loop
<1>4. ASSUME NEW n \in Parties, Vote(n) PROVE ResultInv'
  BY <1>4, VoteKeepsResult
<1>5. ASSUME NEW n \in Parties, Return(n) PROVE ResultInv'
  BY <1>5, FramedSteps, FrameKeepsResult
<1>. QED
  BY <1>1, <1>2, <1>3, <1>4, <1>5 DEF Next

\* With one call at a time the invariants hold together.
RoundInv == TypeInv /\ FullSumInv /\ ResultInv

\* They hold throughout.
LEMMA RoundInvariant == MaxCalls = 1 => (Spec => []RoundInv)
<1> SUFFICES ASSUME MaxCalls = 1 PROVE Spec => []RoundInv
  OBVIOUS
<1>1. Init => ResultInv
  BY ResultInit
<1>2. TypeInv /\ TypeInv' /\ FullSumInv /\ ResultInv /\ [Next]_vars => ResultInv'
  BY ResultStep
<1>3. TypeInv /\ FullSumInv /\ ResultInv => RoundInv
  BY DEF RoundInv
<1>4. MaxCalls = 1 => (Spec => []FullSumInv)
  BY FullSums
<1>5. Spec => []FullSumInv
  BY <1>4
<1>. QED
  BY <1>1, <1>2, <1>3, <1>5, TypeInvariant, PTL DEF Spec

\* Every decryption share ever sent is its sender's only one and of the sum it
\* then held, and every result shown, sent or reported is what all the shares
\* decrypt (server.go:575-668): a phone never decrypts a part of the shares.
THEOREM ResultsHold == MaxCalls = 1 => (Spec => []ResultInv)
<1> SUFFICES ASSUME MaxCalls = 1 PROVE Spec => []ResultInv
  OBVIOUS
<1>1. RoundInv => ResultInv
  BY DEF RoundInv
<1>2. Spec => []RoundInv
  BY RoundInvariant
<1>. QED
  BY <1>1, <1>2, PTL

\* However many parties there are and whatever is late, phones that report a
\* result report the same one, and each says that the others agree: the verdict
\* of handleVoteResult (server.go:658-668) is never split.
THEOREM ReportsAlwaysAgree == MaxCalls = 1 => (Spec => []ReportsAgree)
<1> SUFFICES ASSUME MaxCalls = 1 PROVE Spec => []ReportsAgree
  OBVIOUS
<1>1. RoundInv => ReportsAgree
  BY DEF RoundInv, ResultInv, SameResult, ReportsAgree
<1>2. Spec => []RoundInv
  BY RoundInvariant
<1>. QED
  BY <1>1, <1>2, PTL

\* The shares of all parties, all of the sum of all ballots, decrypt it.
LEMMA AllSharesDecrypt ==
  ASSUME RoundInv, BallotsUnderJointKey,
         {s.from : s \in Sent("PlainTextPart")} = Parties
  PROVE  Decrypts(Sent("CipherText"), Sent("PlainTextPart"))
<1> DEFINE S == Sent("PlainTextPart")
<1>1. ASSUME NEW s \in S PROVE s.over = Sent("CipherText") /\ s.ids = Parties
  <2>1. s.from \in Parties
    BY ShareType DEF RoundInv
  <2>2. flag[s.from] /\ s = PlainTextPart(s.from, Parties, sum[s.from])
    BY <2>1 DEF RoundInv, ResultInv, ShareOnce, SentBy
  <2>3. sum[s.from] = Sent("CipherText")
    BY <2>1, <2>2, SumIsAll DEF RoundInv
  <2>. QED
    BY <2>2, <2>3 DEF PlainTextPart
<1>2. Cardinality(S) >= Threshold
  <2>1. IsFiniteSet(S)
    BY FS_Subset DEF RoundInv, TypeInv, CollectedWasSent, Sent
  <2> DEFINE sender == [s \in S |-> s.from]
  <2>2. sender \in Surjection(S, Parties)
    BY DEF Surjection
  <2>3. Cardinality(Parties) <= Cardinality(S)
    BY <2>1, <2>2, FS_Surjection
  <2>4. Cardinality(S) \in Nat /\ Threshold \in Nat
    BY <2>1, FS_CardinalityType, PartiesCardinality DEF Threshold
  <2>. QED
    BY <2>3, <2>4, ThresholdReached, PartiesCardinality
<1>. QED
  BY <1>1, <1>2 DEF Decrypts, BallotsUnderJointKey

\* A reported result is the count of the ballots that were cast.
LEMMA ReportIsCount ==
  ASSUME RoundInv, BallotsUnderJointKey, NEW p \in Parties, NEW a \in report[p]
  PROVE  /\ a.shown = [votes |-> Tally(Sent("CipherText")), noise |-> {}]
         /\ {s.from : s \in Sent("PlainTextPart")} = Parties
<1>1. /\ a.shown = FinaDec(Sent("CipherText"), Sent("PlainTextPart"))
      /\ {s.from : s \in Sent("PlainTextPart")} = Parties
  BY DEF RoundInv, ResultInv, SameResult
<1>. QED
  BY <1>1, AllSharesDecrypt DEF FinaDec

\* What a phone shows as correct is the count of the ballots the parties cast,
\* for any number of parties, as long as no ballot is under a key of its own.
THEOREM CorrectIsCounted == MaxCalls = 1 => (Spec => []CorrectMeansCounted)
<1> SUFFICES ASSUME MaxCalls = 1 PROVE Spec => []CorrectMeansCounted
  OBVIOUS
<1>1. RoundInv => CorrectMeansCounted
  BY ReportIsCount DEF CorrectMeansCounted
<1>2. Spec => []RoundInv
  BY RoundInvariant
<1>. QED
  BY <1>1, <1>2, PTL

-----------------------------------------------------------------------------
(* KeyInv is inductive *)

\* What it speaks of and most steps leave alone: a phone may only go further
\* once it has the joint key.
KeyFrame ==
  /\ Sent("PolyResult")' = Sent("PolyResult")
  /\ Sent("PubKeyPart")' = Sent("PubKeyPart")
  /\ \A c \in Sent("CipherText")' : c \in Sent("CipherText") \/ c.under = "Joint"
  /\ UNCHANGED keyVars
  /\ \A n \in Parties :
       /\ stat'[n] # stat[n] => stat[n] \notin EarlyStates /\ stat'[n] \notin EarlyStates
       /\ stat[n] \in EarlyStates => calls'[n] = calls[n]
       /\ Rcvd(n, "PubKeyPart")' = Rcvd(n, "PubKeyPart")

\* A step that leaves all that alone keeps KeyInv.
LEMMA FrameKeepsKey ==
  ASSUME TypeInv, KeyInv, KeyFrame
  PROVE  KeyInv'
<1> USE DEF KeyFrame, keyVars
<1>0. EarlyStates' = EarlyStates /\ "Confirmed" \in EarlyStates
  BY DEF EarlyStates
<1>1. DealtFirst'
  <2>1. \A q \in Parties : stat'[q] # "Confirmed" <=> stat[q] # "Confirmed"
    BY <1>0
  <2>2. \A m \in Sent("PolyResult") : m.from \in Parties
    BY DEF TypeInv, TypeOK, Sent, Messages, Ballots, DecShares, ResultMsgs
  <2>3. \A q \in Parties : skInf[q] \subseteq Parties
    BY DEF TypeInv, TypeOK
  <2>. QED
    BY <2>1, <2>2, <2>3 DEF KeyInv, DealtFirst
<1>2. NoPartDropped'
  BY <1>0 DEF KeyInv, NoPartDropped
<1>3. \A n \in Parties : stat'[n] \notin EarlyStates => pk'[n] = "Joint"
  BY DEF KeyInv
<1>. QED
  BY <1>0, <1>1, <1>2, <1>3 DEF KeyInv

\* The steps that come after the joint key.
LEMMA LateSteps ==
  ASSUME TypeInv, KeyInv, NEW n \in Parties,
         \/ HandleCipherText(n) \/ HandleCoffin(n) \/ HandlePlainText(n)
         \/ HandleVoteResult(n) \/ Return(n) \/ Vote(n)
         \/ SendVoteDetail \/ BeginVote
  PROVE  KeyFrame
<1> USE DEF KeyFrame, EarlyStates, TypeInv, TypeOK, Expects
<1>1. CASE HandleCipherText(n)
  BY <1>1 DEF HandleCipherText, CipherTextStates, Take, Become, Send, Sent, ID, Rcvd,
     Arriving, envVars
<1>2. CASE HandleCoffin(n)
  BY <1>2 DEF HandleCoffin, IDStates, Take, Become, Send, Sent, PlainTextPart, Rcvd,
     Arriving, envVars
<1>3. CASE HandlePlainText(n)
  BY <1>3 DEF HandlePlainText, PlainTextPartStates, Take, Become, Send, Sent, VoteResult,
     Rcvd, Arriving, envVars
<1>4. CASE HandleVoteResult(n)
  BY <1>4 DEF HandleVoteResult, VoteResultStates, Take, Become, Send, Sent, Rcvd,
     Arriving, envVars
<1>5. CASE Return(n)
  <2>1. stat[n] \notin EarlyStates
    BY <1>5 DEF Return, KeyInv, NoPartDropped
  <2>. QED
    BY <1>5, <2>1 DEF Return, Become, Sent, Rcvd, Calls
<1>6. CASE Vote(n)
  <2>1. PICK t \in Tickets \cup {Abstain} : SendVote(n, t)
    BY <1>6 DEF Vote
  <2>2. stat[n] = "GotDetail" /\ pk[n] = "Joint"
    BY <2>1 DEF SendVote, MayVote, KeyInv
  <2>. QED
    BY <2>1, <2>2 DEF SendVote, Enter, Send, Sent, CipherText, Rcvd
<1>7. CASE SendVoteDetail
  BY <1>7, PartiesAssumption DEF SendVoteDetail, Enter, Send, Sent, VoteDetail, Rcvd
<1>8. CASE BeginVote
  BY <1>8 DEF BeginVote, Send, Sent, VoteParams, Rcvd, envVars
<1>. QED
  BY <1>1, <1>2, <1>3, <1>4, <1>5, <1>6, <1>7, <1>8

\* A part that is not expected any more does not matter, one that is not yet
\* expected does not exist.
LEMMA IgnoreKeepsKey ==
  ASSUME TypeInv, KeyInv, NEW n \in Parties, NEW type \in MessageTypes, Ignore(n, type)
  PROVE  KeyInv'
<1> USE DEF TypeInv, TypeOK
<1>1. PICK m \in Arriving(n, type) :
        /\ Take(n, m)
        /\ stat[n] \notin Expects[type] \/ type = "VoteDetail"
        /\ UNCHANGED <<stat, keyVars, calls, sent>>
  BY DEF Ignore, envVars
<1>2. CASE type # "PubKeyPart" \/ stat[n] \notin EarlyStates
  <2>1. \A p \in Parties : stat[p] \in EarlyStates =>
          Rcvd(p, "PubKeyPart")' = Rcvd(p, "PubKeyPart")
    BY <1>1, <1>2 DEF Take, Rcvd, Arriving, Sent
  <2>2. DealtFirst'
    BY <1>1 DEF KeyInv, DealtFirst, Sent, keyVars
  <2>3. NoPartDropped'
    BY <1>1, <2>1 DEF KeyInv, NoPartDropped, EarlyStates, keyVars
  <2>. QED
    BY <1>1, <2>2, <2>3 DEF KeyInv, Sent, EarlyStates, keyVars
<1>3. CASE type = "PubKeyPart" /\ stat[n] \in EarlyStates
  <2>1. stat[n] = "Confirmed"
    BY <1>1, <1>3 DEF Expects, PubKeyPartStates, EarlyStates
  <2>2. Sent("PubKeyPart") # {}
    BY <1>1, <1>3 DEF Arriving
  <2>. QED
    BY <2>1, <2>2 DEF KeyInv, DealtFirst
<1>. QED
  BY <1>2, <1>3

\* A phone that hears of a ballot's candidates has all parts of the key.
LEMMA DetailKeepsKey ==
  ASSUME "detail" \notin Races, TypeInv, KeyInv, NEW n \in Parties, HandleVoteDetail(n)
  PROVE  KeyFrame
<1> USE DEF TypeInv, TypeOK
<1>1. PICK m \in Arriving(n, "VoteDetail") :
        /\ Take(n, m)
        /\ stat[n] \in VoteDetailStates
        /\ Become(n, "GotDetail")
        /\ UNCHANGED <<keyVars, calls, sent>>
  BY DEF HandleVoteDetail, Expects, envVars
<1>2. Cardinality(Rcvd(n, "PubKeyPart")) = Cardinality(Parties)
  BY DEF Arriving, Sent, InOrder
<1>3. \A o \in Rcvd(n, "PubKeyPart") : o.from \in Parties /\ o = PubKeyPart(o.from)
  BY DEF Rcvd, Messages, Ballots, DecShares, ResultMsgs, PubKeyPart
<1>4. {o.from : o \in Rcvd(n, "PubKeyPart")} = Parties
  BY <1>2, <1>3, AllSenders
<1>5. stat[n] \notin EarlyStates
  BY <1>1, <1>4 DEF KeyInv, NoPartDropped, VoteDetailStates, EarlyStates
<1>. QED
  BY <1>1, <1>5 DEF KeyFrame, Become, Take, Rcvd, Sent, Arriving, EarlyStates

\* Dealing: nobody has published a part yet, since this phone had not dealt.
LEMMA VoteParamsKeepsKey ==
  ASSUME TypeInv, KeyInv, NEW n \in Parties, HandleVoteParams(n)
  PROVE  KeyInv'
<1> USE DEF TypeInv, TypeOK
<1>1. PICK m \in Arriving(n, "VoteParams") : HandleVoteParams(n)!(m)
  BY DEF HandleVoteParams
<1>2. /\ stat[n] = "Confirmed"
      /\ stat' = [stat EXCEPT ![n] = "GotParams"]
      /\ parties' = [parties EXCEPT ![n] = Parties]
      /\ skInf' = [skInf EXCEPT ![n] = @ \cup {n}]
      /\ pk' = [pk EXCEPT ![n] = n]
      /\ UNCHANGED <<partPubKey, calls>>
  BY <1>1 DEF Expects, VoteParamsStates, Become, FindPeers, envVars
<1>3. Sent("PubKeyPart") = {}
  BY <1>2 DEF KeyInv, DealtFirst
<1>4. /\ Sent("PubKeyPart")' = {}
      /\ Sent("CipherText")' = Sent("CipherText")
      /\ Sent("PolyResult")' = Sent("PolyResult") \cup {PolyResult(n, q) : q \in Parties \ {n}}
  BY <1>1, <1>3 DEF Send, Sent, PolyResult
<1>5. \A p \in Parties : Rcvd(p, "PubKeyPart") = {} /\ Rcvd(p, "PubKeyPart")' = {}
  <2>1. rcvd' = [rcvd EXCEPT ![n] = @ \cup {m}] /\ m.type = "VoteParams"
    BY <1>1 DEF Take, Arriving, Sent
  <2>. QED
    BY <1>3, <2>1 DEF Rcvd, Sent, CollectedWasSent
<1>6. \A q \in Parties : stat[q] # "Confirmed" => stat'[q] # "Confirmed"
  BY <1>2
<1>7. DealtFirst'
  <2>1. \A p \in Parties : stat'[p] # "Confirmed" => parties'[p] = Parties
    BY <1>2 DEF KeyInv, DealtFirst
  <2>2. ASSUME NEW p \in Parties, NEW q \in skInf'[p] PROVE stat'[q] # "Confirmed"
    <3>1. q \in skInf[p] \/ q = n
      BY <1>2
    <3>. QED
      BY <1>2, <1>6, <2>2, <3>1 DEF KeyInv, DealtFirst
  <2>3. ASSUME NEW o \in Sent("PolyResult")' PROVE stat'[o.from] # "Confirmed"
    <3>1. o \in Sent("PolyResult") \/ o.from = n
      BY <1>4 DEF PolyResult
    <3>2. \A v \in Sent("PolyResult") : v.from \in Parties
      BY DEF Sent, Messages, Ballots, DecShares, ResultMsgs
    <3>. QED
      BY <1>2, <1>6, <3>1, <3>2 DEF KeyInv, DealtFirst
  <2>. QED
    BY <1>4, <2>1, <2>2, <2>3 DEF DealtFirst
<1>8. NoPartDropped'
  <2>1. \A p \in Parties : stat'[p] \in EarlyStates => stat[p] \in EarlyStates
    BY <1>2 DEF EarlyStates
  <2>2. \A p \in Parties : stat'[p] \in EarlyStates => partPubKey'[p] = {} /\ calls'[p] = {}
    BY <1>2, <1>5, <2>1 DEF KeyInv, NoPartDropped
  <2>3. Parties # {}
    BY PartiesAssumption
  <2>. QED
    BY <1>5, <2>2, <2>3 DEF NoPartDropped, EarlyStates
<1>9. \A p \in Parties : stat'[p] \notin EarlyStates => pk'[p] = "Joint"
  BY <1>2 DEF KeyInv, EarlyStates
<1>. QED
  BY <1>4, <1>7, <1>8, <1>9 DEF KeyInv, EarlyStates

\* A phone publishes its part when it has everybody's share: all have dealt.
LEMMA PolyResultKeepsKey ==
  ASSUME TypeInv, KeyInv, NEW n \in Parties, HandlePolyResult(n)
  PROVE  KeyInv'
<1> USE DEF TypeInv, TypeOK
<1>1. PICK m \in Arriving(n, "PolyResult") : HandlePolyResult(n)!(m)
  BY DEF HandlePolyResult
<1>2. m \in Sent("PolyResult") /\ m.from \in Parties /\ stat[m.from] # "Confirmed"
  <2>1. m \in Sent("PolyResult")
    BY DEF Arriving
  <2>2. m.from \in Parties
    BY <2>1 DEF Sent, Messages, Ballots, DecShares, ResultMsgs
  <2>. QED
    BY <2>1, <2>2 DEF KeyInv, DealtFirst
<1>3. /\ UNCHANGED <<pk, parties, partPubKey, calls>>
      /\ skInf' = skInf \/ skInf' = [skInf EXCEPT ![n] = @ \cup {m.from}]
      /\ stat[n] \in {"GotParams", "Confirmed"}
  BY <1>1 DEF Expects, PolyResultStates
<1>4. \A p \in Parties : Rcvd(p, "PubKeyPart")' = Rcvd(p, "PubKeyPart")
  BY <1>1, <1>2 DEF Take, Rcvd, Sent
<1>5. /\ Sent("CipherText")' = Sent("CipherText")
      /\ Sent("PolyResult")' = Sent("PolyResult")
  BY <1>1 DEF Send, Sent, PubKeyPart
<1>6. \A p \in Parties : \A q \in skInf'[p] : stat[q] # "Confirmed"
  BY <1>2, <1>3 DEF KeyInv, DealtFirst
<1>7. CASE UNCHANGED <<sent, stat>>
  <2>1. DealtFirst'
    BY <1>3, <1>6, <1>7 DEF KeyInv, DealtFirst, Sent
  <2>2. NoPartDropped'
    BY <1>3, <1>4, <1>7 DEF KeyInv, NoPartDropped, EarlyStates
  <2>. QED
    BY <1>3, <1>5, <1>7, <2>1, <2>2 DEF KeyInv, EarlyStates
<1>8. CASE /\ skInf' = [skInf EXCEPT ![n] = @ \cup {m.from}]
           /\ EverySecretShare(n, skInf'[n])
           /\ Send({PubKeyPart(n)}) /\ Become(n, "SentPki")
  <2>1. skInf'[n] = Parties
    <3>1. skInf'[n] \subseteq Parties /\ skInf'[n] # {}
      BY <1>2, <1>8
    <3>2. Cardinality(skInf'[n]) # 0
      BY <3>1, PartiesAssumption, FS_Subset, FS_EmptySet
    <3>3. parties[n] = Parties /\ Cardinality(skInf'[n]) = Cardinality(Parties)
      BY <1>8, <3>2, FS_EmptySet DEF EverySecretShare
    <3>. QED
      BY <3>1, <3>3, AllParties, PartiesCardinality
  <2>2. \A q \in Parties : stat[q] # "Confirmed"
    BY <1>6, <2>1
  <2>3. stat' = [stat EXCEPT ![n] = "SentPki"] /\ stat[n] = "GotParams"
    BY <1>3, <1>8, <2>2 DEF Become
  <2>4. \A q \in Parties : stat'[q] # "Confirmed"
    BY <2>2, <2>3
  <2>5. DealtFirst'
    <3>1. \A v \in Sent("PolyResult") : v.from \in Parties
      BY DEF Sent, Messages, Ballots, DecShares, ResultMsgs
    <3>2. skInf' \in [Parties -> SUBSET Parties]
      BY <1>2, <1>3
    <3>. QED
      BY <1>3, <1>5, <2>2, <2>4, <3>1, <3>2 DEF KeyInv, DealtFirst
  <2>6. NoPartDropped'
    <3>1. \A p \in Parties : stat'[p] \in EarlyStates => stat[p] \in EarlyStates
      BY <2>3 DEF EarlyStates
    <3>. QED
      BY <1>3, <1>4, <2>2, <3>1 DEF KeyInv, NoPartDropped, EarlyStates
  <2>7. \A p \in Parties : stat'[p] \notin EarlyStates => pk'[p] = "Joint"
    BY <1>3, <2>3 DEF KeyInv, EarlyStates
  <2>. QED
    BY <1>5, <2>5, <2>6, <2>7 DEF KeyInv, EarlyStates
<1>. QED
  BY <1>1, <1>7, <1>8

\* The joint key is made of everybody's part and of nothing less.
LEMMA PubKeyPartKeepsKey ==
  ASSUME TypeInv, KeyInv, NEW n \in Parties, HandlePubKeyPart(n)
  PROVE  KeyInv'
<1> USE DEF TypeInv, TypeOK
<1>1. PICK m \in Arriving(n, "PubKeyPart") : HandlePubKeyPart(n)!(m)
  BY DEF HandlePubKeyPart
<1>2. m \in Sent("PubKeyPart") /\ m.from \in Parties
  BY DEF Arriving, Sent, Messages, Ballots, DecShares, ResultMsgs
<1>3. /\ UNCHANGED <<parties, skInf, calls, sent>>
      /\ partPubKey' = [partPubKey EXCEPT ![n] = @ \cup {m.from}]
      /\ rcvd' = [rcvd EXCEPT ![n] = @ \cup {m}]
      /\ stat[n] \in {"GotParams", "SentPki"}
  BY <1>1 DEF Expects, PubKeyPartStates, Take, envVars
<1>4. \A p \in Parties : stat[p] # "Confirmed"
  BY <1>2 DEF KeyInv, DealtFirst
<1>5. parties[n] = Parties /\ partPubKey'[n] \subseteq Parties
  BY <1>2, <1>3, <1>4 DEF KeyInv, DealtFirst
<1>6. \A p \in Parties : stat[p] \in EarlyStates =>
        partPubKey'[p] = {o.from : o \in Rcvd(p, "PubKeyPart")'}
  <2>1. m.type = "PubKeyPart"
    BY <1>2 DEF Sent
  <2>2. Rcvd(n, "PubKeyPart")' = Rcvd(n, "PubKeyPart") \cup {m}
    BY <1>3, <2>1 DEF Rcvd
  <2>3. \A p \in Parties \ {n} : Rcvd(p, "PubKeyPart")' = Rcvd(p, "PubKeyPart")
    BY <1>3 DEF Rcvd
  <2>. QED
    BY <1>3, <2>2, <2>3 DEF KeyInv, NoPartDropped
<1>7. CASE EveryKeyPart(n, partPubKey'[n])
  <2>1. partPubKey'[n] = Parties
    BY <1>5, <1>7, AllParties DEF EveryKeyPart
  <2>2. GenPk(n, partPubKey'[n]) = "Joint"
    BY <2>1, ThresholdReached DEF GenPk
  <2>3. stat' = [stat EXCEPT ![n] = "GotPK"] /\ pk' = [pk EXCEPT ![n] = "Joint"]
    BY <1>1, <1>7, <2>2 DEF Become
  <2>4. DealtFirst'
    BY <1>3, <1>4, <2>3 DEF KeyInv, DealtFirst, Sent
  <2>5. NoPartDropped'
    BY <1>3, <1>6, <2>3 DEF KeyInv, NoPartDropped, EarlyStates
  <2>6. \A p \in Parties : stat'[p] \notin EarlyStates => pk'[p] = "Joint"
    BY <2>3 DEF KeyInv
  <2>. QED
    BY <1>3, <2>4, <2>5, <2>6 DEF KeyInv, Sent, EarlyStates
<1>8. CASE ~EveryKeyPart(n, partPubKey'[n])
  <2>1. UNCHANGED <<stat, pk>>
    BY <1>1, <1>8
  <2>2. partPubKey'[n] # Parties
    BY <1>5, <1>8, PartiesCardinality DEF EveryKeyPart
  <2>3. DealtFirst'
    BY <1>3, <2>1 DEF KeyInv, DealtFirst, Sent
  <2>4. NoPartDropped'
    BY <1>3, <1>6, <2>1, <2>2 DEF KeyInv, NoPartDropped, EarlyStates
  <2>. QED
    BY <1>3, <2>1, <2>3, <2>4 DEF KeyInv, Sent, EarlyStates
<1>. QED
  BY <1>7, <1>8

\* Every step keeps KeyInv when "detail" is no race.
LEMMA KeyStep ==
  ASSUME "detail" \notin Races, TypeInv, KeyInv, [Next]_vars
  PROVE  KeyInv'
<1>1. CASE UNCHANGED vars
  <2>1. KeyFrame
    BY <1>1 DEF vars, keyVars, envVars, KeyFrame, Sent, Rcvd
  <2>. QED
    BY <2>1, FrameKeepsKey
<1>2. CASE BeginVote \/ SendVoteDetail
  BY <1>2, LateSteps, FrameKeepsKey, PartiesAssumption
<1>3. ASSUME NEW n \in Parties, Loop(n) PROVE KeyInv'
  BY <1>3, LateSteps, DetailKeepsKey, FrameKeepsKey, VoteParamsKeepsKey,
     PolyResultKeepsKey, PubKeyPartKeepsKey, IgnoreKeepsKey DEF Loop
<1>4. ASSUME NEW n \in Parties, Vote(n) \/ Return(n) PROVE KeyInv'
  BY <1>4, LateSteps, FrameKeepsKey
<1>. QED
  BY <1>1, <1>2, <1>3, <1>4 DEF Next

\* KeyInv holds throughout: shares are dealt before any part is published, and
\* no part is dropped before the joint key (server.go:427-472).
THEOREM KeyInvariant == "detail" \notin Races => (Spec => []KeyInv)
<1> SUFFICES ASSUME "detail" \notin Races PROVE Spec => []KeyInv
  OBVIOUS
<1>1. Init => KeyInv
  BY PartiesAssumption DEF Init, KeyInv, DealtFirst, NoPartDropped, EarlyStates, Sent, Rcvd
<1>2. TypeInv /\ KeyInv /\ [Next]_vars => KeyInv'
  BY KeyStep
<1>. QED
  BY <1>1, <1>2, TypeInvariant, PTL DEF Spec

\* For any number of parties and whatever else is late, also with calls that
\* overlap: if VoteDetail comes after the parts of the key, every ballot is
\* encrypted under the joint key.
THEOREM JointKey == "detail" \notin Races => (Spec => []BallotsUnderJointKey)
<1> SUFFICES ASSUME "detail" \notin Races PROVE Spec => []BallotsUnderJointKey
  OBVIOUS
<1>1. KeyInv => BallotsUnderJointKey
  BY DEF KeyInv, BallotsUnderJointKey
<1>2. Spec => []KeyInv
  BY KeyInvariant
<1>. QED
  BY <1>1, <1>2, PTL

-----------------------------------------------------------------------------
(* VoteRound implements Ballot *)

\* Counting messages and counting voters is the same: one ballot each.
LEMMA CountIsTally ==
  ASSUME RoundInv
  PROVE  Election!Count = Tally(Sent("CipherText"))
<1> DEFINE B == Sent("CipherText")
<1>1. \A c \in B : c.from \in Parties
  BY DEF RoundInv, TypeInv, TypeOK, Sent, Messages, Ballots, DecShares, ResultMsgs
<1>2. \A c, d \in B : c.from = d.from => c = d
  BY DEF RoundInv, FullSumInv, OneBallotEach
<1>3. ASSUME NEW t \in Tickets
      PROVE  Cardinality({p \in Parties : cast[p] = {t}}) = Cardinality({c \in B : c.ticket = t})
  <2> DEFINE Voters == {p \in Parties : cast[p] = {t}}
             Such == {c \in B : c.ticket = t}
             voter == [c \in Such |-> c.from]
  <2>1. \A p \in Parties : cast[p] = {c.ticket : c \in {d \in B : d.from = p}}
    BY DEF cast, SentBy
  <2>2. \A c \in Such : c.from \in Voters
    <3> SUFFICES ASSUME NEW c \in Such PROVE cast[c.from] = {t}
      BY <1>1
    <3>1. {d \in B : d.from = c.from} = {c}
      BY <1>2
    <3>. QED
      BY <1>1, <2>1, <3>1
  <2>3. \A p \in Voters : \E c \in Such : c.from = p
    BY <2>1
  <2>4. voter \in Bijection(Such, Voters)
    <3>1. voter \in [Such -> Voters]
      BY <2>2
    <3>2. \A c, d \in Such : voter[c] = voter[d] => c = d
      BY <1>2
    <3>3. \A p \in Voters : \E c \in Such : voter[c] = p
      BY <2>3
    <3>. HIDE DEF voter, Such, Voters
    <3>. QED
      BY <3>1, <3>2, <3>3 DEF Bijection, Injection, Surjection, IsInjective
  <2>5. IsFiniteSet(Such)
    BY FS_Subset DEF RoundInv, TypeInv, CollectedWasSent, Sent
  <2>. QED
    <3>. HIDE DEF Such, Voters
    <3>1. Cardinality(Voters) = Cardinality(Such)
      BY <2>4, <2>5, FS_Bijection DEF ExistsBijection
    <3>. QED
      BY <3>1 DEF Such, Voters
<1> DEFINE voters(t) == Cardinality({p \in Parties : cast[p] = {t}})
           ballots(t) == Cardinality({c \in B : c.ticket = t})
<1>4. \A t \in Tickets : voters(t) = ballots(t)
  BY <1>3
\* Ballot's Cardinality is the same function under another name.
<1>5. Election!Count = [t \in Tickets |-> voters(t)]
  BY DEF Election!Count, Election!Cardinality, Cardinality
<1>6. Tally(Sent("CipherText")) = [t \in Tickets |-> ballots(t)]
  BY DEF Tally
<1>. HIDE DEF voters, ballots
<1>. QED
  BY <1>4, <1>5, <1>6

\* At first nobody has cast and nobody has been told.
LEMMA ElectionInit == Init => Election!Init
<1> SUFFICES ASSUME Init PROVE Election!Init
  OBVIOUS
<1>1. cast = [p \in Parties |-> {}] /\ told = [p \in Parties |-> {}]
  BY DEF Init, cast, told, SentBy, Sent
<1>. QED
  BY <1>1 DEF Election!Init

\* Sending a ballot casts it.
LEMMA VoteCasts ==
  ASSUME MaxCalls = 1, RoundInv, NEW n \in Parties, Vote(n)
  PROVE  Election!Cast(n)
<1> USE DEF RoundInv, TypeInv, TypeOK
<1>1. PICK t \in Tickets \cup {Abstain} : SendVote(n, t)
  BY DEF Vote
<1>2. PICK b : /\ b.type = "CipherText" /\ b.from = n /\ b.ticket = t
               /\ sent' = sent \cup {b}
  BY <1>1 DEF SendVote, Send, CipherText
<1>3. calls[n] = {} /\ report' = report
  BY <1>1, EnterAlone DEF SendVote, resultVars
<1>4. SentBy(n, "CipherText") = {}
  BY <1>1, <1>3 DEF SendVote, MayVote, VotesOnce, PastBallot, FullSumInv, HasVoted, SentBy
<1>5. /\ SentBy(n, "CipherText")' = {b}
      /\ \A p \in Parties \ {n} : SentBy(p, "CipherText")' = SentBy(p, "CipherText")
  BY <1>2, <1>4 DEF SentBy, Sent
<1>6. cast[n] = {} /\ cast' = [cast EXCEPT ![n] = {t}]
  <2>1. cast[n] = {}
    BY <1>4 DEF cast
  <2>2. cast'[n] = {t}
    BY <1>2, <1>5 DEF cast
  <2>3. \A p \in Parties \ {n} : cast'[p] = cast[p]
    BY <1>5 DEF cast
  <2>. QED
    BY <2>1, <2>2, <2>3 DEF cast
<1>7. told' = told
  BY <1>3 DEF told
<1>. QED
  BY <1>6, <1>7 DEF Election!Cast

\* A report tells the count, and only after everybody has cast.
LEMMA ReportTells ==
  ASSUME RoundInv, RoundInv', KeyInv, NEW n \in Parties, HandleVoteResult(n)
  PROVE  Election!Tell(n) \/ UNCHANGED <<cast, told>>
<1> USE DEF RoundInv, TypeInv, TypeOK
<1>1. PICK m \in Arriving(n, "VoteResult") : HandleVoteResult(n)!(m)
  BY DEF HandleVoteResult
<1>2. cast' = cast
  BY <1>1 DEF cast, SentBy, Sent
<1>3. CASE ~EveryResult(n, otherResult'[n])
  <2>1. report' = report
    BY <1>1, <1>3
  <2>. QED
    BY <1>2, <2>1 DEF told
<1>4. CASE EveryResult(n, otherResult'[n])
  <2> DEFINE verdict(r) == [shown |-> r, isCorrect |-> \A o \in otherResult'[n] : o.result = r]
             Reported == {verdict(r) : r \in result[n]}
  <2>1. report' = [report EXCEPT ![n] = Reported] /\ result[n] # {}
    BY <1>1, <1>4 DEF EveryResult
  <2>2. report'[n] # {} /\ \A p \in Parties \ {n} : report'[p] = report[p]
    <3>. HIDE DEF verdict
    <3>1. Reported # {}
      BY <2>1
    <3>. HIDE DEF Reported
    <3>. QED
      BY <2>1, <3>1
  <2>3. Sent("CipherText")' = Sent("CipherText")
    BY <1>1 DEF Sent
  <2>4. BallotsUnderJointKey /\ BallotsUnderJointKey'
    BY <2>3 DEF KeyInv, BallotsUnderJointKey
  <2> DEFINE C == Tally(Sent("CipherText"))
  <2>5. \A a \in report[n] : a.shown.votes = C
    BY <2>4, ReportIsCount
  <2>6. \A a \in report'[n] : a.shown.votes = C
    <3>1. ASSUME NEW r \in result[n] PROVE r.votes = C
      <4>1. /\ r = FinaDec(Sent("CipherText"), Sent("PlainTextPart"))
            /\ {s.from : s \in Sent("PlainTextPart")} = Parties
        BY DEF ResultInv, SameResult
      <4>. QED
        BY <2>4, <4>1, AllSharesDecrypt DEF FinaDec
    <3>. QED
      BY <2>1, <3>1
  <2>. HIDE DEF C
  <2>7. told'[n] = {C}
    BY <2>2, <2>6 DEF told
  <2>8. \A p \in Parties \ {n} : told'[p] = told[p]
    BY <2>2 DEF told
  <2>9. CASE told[n] = {}
    <3>1. \A q \in Parties : cast[q] # {}
      <4>1. PICK r \in result[n] : {s.from : s \in Sent("PlainTextPart")} = Parties
        BY <2>1 DEF ResultInv, SameResult
      <4>2. PICK s \in Sent("PlainTextPart") : s.from = n
        <5>1. n \in {s.from : s \in Sent("PlainTextPart")}
          BY <4>1
        <5>. QED
          BY <5>1
      <4>3. flag[n]
        BY <4>2 DEF ResultInv, ShareOnce, SentBy
      <4>4. FullSum(Sent("CipherText"))
        BY <4>3, SumIsAll
      <4>5. ASSUME NEW q \in Parties PROVE \E c \in SentBy(q, "CipherText") : TRUE
        <5>1. q \in {c.from : c \in Sent("CipherText")}
          BY <4>4 DEF FullSum
        <5>. QED
          BY <5>1 DEF SentBy
      <4>. QED
        BY <4>5 DEF cast
    <3>2. told' = [told EXCEPT ![n] = {Election!Count}]
      BY <2>7, <2>8, CountIsTally DEF told, C
    <3>. QED
      BY <1>2, <2>9, <3>1, <3>2 DEF Election!Tell
  <2>10. CASE told[n] # {}
    <3>1. told[n] = {C}
      BY <2>5, <2>10 DEF told
    <3>2. told' = told
      BY <2>7, <2>8, <3>1 DEF told
    <3>. QED
      BY <1>2, <3>2
  <2>. QED
    BY <2>9, <2>10
<1>. QED
  BY <1>3, <1>4

\* Every step of a round casts, tells or is none of Ballot's business.
LEMMA ElectionStep ==
  ASSUME MaxCalls = 1, RoundInv, RoundInv', KeyInv, [Next]_vars
  PROVE  [Election!Next]_<<cast, told>>
<1>1. ASSUME Sent("CipherText")' = Sent("CipherText"), report' = report
      PROVE  UNCHANGED <<cast, told>>
  BY <1>1 DEF cast, told, SentBy
<1>2. CASE UNCHANGED vars
  BY <1>1, <1>2 DEF vars, resultVars, Sent
<1>3. CASE BeginVote \/ SendVoteDetail
  BY <1>1, <1>3, FramedSteps, PartiesAssumption DEF ResultFrame, resultVars, RoundInv
<1>4. ASSUME NEW n \in Parties, Loop(n) PROVE [Election!Next]_<<cast, told>>
  <2>1. CASE HandleVoteResult(n)
    BY <2>1, ReportTells DEF Election!Next
  <2>2. CASE ~HandleVoteResult(n)
    <3>1. Sent("CipherText")' = Sent("CipherText")
      BY <1>4, LoopKeeps DEF Keeps, RoundInv
    <3>2. report' = report
      BY <1>4, <2>2 DEF Loop, HandleVoteParams, HandlePolyResult, HandlePubKeyPart,
         HandleVoteDetail, HandleCipherText, HandleCoffin, HandlePlainText, Ignore, resultVars
    <3>. QED
      BY <1>1, <3>1, <3>2
  <2>. QED
    BY <2>1, <2>2
<1>5. ASSUME NEW n \in Parties, Vote(n) PROVE [Election!Next]_<<cast, told>>
  BY <1>5, VoteCasts DEF Election!Next
<1>6. ASSUME NEW n \in Parties, Return(n) PROVE [Election!Next]_<<cast, told>>
  BY <1>1, <1>6, FramedSteps DEF ResultFrame, resultVars, RoundInv
<1>. QED
  BY <1>2, <1>3, <1>4, <1>5, <1>6 DEF Next

\* For any number of parties, if phones make one call at a time and VoteDetail
\* comes after the parts of the key, a round keeps what a vote promises: one
\* ballot each, nobody is told anything before all have cast, and whoever is
\* told is told the count.
THEOREM RoundIsBallot ==
  MaxCalls = 1 /\ "detail" \notin Races => (Spec => ImplementsBallot)
<1> SUFFICES ASSUME MaxCalls = 1, "detail" \notin Races PROVE Spec => ImplementsBallot
  OBVIOUS
<1>1. Init => Election!Init
  BY ElectionInit
<1>2. RoundInv /\ RoundInv' /\ KeyInv /\ [Next]_vars => [Election!Next]_<<cast, told>>
  BY ElectionStep
<1>3. Spec => []RoundInv
  BY RoundInvariant
<1>4. Spec => []KeyInv
  BY KeyInvariant
<1>. QED
  BY <1>1, <1>2, <1>3, <1>4, PTL DEF Spec, ImplementsBallot, Election!Spec
=============================================================================
