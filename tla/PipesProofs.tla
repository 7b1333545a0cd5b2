---------------------------- MODULE PipesProofs ----------------------------
(* The theorems about Pipes: types, and that few enough parties never block. *)
EXTENDS Pipes, TLAPS

LEMMA DealingType == \A i \in Party : Dealing(i) \in Seq(Messages) /\ Len(Dealing(i)) = N - 1
  <1> SUFFICES ASSUME NEW i \in Party
               PROVE  Dealing(i) \in Seq(Messages) /\ Len(Dealing(i)) = N - 1
    OBVIOUS
  <1>1. N - 1 \in Nat
    BY NAssumption
  <1>2. \A k \in 1..(N - 1) : (IF k < i THEN k ELSE k + 1) \in Party
    BY NAssumption DEF Party
  <1>4. \A k \in 1..(N - 1) : PolyResult(i, IF k < i THEN k ELSE k + 1) \in Messages
    BY <1>2 DEF PolyResult, Messages
  <1>5. Dealing(i) \in [1..(N - 1) -> Messages]
    BY <1>4, Zenon DEF Dealing
  <1> QED
    BY <1>1, <1>5

LEMMA PartType == \A i \in Party : PubKeyPart(i) \in Messages
  BY NAssumption DEF PubKeyPart, Messages, Party

\* A phone's share of MsgCh[Write] as a number for each of its states.
LEMMA BudgetValues ==
  /\ Budget["Confirmed"] = 0 /\ Budget["GotParams"] = N - 1
  /\ Budget["SentPki"] = N /\ Budget["GotPK"] = N
  BY DEF Budget

LEMMA Lengths ==
  TypeOK => \A j \in Party : Queued(j) \in Nat /\ Owed(j) \in Nat
  BY DEF TypeOK, Queued, Owed

\* What one handler may do, as far as types and lengths go.
LEMMA HandlerStep ==
  ASSUME TypeOK, WithinBudget, NEW i \in Party, Handle(i)
  PROVE  /\ stat' \in [Party -> NodeStat]
         /\ skInf' \in [Party -> SUBSET Party] /\ parts' \in [Party -> SUBSET Party]
         /\ todo' \in [Party -> Seq(Messages)]
         /\ \A j \in Party : Queued(j) + Owed(j)' <= Budget[stat'[j]]
  <1> DEFINE m == Head(in[i])
  <1>0. /\ in[i] # <<>> /\ in[i] \in Seq(Messages) /\ todo[i] = <<>>
        /\ Owed(i) = 0
    BY DEF Handle, TypeOK, Owed
  <1>1. m \in Messages
    BY <1>0
  <1>2. CASE HandleVoteParams(i, m) /\ stat[i] = "Confirmed"
    <2>1. Owed(i)' = N - 1 /\ stat'[i] = "GotParams"
      BY <1>2, DealingType DEF HandleVoteParams, TypeOK, Owed
    <2>2. Queued(i) <= 0
      <3>1. Queued(i) + Owed(i) <= Budget["Confirmed"]
        BY <1>2 DEF WithinBudget
      <3> QED
        BY <3>1, Lengths, BudgetValues
    <2>3. todo' \in [Party -> Seq(Messages)]
      BY <1>2, DealingType DEF HandleVoteParams, TypeOK
    <2>4. \A j \in Party : j # i => Owed(j)' = Owed(j) /\ stat'[j] = stat[j]
      BY <1>2 DEF HandleVoteParams, TypeOK, Owed
    <2>5. \A j \in Party : Queued(j) + Owed(j)' <= Budget[stat'[j]]
      <3>1. Queued(i) + Owed(i)' <= Budget[stat'[i]]
        BY <2>1, <2>2, Lengths, BudgetValues, NAssumption
      <3> QED
        BY <3>1, <2>4 DEF WithinBudget
    <2> QED
      <3>1. /\ stat' = [stat EXCEPT ![i] = "GotParams"]
            /\ skInf' = [skInf EXCEPT ![i] = {i}] /\ parts' = parts
        BY <1>2 DEF HandleVoteParams
      <3> QED
        BY <3>1, <2>3, <2>5 DEF TypeOK, NodeStat
  <1>5. CASE HandleVoteParams(i, m) /\ stat[i] # "Confirmed"
    <2>1. stat' = stat /\ skInf' = skInf /\ parts' = parts /\ todo' = todo
      BY <1>5 DEF HandleVoteParams
    <2>2. \A j \in Party : Queued(j) + Owed(j)' <= Budget[stat'[j]]
      BY <2>1 DEF WithinBudget, Owed
    <2> QED
      BY <2>1, <2>2 DEF TypeOK
  <1>3. CASE HandlePolyResult(i, m)
    <2>1. CASE stat[i] \in {"GotParams", "Confirmed"} /\ skInf'[i] = Party
      <3>1. /\ stat' = [stat EXCEPT ![i] = "SentPki"]
            /\ todo' = [todo EXCEPT ![i] = <<PubKeyPart(i)>>]
        BY <1>3, <2>1 DEF HandlePolyResult
      <3>2. todo' \in [Party -> Seq(Messages)] /\ Owed(i)' = 1 /\ stat'[i] = "SentPki"
        BY <3>1, PartType DEF TypeOK, Owed
      <3>3. Queued(i) <= N - 1
        <4>1. \/ Queued(i) + Owed(i) <= Budget["GotParams"]
              \/ Queued(i) + Owed(i) <= Budget["Confirmed"]
          BY <2>1 DEF WithinBudget
        <4> QED
          BY <4>1, Lengths, BudgetValues, NAssumption
      <3>4. \A j \in Party : j # i => Owed(j)' = Owed(j) /\ stat'[j] = stat[j]
        BY <3>1 DEF TypeOK, Owed
      <3>5. \A j \in Party : Queued(j) + Owed(j)' <= Budget[stat'[j]]
        <4>1. Queued(i) + Owed(i)' <= Budget[stat'[i]]
          BY <3>2, <3>3, Lengths, BudgetValues, NAssumption
        <4> QED
          BY <4>1, <3>4 DEF WithinBudget
      <3>6. skInf' \in [Party -> SUBSET Party]
        <4>1. skInf' = [skInf EXCEPT ![i] = @ \cup {m.from}] /\ skInf'[i] = Party
          BY <1>3, <2>1 DEF HandlePolyResult
        <4> QED
          BY <4>1 DEF TypeOK
      <3> QED
        BY <1>3, <3>1, <3>2, <3>5, <3>6 DEF HandlePolyResult, TypeOK, NodeStat
    <2>2. CASE ~(stat[i] \in {"GotParams", "Confirmed"} /\ skInf'[i] = Party)
      <3>1. UNCHANGED <<stat, todo, parts>>
        BY <1>3, <2>2 DEF HandlePolyResult
      <3>2. skInf' \in [Party -> SUBSET Party]
        <4>1. m.from \in Party
          BY <1>1, <1>3 DEF HandlePolyResult, Messages, VoteParams
        <4>2. skInf' = skInf \/ skInf' = [skInf EXCEPT ![i] = @ \cup {m.from}]
          BY <1>3 DEF HandlePolyResult
        <4>3. skInf \in [Party -> SUBSET Party]
          BY DEF TypeOK
        <4>4. [skInf EXCEPT ![i] = @ \cup {m.from}] \in [Party -> SUBSET Party]
          BY <4>1, <4>3
        <4> QED
          BY <4>2, <4>3, <4>4
      <3>3. \A j \in Party : Queued(j) + Owed(j)' <= Budget[stat'[j]]
        BY <3>1 DEF WithinBudget, Owed
      <3> QED
        BY <3>1, <3>2, <3>3 DEF TypeOK
    <2> QED
      BY <2>1, <2>2
  <1>4. CASE HandlePubKeyPart(i, m)
    <2>1. parts' \in [Party -> SUBSET Party]
      <3>1. m.from \in Party
        BY <1>1, <1>4 DEF HandlePubKeyPart, Messages, VoteParams
      <3> QED
        BY <3>1, <1>4 DEF HandlePubKeyPart, TypeOK
    <2>2. UNCHANGED <<skInf, todo>> /\ \A j \in Party : Owed(j)' = Owed(j)
      BY <1>4 DEF HandlePubKeyPart, Owed
    <2>3. stat' = stat \/ stat' = [stat EXCEPT ![i] = "GotPK"]
      BY <1>4 DEF HandlePubKeyPart
    <2>4. stat' \in [Party -> NodeStat]
      BY <2>3 DEF TypeOK, NodeStat
    <2>5. ASSUME NEW j \in Party
          PROVE  Queued(j) + Owed(j)' <= Budget[stat'[j]]
      <3>1. Queued(j) + Owed(j) <= Budget[stat[j]]
        BY DEF WithinBudget
      <3>2. Queued(j) \in Nat /\ Owed(j) \in Nat
        BY Lengths
      <3>3. stat[j] \in NodeStat
        BY DEF TypeOK
      <3>4. Budget[stat[j]] \in Nat /\ Budget[stat[j]] <= N
        BY <3>3, BudgetValues, NAssumption DEF NodeStat
      <3>5. stat'[j] = stat[j] \/ stat'[j] = "GotPK"
        BY <2>3 DEF TypeOK
      <3> QED
        BY <3>1, <3>2, <3>4, <3>5, <2>2, BudgetValues, NAssumption
    <2> QED
      BY <2>1, <2>2, <2>4, <2>5 DEF TypeOK
  <1> QED
    BY <1>2, <1>3, <1>4, <1>5 DEF Handle

LEMMA InitInv == Init => TypeOK /\ WithinBudget
  <1> SUFFICES ASSUME Init
               PROVE  TypeOK /\ WithinBudget
    OBVIOUS
  <1>1. \A i \in Party : in[i] \in Seq(Messages) /\ Len(in[i]) = 1
    BY DEF Init, Messages
  <1>2. in \in [Party -> Seq(Messages)]
    BY <1>1 DEF Init
  <1>3. /\ todo \in [Party -> Seq(Messages)] /\ out \in [Party -> Seq(Messages)]
        /\ \A i \in Party : Queued(i) = 0 /\ Owed(i) = 0 /\ stat[i] = "Confirmed"
    BY DEF Init, Queued, Owed
  <1>4. TypeOK
    BY <1>1, <1>2, <1>3, CapAssumption DEF TypeOK, Init, NodeStat, Queued
  <1>5. WithinBudget
    BY <1>3, BudgetValues DEF WithinBudget
  <1> QED
    BY <1>4, <1>5

\* Handle, as a step of the whole phone.
LEMMA HandleInv ==
  ASSUME TypeOK, WithinBudget, NEW i \in Party, Handle(i)
  PROVE  TypeOK' /\ WithinBudget'
  <1>1. UNCHANGED <<out, nodeVars>> /\ in' = [in EXCEPT ![i] = Tail(@)] /\ in[i] # <<>>
    BY DEF Handle
  <1>2. in' \in [Party -> Seq(Messages)] /\ \A j \in Party : Len(in'[j]) <= Cap
    <2>1. in[i] \in Seq(Messages) /\ Len(in[i]) <= Cap
      BY DEF TypeOK
    <2>2. Tail(in[i]) \in Seq(Messages) /\ Len(Tail(in[i])) <= Cap
      BY <2>1, <1>1, CapAssumption
    <2> QED
      BY <1>1, <2>2 DEF TypeOK
  <1>3. TypeOK'
    BY <1>1, <1>2, HandlerStep DEF TypeOK, nodeVars
  <1>4. \A j \in Party : Queued(j)' = Queued(j)
    BY <1>1 DEF Queued
  <1>5. WithinBudget'
    BY <1>4, HandlerStep DEF WithinBudget
  <1> QED
    BY <1>3, <1>5

LEMMA SendsInv ==
  ASSUME TypeOK, WithinBudget, NEW i \in Party, HandlerSends(i)
  PROVE  TypeOK' /\ WithinBudget'
  <1>1. /\ out' = [out EXCEPT ![i] = Append(@, Head(todo[i]))]
        /\ todo' = [todo EXCEPT ![i] = Tail(@)]
        /\ todo[i] # <<>> /\ Len(out[i]) < Cap
        /\ UNCHANGED <<stat, skInf, parts, in, nodeVars>>
    BY DEF HandlerSends, HasRoom
  <1>2. todo[i] \in Seq(Messages) /\ out[i] \in Seq(Messages)
    BY DEF TypeOK
  <1>3. Head(todo[i]) \in Messages /\ Tail(todo[i]) \in Seq(Messages)
        /\ Len(Tail(todo[i])) = Len(todo[i]) - 1
    BY <1>1, <1>2
  <1>4. Append(out[i], Head(todo[i])) \in Seq(Messages)
        /\ Len(Append(out[i], Head(todo[i]))) = Len(out[i]) + 1
    BY <1>2, <1>3
  <1>5. Queued(i) \in Nat /\ Owed(i) \in Nat
    BY Lengths
  <1>6. TypeOK'
    <2>1. Len(Append(out[i], Head(todo[i]))) <= Cap
      BY <1>1, <1>2, <1>4, CapAssumption
    <2> QED
      BY <1>1, <1>3, <1>4, <2>1 DEF TypeOK, nodeVars
  <1>7. /\ Queued(i)' = Queued(i) + 1 /\ Owed(i)' = Owed(i) - 1
        /\ \A j \in Party : j # i => Queued(j)' = Queued(j) /\ Owed(j)' = Owed(j)
    BY <1>1, <1>3, <1>4 DEF TypeOK, Queued, Owed
  <1>8. \A j \in Party : Queued(j)' + Owed(j)' = Queued(j) + Owed(j)
    BY <1>5, <1>7
  <1>9. WithinBudget'
    BY <1>1, <1>8 DEF WithinBudget
  <1> QED
    BY <1>6, <1>9

LEMMA NodeSendsInv ==
  ASSUME TypeOK, WithinBudget, NEW i \in Party, NodeSends(i)
  PROVE  TypeOK' /\ WithinBudget'
  <1> DEFINE m == Head(out[i])
  <1>1. /\ out' = [out EXCEPT ![i] = Tail(@)] /\ out[i] # <<>>
        /\ net' = [j \in Party |-> IF m.to \in {0, j} THEN net[j] \cup {m} ELSE net[j]]
        /\ UNCHANGED <<uiVars, in, hand>>
    BY DEF NodeSends
  <1>2. out[i] \in Seq(Messages) /\ Len(out[i]) <= Cap
    BY DEF TypeOK
  <1>3. m \in Messages /\ Tail(out[i]) \in Seq(Messages)
        /\ Len(Tail(out[i])) = Len(out[i]) - 1
    BY <1>1, <1>2
  <1>4. net' \in [Party -> SUBSET Messages]
    BY <1>1, <1>3 DEF TypeOK
  <1>5. \A j \in Party : Queued(j) \in Nat /\ Owed(j) \in Nat
    BY Lengths
  <1>6. TypeOK'
    <2>1. Len(Tail(out[i])) <= Cap
      BY <1>2, <1>3, CapAssumption
    <2> QED
      BY <1>1, <1>3, <1>4, <2>1 DEF TypeOK, uiVars
  <1>7. \A j \in Party : Queued(j)' <= Queued(j) /\ Queued(j)' \in Nat
    <2>1. Queued(i)' = Queued(i) - 1 /\ Queued(i)' \in Nat
          /\ \A j \in Party : j # i => Queued(j)' = Queued(j)
      BY <1>1, <1>3 DEF TypeOK, Queued
    <2> QED
      BY <1>5, <2>1
  <1>8. ASSUME NEW j \in Party
        PROVE  (Queued(j) + Owed(j) <= Budget[stat[j]])'
    <2>1. Queued(j) + Owed(j) <= Budget[stat[j]] /\ stat[j] \in NodeStat
      BY DEF WithinBudget, TypeOK
    <2>2. Budget[stat[j]] \in Nat
      BY <2>1, BudgetValues, NAssumption DEF NodeStat
    <2>3. stat'[j] = stat[j] /\ Owed(j)' = Owed(j)
      BY <1>1 DEF uiVars, Owed
    <2> QED
      BY <2>1, <2>2, <2>3, <1>5, <1>7
  <1> QED
    BY <1>6, <1>8 DEF WithinBudget

LEMMA NodeReceivesInv ==
  ASSUME TypeOK, WithinBudget, NEW i \in Party, NodeReceives(i)
  PROVE  TypeOK' /\ WithinBudget'
  BY DEF NodeReceives, TypeOK, WithinBudget, uiVars, Queued, Owed

LEMMA NodeForwardsInv ==
  ASSUME TypeOK, WithinBudget, NEW i \in Party, NodeForwards(i)
  PROVE  TypeOK' /\ WithinBudget'
  <1>1. PICK m \in hand[i] : in' = [in EXCEPT ![i] = Append(@, m)]
    BY DEF NodeForwards
  <1>2. /\ hand' = [hand EXCEPT ![i] = {}] /\ Len(in[i]) < Cap
        /\ UNCHANGED <<uiVars, out, net>>
    BY DEF NodeForwards, HasRoom
  <1>3. in[i] \in Seq(Messages) /\ m \in Messages
    BY DEF TypeOK
  <1>4. Append(in[i], m) \in Seq(Messages) /\ Len(Append(in[i], m)) = Len(in[i]) + 1
    BY <1>3
  <1>5. in' \in [Party -> Seq(Messages)] /\ \A j \in Party : Len(in'[j]) <= Cap
    <2>1. Len(in[i]) + 1 <= Cap
      BY <1>2, <1>3, CapAssumption
    <2> QED
      BY <1>1, <1>4, <2>1 DEF TypeOK
  <1>6. hand' \in [Party -> SUBSET Messages]
    BY <1>2 DEF TypeOK
  <1> QED
    BY <1>2, <1>5, <1>6 DEF TypeOK, WithinBudget, uiVars, Queued, Owed

LEMMA StutterInv == TypeOK /\ WithinBudget /\ UNCHANGED vars => TypeOK' /\ WithinBudget'
  BY DEF TypeOK, WithinBudget, vars, uiVars, nodeVars, Queued, Owed

LEMMA NextInv == TypeOK /\ WithinBudget /\ [Next]_vars => TypeOK' /\ WithinBudget'
  <1> SUFFICES ASSUME TypeOK, WithinBudget, [Next]_vars
               PROVE  TypeOK' /\ WithinBudget'
    OBVIOUS
  <1>1. CASE Next
    <2>1. PICK i \in Party : \/ Handle(i) \/ HandlerSends(i) \/ NodeSends(i)
                             \/ NodeReceives(i) \/ NodeForwards(i)
      BY <1>1 DEF Next
    <2>2. CASE Handle(i)
      BY <2>2, HandleInv
    <2>3. CASE HandlerSends(i)
      BY <2>3, SendsInv
    <2>4. CASE NodeSends(i)
      BY <2>4, NodeSendsInv
    <2>5. CASE NodeReceives(i)
      BY <2>5, NodeReceivesInv
    <2>6. CASE NodeForwards(i)
      BY <2>6, NodeForwardsInv
    <2> QED
      BY <2>1, <2>2, <2>3, <2>4, <2>5, <2>6
  <1>2. CASE UNCHANGED vars
    BY <1>2, StutterInv
  <1> QED
    BY <1>1, <1>2

\* The channels hold messages and never more of them than their buffers, and
\* every field of the phone keeps its type, for any N and any buffer.
THEOREM ChannelsTyped == Spec => []TypeOK
  BY InitInv, NextInv, PTL DEF Spec

\* What a phone has put into MsgCh[Write] and not yet sent, and what its
\* running handler will still put there, stays within one vote's share.
THEOREM BudgetKept == Spec => []WithinBudget
  BY InitInv, NextInv, PTL DEF Spec

\* If a channel has room for a message to every party (30 in newApp), the two
\* loops of a phone never wait for each other, in whatever order messages come.
THEOREM RoomForAll == N <= Cap => (Spec => []NeverStuck)
  <1> SUFFICES ASSUME N <= Cap
               PROVE  Spec => []NeverStuck
    OBVIOUS
  <1>1. TypeOK /\ WithinBudget => NeverStuck
    <2> SUFFICES ASSUME TypeOK, WithinBudget, NEW i \in Party, todo[i] # <<>>
                 PROVE  Queued(i) < Cap
      BY DEF NeverStuck, Stuck, HasRoom, Queued
    <2>1. Queued(i) + Owed(i) <= Budget[stat[i]] /\ stat[i] \in NodeStat
      BY DEF WithinBudget, TypeOK
    <2>2. Budget[stat[i]] \in Nat /\ Budget[stat[i]] <= N
      BY <2>1, BudgetValues, NAssumption DEF NodeStat
    <2>3. Owed(i) > 0 /\ Owed(i) \in Nat /\ Queued(i) \in Nat
      <3>1. todo[i] \in Seq(Messages)
        BY DEF TypeOK
      <3> QED
        BY <3>1, Lengths DEF Owed
    <2> QED
      BY <2>1, <2>2, <2>3, NAssumption, CapAssumption
  <1> QED
    BY <1>1, InitInv, NextInv, PTL DEF Spec

-----------------------------------------------------------------------------
(* Nothing is lost on the way *)

\* A message stays in a queue that loses its head, or was the head, and in one
\* that grows.
LEMMA TailKeeps ==
  ASSUME NEW s \in Seq(Messages), s # <<>>, NEW m, Within(m, s)
  PROVE  m = Head(s) \/ Within(m, Tail(s))
  <1>1. PICK k \in 1..Len(s) : s[k] = m
    BY DEF Within
  <1>2. CASE k = 1
    BY <1>1, <1>2
  <1>3. CASE k > 1
    <2>1. k - 1 \in 1..Len(Tail(s)) /\ Tail(s)[k - 1] = s[k]
      BY <1>3
    <2> QED
      BY <1>1, <2>1 DEF Within
  <1> QED
    BY <1>2, <1>3

LEMMA AppendKeeps ==
  ASSUME NEW s \in Seq(Messages), NEW x \in Messages, NEW m, Within(m, s) \/ m = x
  PROVE  Within(m, Append(s, x))
  <1>1. CASE m = x
    <2>1. Len(s) + 1 \in 1..Len(Append(s, x)) /\ Append(s, x)[Len(s) + 1] = x
      OBVIOUS
    <2> QED
      BY <1>1, <2>1 DEF Within
  <1>2. CASE Within(m, s)
    <2>1. PICK k \in 1..Len(s) : s[k] = m
      BY <1>2 DEF Within
    <2>2. k \in 1..Len(Append(s, x)) /\ Append(s, x)[k] = m
      BY <2>1
    <2> QED
      BY <2>2 DEF Within
  <1> QED
    BY <1>1, <1>2

\* And a queue that loses its head or grows has no other message than before.
LEMMA TailHasOnly ==
  ASSUME NEW s \in Seq(Messages), s # <<>>, NEW m, Within(m, Tail(s)) \/ m = Head(s)
  PROVE  Within(m, s)
  <1>1. CASE m = Head(s)
    <2>1. 1 \in 1..Len(s) /\ s[1] = m
      BY <1>1
    <2> QED
      BY <2>1 DEF Within
  <1>2. CASE Within(m, Tail(s))
    <2>1. PICK k \in 1..Len(Tail(s)) : Tail(s)[k] = m
      BY <1>2 DEF Within
    <2>2. k + 1 \in 1..Len(s) /\ s[k + 1] = m
      BY <2>1
    <2> QED
      BY <2>2 DEF Within
  <1> QED
    BY <1>1, <1>2

LEMMA AppendHasOnly ==
  ASSUME NEW s \in Seq(Messages), NEW x \in Messages, NEW m, Within(m, Append(s, x))
  PROVE  Within(m, s) \/ m = x
  <1>1. PICK k \in 1..Len(Append(s, x)) : Append(s, x)[k] = m
    BY DEF Within
  <1>2. CASE k = Len(s) + 1
    BY <1>1, <1>2
  <1>3. CASE k \in 1..Len(s)
    <2>1. s[k] = m
      BY <1>1, <1>3
    <2> QED
      BY <1>3, <2>1 DEF Within
  <1> QED
    BY <1>2, <1>3

\* Every other party is dealt its share.
LEMMA DealingReaches ==
  ASSUME NEW i \in Party, NEW j \in Party, i # j
  PROVE  Within(PolyResult(i, j), Dealing(i))
  <1> DEFINE k == IF j < i THEN j ELSE j - 1
  <1>1. k \in 1..(N - 1) /\ (IF k < i THEN k ELSE k + 1) = j
    BY NAssumption DEF Party
  <1>2. Dealing(i)[k] = PolyResult(i, j)
    BY <1>1, Zenon DEF Dealing
  <1> HIDE DEF k
  <1>3. Len(Dealing(i)) = N - 1
    BY DealingType
  <1> QED
    BY <1>1, <1>2, <1>3 DEF Within

\* A message is of one kind, and its kind, sender and receiver are its own.
LEMMA Kinds ==
  ASSUME NEW i, NEW j
  PROVE  /\ PolyResult(i, j).type = "PolyResult" /\ PolyResult(i, j).from = i
         /\ PolyResult(i, j).to = j
         /\ PubKeyPart(i).type = "PubKeyPart" /\ PubKeyPart(i).from = i
         /\ PubKeyPart(i).to = 0
         /\ VoteParams.type = "VoteParams"
  BY DEF PolyResult, PubKeyPart, VoteParams

\* The steps that pass messages on lose none.
LEMMA CarriedByHandler ==
  ASSUME TypeOK, NEW x \in Party, HandlerSends(x),
         NEW i \in Party, NEW j \in Party, NEW m \in Messages, Leaving(m, i) \/ Coming(m, j)
  PROVE  (Leaving(m, i) \/ Coming(m, j))'
<1>1. /\ out' = [out EXCEPT ![x] = Append(@, Head(todo[x]))]
      /\ todo' = [todo EXCEPT ![x] = Tail(@)] /\ todo[x] # <<>>
      /\ UNCHANGED <<in, hand, net>>
  BY DEF HandlerSends, nodeVars
<1>2. todo[x] \in Seq(Messages) /\ out[x] \in Seq(Messages) /\ Head(todo[x]) \in Messages
  BY <1>1 DEF TypeOK
<1>3. CASE Coming(m, j)
  BY <1>1, <1>3 DEF Coming
<1>4. CASE Leaving(m, i) /\ i # x
  <2>1. todo'[i] = todo[i] /\ out'[i] = out[i]
    BY <1>1, <1>4 DEF TypeOK
  <2> QED
    BY <1>4, <2>1 DEF Leaving
<1>5. CASE Leaving(m, i) /\ i = x
  <2>1. todo'[i] = Tail(todo[i]) /\ out'[i] = Append(out[i], Head(todo[i]))
    BY <1>1, <1>5 DEF TypeOK
  <2>2. Within(m, todo'[i]) \/ Within(m, out'[i])
    BY <1>1, <1>2, <1>5, <2>1, TailKeeps, AppendKeeps DEF Leaving
  <2> QED
    BY <2>2 DEF Leaving
<1> QED
  BY <1>3, <1>4, <1>5

LEMMA CarriedByNode ==
  ASSUME TypeOK, OneInHand, NEW x \in Party, NodeSends(x) \/ NodeReceives(x) \/ NodeForwards(x),
         NEW i \in Party, NEW j \in Party, NEW m \in Messages, m.to \in {0, j},
         Leaving(m, i) \/ Coming(m, j)
  PROVE  (Leaving(m, i) \/ Coming(m, j))'
<1>1. CASE NodeSends(x)
  <2>1. /\ out' = [out EXCEPT ![x] = Tail(@)] /\ out[x] # <<>> /\ out[x] \in Seq(Messages)
        /\ \A y \in Party : net[y] \subseteq net'[y]
        /\ Head(out[x]).to \in {0, j} => Head(out[x]) \in net'[j]
        /\ UNCHANGED <<todo, in, hand>>
    BY <1>1 DEF NodeSends, uiVars, TypeOK
  <2>2. CASE Coming(m, j)
    BY <2>1, <2>2 DEF Coming
  <2>3. CASE Within(m, todo[i])
    BY <2>1, <2>3 DEF Leaving
  <2>4. CASE Within(m, out[i]) /\ i # x
    <3>1. out'[i] = out[i]
      BY <2>1, <2>4 DEF TypeOK
    <3> QED
      BY <2>4, <3>1 DEF Leaving
  <2>5. CASE Within(m, out[i]) /\ i = x
    <3>1. out'[i] = Tail(out[i])
      BY <2>1, <2>5 DEF TypeOK
    <3>2. m = Head(out[i]) \/ Within(m, Tail(out[i]))
      BY <2>1, <2>5, TailKeeps
    <3> QED
      BY <2>1, <2>5, <3>1, <3>2 DEF Leaving, Coming
  <2> QED
    BY <2>2, <2>3, <2>4, <2>5 DEF Leaving
<1>2. CASE NodeReceives(x)
  <2>1. PICK o \in net[x] : /\ hand' = [hand EXCEPT ![x] = {o}]
                            /\ net'  = [net EXCEPT ![x] = @ \ {o}]
    BY <1>2 DEF NodeReceives
  <2>2. hand[x] = {} /\ UNCHANGED <<todo, out, in>>
    BY <1>2 DEF NodeReceives, uiVars
  <2>3. CASE Leaving(m, i)
    BY <2>2, <2>3 DEF Leaving
  <2>4. CASE Coming(m, j)
    <3>1. m \in net[j] \/ m \in hand[j] => m \in net'[j] \/ m \in hand'[j]
      BY <2>1, <2>2 DEF TypeOK
    <3> QED
      BY <2>2, <2>4, <3>1 DEF Coming
  <2> QED
    BY <2>3, <2>4
<1>3. CASE NodeForwards(x)
  <2>1. PICK o \in hand[x] : in' = [in EXCEPT ![x] = Append(@, o)]
    BY <1>3 DEF NodeForwards
  <2>2. hand' = [hand EXCEPT ![x] = {}] /\ UNCHANGED <<todo, out, net>>
    BY <1>3 DEF NodeForwards, uiVars
  <2>3. \A h \in hand[x] : h = o
    BY <2>1 DEF OneInHand
  <2>4. CASE Leaving(m, i)
    BY <2>2, <2>4 DEF Leaving
  <2>5. CASE Coming(m, j) /\ j # x
    <3>1. in'[j] = in[j] /\ hand'[j] = hand[j]
      BY <2>1, <2>2, <2>5 DEF TypeOK
    <3> QED
      BY <2>2, <2>5, <3>1 DEF Coming
  <2>6. CASE Coming(m, j) /\ j = x
    <3>1. in'[j] = Append(in[j], o) /\ in[j] \in Seq(Messages) /\ o \in Messages
      BY <2>1, <2>6 DEF TypeOK
    <3>2. m \in net'[j] \/ Within(m, in'[j])
      BY <2>2, <2>3, <2>6, <3>1, AppendKeeps DEF Coming
    <3> QED
      BY <3>2 DEF Coming
  <2> QED
    BY <2>4, <2>5, <2>6
<1> QED
  BY <1>1, <1>2, <1>3

LEMMA SharesAndPartsTyped ==
  ASSUME NEW i \in Party, NEW j \in Party
  PROVE  PolyResult(i, j) \in Messages /\ PubKeyPart(i) \in Messages
  BY DEF PolyResult, PubKeyPart, Messages

\* Nor do they make any.
LEMMA PassingMakesNone ==
  ASSUME TypeOK, NEW x \in Party,
         HandlerSends(x) \/ NodeSends(x) \/ NodeReceives(x) \/ NodeForwards(x),
         NEW m, Somewhere(m)'
  PROVE  Somewhere(m)
<1>1. PICK j \in Party : (Leaving(m, j) \/ Coming(m, j))'
  BY DEF Somewhere
<1>2. CASE HandlerSends(x)
  <2>1. /\ out' = [out EXCEPT ![x] = Append(@, Head(todo[x]))]
        /\ todo' = [todo EXCEPT ![x] = Tail(@)] /\ todo[x] # <<>>
        /\ UNCHANGED <<in, hand, net>>
    BY <1>2 DEF HandlerSends, nodeVars
  <2>2. todo[x] \in Seq(Messages) /\ out[x] \in Seq(Messages) /\ Head(todo[x]) \in Messages
    BY <2>1 DEF TypeOK
  <2>3. Coming(m, j)' => Coming(m, j)
    BY <2>1 DEF Coming
  <2>4. j # x /\ Leaving(m, j)' => Leaving(m, j)
    <3>1. j # x => todo'[j] = todo[j] /\ out'[j] = out[j]
      BY <2>1 DEF TypeOK
    <3> QED
      BY <3>1 DEF Leaving
  <2>5. j = x /\ Leaving(m, j)' => Leaving(m, j)
    <3>1. j = x => todo'[j] = Tail(todo[x]) /\ out'[j] = Append(out[x], Head(todo[x]))
      BY <2>1 DEF TypeOK
    <3> QED
      BY <2>1, <2>2, <3>1, TailHasOnly, AppendHasOnly DEF Leaving
  <2> QED
    BY <1>1, <2>3, <2>4, <2>5 DEF Somewhere
<1>3. CASE NodeSends(x)
  <2>1. /\ out' = [out EXCEPT ![x] = Tail(@)] /\ out[x] # <<>> /\ out[x] \in Seq(Messages)
        /\ net'[j] \subseteq net[j] \cup {Head(out[x])}
        /\ UNCHANGED <<todo, in, hand>>
    BY <1>3 DEF NodeSends, uiVars, TypeOK
  <2>2. Coming(m, j)' => Coming(m, j) \/ Leaving(m, x)
    BY <2>1, TailHasOnly DEF Coming, Leaving
  <2>3. j # x /\ Leaving(m, j)' => Leaving(m, j)
    <3>1. j # x => out'[j] = out[j]
      BY <2>1 DEF TypeOK
    <3> QED
      BY <2>1, <3>1 DEF Leaving
  <2>4. j = x /\ Leaving(m, j)' => Leaving(m, j)
    <3>1. j = x => out'[j] = Tail(out[x])
      BY <2>1 DEF TypeOK
    <3> QED
      BY <2>1, <3>1, TailHasOnly DEF Leaving
  <2> QED
    BY <1>1, <2>2, <2>3, <2>4 DEF Somewhere
<1>4. CASE NodeReceives(x)
  <2>1. PICK o \in net[x] : /\ hand' = [hand EXCEPT ![x] = {o}]
                            /\ net'  = [net EXCEPT ![x] = @ \ {o}]
    BY <1>4 DEF NodeReceives
  <2>2. UNCHANGED <<todo, out, in>>
    BY <1>4 DEF NodeReceives, uiVars
  <2>3. m \in net'[j] \/ m \in hand'[j] => m \in net[j] \/ m \in hand[j]
    BY <2>1 DEF TypeOK
  <2> QED
    BY <1>1, <2>2, <2>3 DEF Somewhere, Coming, Leaving
<1>5. CASE NodeForwards(x)
  <2>1. PICK o \in hand[x] : in' = [in EXCEPT ![x] = Append(@, o)]
    BY <1>5 DEF NodeForwards
  <2>2. hand' = [hand EXCEPT ![x] = {}] /\ UNCHANGED <<todo, out, net>>
    BY <1>5 DEF NodeForwards, uiVars
  <2>3. m \in hand'[j] => m \in hand[j]
    BY <2>2 DEF TypeOK
  <2>4. Within(m, in'[j]) => Within(m, in[j]) \/ m \in hand[j]
    <3>1. j # x => in'[j] = in[j]
      BY <2>1 DEF TypeOK
    <3>2. j = x => in'[j] = Append(in[j], o) /\ in[j] \in Seq(Messages) /\ o \in Messages
      BY <2>1 DEF TypeOK
    <3> QED
      BY <2>1, <3>1, <3>2, AppendHasOnly
  <2> QED
    BY <1>1, <2>2, <2>3, <2>4 DEF Somewhere, Coming, Leaving
<1> QED
  BY <1>2, <1>3, <1>4, <1>5

LEMMA PassingKeeps ==
  ASSUME TypeOK, NothingLost, NEW x \in Party,
         HandlerSends(x) \/ NodeSends(x) \/ NodeReceives(x) \/ NodeForwards(x)
  PROVE  NothingLost'
<1>1. UNCHANGED <<stat, skInf, parts>>
  BY DEF HandlerSends, NodeSends, NodeReceives, NodeForwards, uiVars
<1>2. ParamsFirst'
  <2>1. UNCHANGED in \/ \E o \in Messages : in' = [in EXCEPT ![x] = Append(@, o)]
    <3>1. CASE NodeForwards(x)
      BY <3>1 DEF NodeForwards, TypeOK
    <3>2. CASE HandlerSends(x) \/ NodeSends(x) \/ NodeReceives(x)
      BY <3>2 DEF HandlerSends, NodeSends, NodeReceives
    <3> QED
      BY <3>1, <3>2
  <2>2. ASSUME NEW i \in Party, in[i] # <<>>
        PROVE  in'[i] # <<>> /\ Head(in'[i]) = Head(in[i])
    <3>1. in[i] \in Seq(Messages)
      BY DEF TypeOK
    <3>2. in'[i] = in[i] \/ \E o \in Messages : in'[i] = Append(in[i], o)
      BY <2>1 DEF TypeOK
    <3>3. ASSUME NEW o \in Messages
          PROVE  Append(in[i], o) # <<>> /\ Head(Append(in[i], o)) = Head(in[i])
      BY <2>2, <3>1
    <3> QED
      BY <2>2, <3>2, <3>3
  <2> QED
    BY <1>1, <2>2 DEF NothingLost, ParamsFirst
<1>3. OneInHand'
  <2>1. \/ UNCHANGED hand
        \/ hand' = [hand EXCEPT ![x] = {}]
        \/ \E o \in Messages : hand' = [hand EXCEPT ![x] = {o}]
    <3>1. CASE NodeReceives(x)
      BY <3>1 DEF NodeReceives, TypeOK
    <3>2. CASE HandlerSends(x) \/ NodeSends(x) \/ NodeForwards(x)
      BY <3>2 DEF HandlerSends, NodeSends, NodeForwards, nodeVars
    <3> QED
      BY <3>1, <3>2
  <2>2. \A i \in Party : hand'[i] = hand[i] \/ hand'[i] = {} \/ \E o : hand'[i] = {o}
    BY <2>1 DEF TypeOK
  <2> QED
    BY <2>2 DEF NothingLost, OneInHand
<1>4. ASSUME NEW i \in Party, NEW j \in Party, NEW m \in Messages, m.to \in {0, j},
             Leaving(m, i) \/ Coming(m, j)
      PROVE  (Leaving(m, i) \/ Coming(m, j))'
  BY <1>4, CarriedByHandler, CarriedByNode DEF NothingLost
<1>5. SharesKept'
  <2> SUFFICES ASSUME NEW i \in Party, NEW j \in Party, i # j,
                      stat[i] # "Confirmed", stat[j] \in {"Confirmed", "GotParams"}
               PROVE  (i \in skInf[j] \/ Leaving(PolyResult(i, j), i) \/ Coming(PolyResult(i, j), j))'
    BY <1>1 DEF SharesKept
  <2>1. i \in skInf[j] \/ Leaving(PolyResult(i, j), i) \/ Coming(PolyResult(i, j), j)
    BY DEF NothingLost, SharesKept
  <2> QED
    BY <1>1, <1>4, <2>1, Kinds, SharesAndPartsTyped
<1>6. PartsKept'
  <2> SUFFICES ASSUME NEW i \in Party, NEW j \in Party,
                      stat[i] \in {"SentPki", "GotPK"}, stat[j] # "GotPK"
               PROVE  (i \in parts[j] \/ Leaving(PubKeyPart(i), i) \/ Coming(PubKeyPart(i), j))'
    BY <1>1 DEF PartsKept
  <2>1. i \in parts[j] \/ Leaving(PubKeyPart(i), i) \/ Coming(PubKeyPart(i), j)
    BY DEF NothingLost, PartsKept
  <2> QED
    BY <1>1, <1>4, <2>1, Kinds, SharesAndPartsTyped
<1>7. GoesOn'
  BY <1>1 DEF NothingLost, GoesOn
<1>8. PartsAfterShares'
  BY <1>1, PassingMakesNone DEF NothingLost, PartsAfterShares
<1> QED
  BY <1>2, <1>3, <1>5, <1>6, <1>7, <1>8 DEF NothingLost

\* A handler takes the head of its queue and no other message; what it makes
\* comes on top of what was on its way.
LEMMA HandleTakesHead ==
  ASSUME TypeOK, NEW x \in Party, Handle(x), NEW i \in Party, NEW j \in Party,
         NEW m \in Messages, Leaving(m, i) \/ Coming(m, j)
  PROVE  (Leaving(m, i) \/ Coming(m, j))' \/ (j = x /\ m = Head(in[x]))
<1>1. /\ todo[x] = <<>> /\ in[x] # <<>> /\ in' = [in EXCEPT ![x] = Tail(@)]
      /\ UNCHANGED <<out, hand, net>>
  BY DEF Handle, nodeVars
<1>2. \A y \in Party : y # x => todo'[y] = todo[y]
  BY DEF Handle, HandleVoteParams, HandlePolyResult, HandlePubKeyPart, TypeOK
<1>3. CASE Leaving(m, i)
  <2>1. ~Within(m, todo[x])
    BY <1>1 DEF Within
  <2> QED
    BY <1>1, <1>2, <1>3, <2>1 DEF Leaving
<1>4. CASE Coming(m, j) /\ j # x
  <2>1. in'[j] = in[j]
    BY <1>1, <1>4 DEF TypeOK
  <2> QED
    BY <1>1, <1>4, <2>1 DEF Coming
<1>5. CASE Coming(m, j) /\ j = x
  <2>1. in'[j] = Tail(in[j]) /\ in[j] \in Seq(Messages)
    BY <1>1, <1>5 DEF TypeOK
  <2> QED
    BY <1>1, <1>5, <2>1, TailKeeps DEF Coming
<1> QED
  BY <1>3, <1>4, <1>5

\* And adds no message to those on their way but what it makes.
LEMMA HandleMakesOnly ==
  ASSUME TypeOK, NEW x \in Party, Handle(x), NEW m, Somewhere(m)', ~Somewhere(m)
  PROVE  Within(m, todo'[x])
<1>1. /\ todo[x] = <<>> /\ in[x] # <<>> /\ in' = [in EXCEPT ![x] = Tail(@)]
      /\ UNCHANGED <<out, hand, net>> /\ in[x] \in Seq(Messages)
  BY DEF Handle, nodeVars, TypeOK
<1>2. \A y \in Party : y # x => todo'[y] = todo[y]
  BY DEF Handle, HandleVoteParams, HandlePolyResult, HandlePubKeyPart, TypeOK
<1>3. PICK j \in Party : (Leaving(m, j) \/ Coming(m, j))'
  BY DEF Somewhere
<1>4. Coming(m, j)' => Coming(m, j)
  <2>1. j # x => in'[j] = in[j]
    BY <1>1 DEF TypeOK
  <2>2. j = x => in'[j] = Tail(in[j])
    BY <1>1 DEF TypeOK
  <2> QED
    BY <1>1, <2>1, <2>2, TailHasOnly DEF Coming
<1>5. Leaving(m, j)' => Leaving(m, j) \/ (j = x /\ Within(m, todo'[x]))
  BY <1>1, <1>2 DEF Leaving
<1> QED
  BY <1>3, <1>4, <1>5 DEF Somewhere

\* So a share or a part is lost by a handler's step only if it was the head of
\* the queue, or if the step is the one that had to send it.
LEMMA HandleKeeps ==
  ASSUME TypeOK, NothingLost, NEW x \in Party, Handle(x)
  PROVE  NothingLost'
<1> DEFINE h == Head(in[x])
<1>0. /\ todo[x] = <<>> /\ in[x] # <<>> /\ in' = [in EXCEPT ![x] = Tail(@)]
      /\ UNCHANGED <<out, hand, net>> /\ in[x] \in Seq(Messages) /\ h \in Messages
  BY DEF Handle, nodeVars, TypeOK
<1>1. \A y \in Party : y # x => /\ stat'[y] = stat[y] /\ skInf'[y] = skInf[y]
                               /\ parts'[y] = parts[y] /\ in'[y] = in[y]
  BY <1>0 DEF Handle, HandleVoteParams, HandlePolyResult, HandlePubKeyPart, TypeOK
<1>2. \/ HandleVoteParams(x, h) \/ HandlePolyResult(x, h) \/ HandlePubKeyPart(x, h)
  BY DEF Handle
<1>3. stat'[x] # "Confirmed"
  <2>1. stat[x] = "Confirmed" => h = VoteParams /\ parts[x] # Party
    BY DEF NothingLost, ParamsFirst, GoesOn
  <2>2. stat[x] = "Confirmed" => HandleVoteParams(x, h)
    BY <1>2, <2>1, Kinds DEF HandlePolyResult, HandlePubKeyPart
  <2> QED
    BY <1>2, <2>2 DEF HandleVoteParams, HandlePolyResult, HandlePubKeyPart, TypeOK
<1>4. ParamsFirst' /\ OneInHand'
  BY <1>0, <1>1, <1>3 DEF NothingLost, ParamsFirst, OneInHand
<1>5. GoesOn'
  <2>1. (stat[x] # "GotPK" => parts[x] # Party)'
    BY <1>2 DEF HandleVoteParams, HandlePolyResult, HandlePubKeyPart, TypeOK, NothingLost, GoesOn
  <2>2. CASE HandleVoteParams(x, h) /\ stat[x] = "Confirmed"
    <3>1. skInf'[x] = {x} /\ 1 \in Party /\ 2 \in Party
      BY <2>2, NAssumption DEF HandleVoteParams, TypeOK, Party
    <3> QED
      BY <1>1, <2>1, <3>1 DEF NothingLost, GoesOn
  <2>3. CASE HandlePolyResult(x, h) /\ stat[x] = "GotParams"
    <3>1. skInf'[x] = skInf[x] \cup {h.from} /\ (skInf'[x] = Party => stat'[x] = "SentPki")
      BY <2>3 DEF HandlePolyResult, TypeOK
    <3> QED
      BY <1>1, <2>1, <2>3, <3>1 DEF NothingLost, GoesOn
  <2>4. CASE stat'[x] = "GotParams" => stat[x] = "GotParams" /\ skInf'[x] = skInf[x]
    BY <1>1, <2>1, <2>4 DEF NothingLost, GoesOn
  <2>5. CASE HandlePolyResult(x, h) /\ stat[x] = "Confirmed"
    BY <2>5, Kinds DEF HandlePolyResult, NothingLost, ParamsFirst
  <2> QED
    BY <1>2, <2>2, <2>3, <2>4, <2>5 DEF HandleVoteParams, HandlePolyResult, HandlePubKeyPart, TypeOK
<1>6. SharesKept'
  <2> SUFFICES ASSUME NEW i \in Party, NEW j \in Party, i # j,
                      stat'[i] # "Confirmed", stat'[j] \in {"Confirmed", "GotParams"}
               PROVE  (i \in skInf[j] \/ Leaving(PolyResult(i, j), i) \/ Coming(PolyResult(i, j), j))'
    BY DEF SharesKept
  <2>1. CASE stat[i] = "Confirmed"
    <3>1. i = x
      BY <1>1, <2>1
    <3>2. h = VoteParams /\ HandleVoteParams(x, h)
      BY <1>2, <2>1, <3>1, Kinds DEF NothingLost, ParamsFirst, HandlePolyResult, HandlePubKeyPart
    <3>3. todo'[x] = Dealing(x)
      BY <2>1, <3>1, <3>2 DEF HandleVoteParams, TypeOK
    <3> QED
      BY <3>1, <3>3, DealingReaches DEF Leaving
  <2>2. CASE stat[i] # "Confirmed"
    <3>1. stat[j] \in {"Confirmed", "GotParams"}
      BY <1>1, <1>2 DEF HandleVoteParams, HandlePolyResult, HandlePubKeyPart, TypeOK, NodeStat
    <3>2. i \in skInf[j] \/ Leaving(PolyResult(i, j), i) \/ Coming(PolyResult(i, j), j)
      BY <2>2, <3>1 DEF NothingLost, SharesKept
    <3>3. CASE i \in skInf[j]
      <4>1. j = x => stat[x] = "GotParams"
        BY <3>1, <3>3 DEF NothingLost, ParamsFirst
      <4>2. j = x => skInf[x] \subseteq skInf'[x]
        BY <1>2, <4>1 DEF HandleVoteParams, HandlePolyResult, HandlePubKeyPart, TypeOK
      <4> QED
        BY <1>1, <3>3, <4>2
    <3>4. CASE Leaving(PolyResult(i, j), i) \/ Coming(PolyResult(i, j), j)
      <4>1. (Leaving(PolyResult(i, j), i) \/ Coming(PolyResult(i, j), j))'
              \/ (j = x /\ PolyResult(i, j) = h)
        BY <3>4, HandleTakesHead, SharesAndPartsTyped
      <4>2. CASE j = x /\ PolyResult(i, j) = h
        <5>1. HandlePolyResult(x, h) /\ h.from = i
          BY <1>2, <4>2, Kinds DEF HandleVoteParams, HandlePubKeyPart
        <5> QED
          BY <3>1, <4>2, <5>1 DEF HandlePolyResult, TypeOK
      <4> QED
        BY <4>1, <4>2
    <3> QED
      BY <3>2, <3>3, <3>4
  <2> QED
    BY <2>1, <2>2
<1>7. Somewhere(h)
  <2>1. 1 \in 1..Len(in[x]) /\ in[x][1] = h
    BY <1>0
  <2> QED
    BY <2>1 DEF Somewhere, Coming, Within
<1>8. \A i \in Party : HandlePubKeyPart(x, h) /\ h.from = i => h = PubKeyPart(i)
  BY <1>0 DEF HandlePubKeyPart, Messages, VoteParams, PubKeyPart
<1>9. ASSUME NEW i \in Party, NEW j \in Party, i \in parts'[j], i \notin parts[j]
      PROVE  j = x /\ HandlePubKeyPart(x, h) /\ h = PubKeyPart(i)
  <2>1. j = x /\ HandlePubKeyPart(x, h)
    BY <1>1, <1>2, <1>9 DEF HandleVoteParams, HandlePolyResult
  <2>2. h.from = i
    BY <1>9, <2>1 DEF HandlePubKeyPart, TypeOK
  <2> QED
    BY <1>8, <2>1, <2>2
<1>10. ASSUME NEW i \in Party, i \in parts'[x]
       PROVE  stat[i] \in {"SentPki", "GotPK"}
  BY <1>7, <1>9, <1>10 DEF NothingLost, PartsAfterShares
<1>11. ASSUME NEW i \in Party, stat'[i] \in {"SentPki", "GotPK"}, stat[i] \notin {"SentPki", "GotPK"}
       PROVE  i = x /\ todo'[x] = <<PubKeyPart(x)>>
  <2>1. i = x
    BY <1>1, <1>11
  <2>2. ~HandlePubKeyPart(x, h)
    BY <1>10, <1>11, <2>1 DEF HandlePubKeyPart, TypeOK
  <2>3. ~HandleVoteParams(x, h)
    BY <1>11, <2>1 DEF HandleVoteParams, TypeOK
  <2> QED
    BY <1>2, <1>11, <2>1, <2>2, <2>3 DEF HandlePolyResult, TypeOK
<1>12. ASSUME NEW i \in Party, stat[i] \in {"SentPki", "GotPK"}
       PROVE  stat'[i] \in {"SentPki", "GotPK"}
  BY <1>1, <1>2, <1>12 DEF HandleVoteParams, HandlePolyResult, HandlePubKeyPart, TypeOK
<1>13. PartsKept'
  <2> SUFFICES ASSUME NEW i \in Party, NEW j \in Party,
                      stat'[i] \in {"SentPki", "GotPK"}, stat'[j] # "GotPK"
               PROVE  (i \in parts[j] \/ Leaving(PubKeyPart(i), i) \/ Coming(PubKeyPart(i), j))'
    BY DEF PartsKept
  <2>1. CASE stat[i] \notin {"SentPki", "GotPK"}
    <3>1. i = x /\ todo'[x] = <<PubKeyPart(x)>>
      BY <1>11, <2>1
    <3>2. 1 \in 1..Len(<<PubKeyPart(x)>>) /\ <<PubKeyPart(x)>>[1] = PubKeyPart(x)
      OBVIOUS
    <3> QED
      BY <3>1, <3>2 DEF Leaving, Within
  <2>2. CASE stat[i] \in {"SentPki", "GotPK"}
    <3>1. stat[j] # "GotPK"
      BY <1>1, <1>2 DEF HandleVoteParams, HandlePolyResult, HandlePubKeyPart, TypeOK
    <3>2. i \in parts[j] => i \in parts'[j]
      BY <1>1, <1>2 DEF HandleVoteParams, HandlePolyResult, HandlePubKeyPart, TypeOK
    <3>3. i \in parts[j] \/ Leaving(PubKeyPart(i), i) \/ Coming(PubKeyPart(i), j)
      BY <2>2, <3>1 DEF NothingLost, PartsKept
    <3>4. CASE Leaving(PubKeyPart(i), i) \/ Coming(PubKeyPart(i), j)
      <4>1. (Leaving(PubKeyPart(i), i) \/ Coming(PubKeyPart(i), j))'
              \/ (j = x /\ PubKeyPart(i) = h)
        BY <3>4, HandleTakesHead, SharesAndPartsTyped
      <4>2. CASE j = x /\ PubKeyPart(i) = h
        <5>1. HandlePubKeyPart(x, h) /\ h.from = i
          BY <1>2, <4>2, Kinds DEF HandleVoteParams, HandlePolyResult
        <5>2. stat[x] \in PartStates
          <6>1. stat[x] # "Confirmed"
            BY <5>1, Kinds DEF NothingLost, ParamsFirst, HandlePubKeyPart
          <6> QED
            BY <3>1, <4>2, <6>1 DEF PartStates, TypeOK, NodeStat
        <5> QED
          BY <4>2, <5>1, <5>2 DEF HandlePubKeyPart, TypeOK
      <4> QED
        BY <4>1, <4>2
    <3> QED
      BY <3>2, <3>3, <3>4
  <2> QED
    BY <2>1, <2>2
<1>14. PartsAfterShares'
  <2> SUFFICES ASSUME NEW i \in Party,
                      Somewhere(PubKeyPart(i))' \/ \E j \in Party : i \in parts'[j]
               PROVE  stat'[i] \in {"SentPki", "GotPK"}
    BY DEF PartsAfterShares
  <2>1. CASE Somewhere(PubKeyPart(i))' /\ ~Somewhere(PubKeyPart(i))
    <3>1. Within(PubKeyPart(i), todo'[x])
      BY <2>1, HandleMakesOnly
    <3>2. todo'[x] # <<>> /\ todo'[x] # Dealing(x)
      <4>1. \A k \in 1..(N - 1) : Dealing(x)[k].type = "PolyResult"
        BY DEF Dealing, PolyResult
      <4>2. ~Within(PubKeyPart(i), Dealing(x))
        BY <4>1, DealingType, Kinds DEF Within
      <4> QED
        BY <3>1, <4>2 DEF Within
    <3>3. HandlePolyResult(x, h) /\ stat'[x] = "SentPki" /\ todo'[x] = <<PubKeyPart(x)>>
      BY <1>0, <1>2, <3>2 DEF HandleVoteParams, HandlePolyResult, HandlePubKeyPart, TypeOK
    <3>4. PubKeyPart(i) = PubKeyPart(x)
      BY <3>1, <3>3 DEF Within
    <3> QED
      BY <3>3, <3>4, Kinds
  <2>2. CASE Somewhere(PubKeyPart(i))
    BY <1>12, <2>2 DEF NothingLost, PartsAfterShares
  <2>3. ASSUME NEW j \in Party, i \in parts'[j]
        PROVE  stat'[i] \in {"SentPki", "GotPK"}
    <3>1. i \in parts[j] \/ (h = PubKeyPart(i))
      BY <1>9, <2>3
    <3> QED
      BY <1>7, <1>12, <3>1 DEF NothingLost, PartsAfterShares
  <2> QED
    BY <2>1, <2>2, <2>3
<1> QED
  BY <1>4, <1>5, <1>6, <1>13, <1>14 DEF NothingLost

LEMMA NothingLostAtFirst == Init => NothingLost
<1> SUFFICES ASSUME Init
             PROVE  NothingLost
  OBVIOUS
<1>1. ParamsFirst /\ OneInHand /\ SharesKept /\ PartsKept
  BY DEF Init, ParamsFirst, OneInHand, SharesKept, PartsKept
<1>2. ASSUME NEW i \in Party
      PROVE  ~Somewhere(PubKeyPart(i))
  <2>1. PubKeyPart(i) # VoteParams
    BY Kinds
  <2> QED
    BY <2>1 DEF Init, Somewhere, Leaving, Coming, Within
<1>3. PartsAfterShares
  BY <1>2 DEF Init, PartsAfterShares
<1>4. GoesOn
  <2>1. 1 \in Party
    BY NAssumption DEF Party
  <2> QED
    BY <2>1 DEF Init, GoesOn
<1> QED
  BY <1>1, <1>3, <1>4 DEF NothingLost

LEMMA NothingLostNext == TypeOK /\ NothingLost /\ [Next]_vars => NothingLost'
<1> SUFFICES ASSUME TypeOK, NothingLost, [Next]_vars
             PROVE  NothingLost'
  OBVIOUS
<1>1. CASE Next
  BY <1>1, PassingKeeps, HandleKeeps DEF Next
<1>2. CASE UNCHANGED vars
  BY <1>2 DEF vars, uiVars, nodeVars, NothingLost, ParamsFirst, OneInHand, SharesKept, PartsKept,
              PartsAfterShares, GoesOn, Somewhere, Leaving, Coming, Within
<1> QED
  BY <1>1, <1>2

\* A share that was dealt and a part that was published reach every phone that
\* still needs them, and no handler returns early on one (server.go:416, :446).
THEOREM NoMessageLost == Spec => []NothingLost
  BY ChannelsTyped, NothingLostAtFirst, NothingLostNext, PTL DEF Spec

\* At rest the channels are empty: a full one would keep both loops of its
\* phone waiting for each other.
LEMMA RestIsEmpty ==
  ASSUME TypeOK, NeverStuck, Resting, NEW i \in Party
  PROVE  todo[i] = <<>> /\ in[i] = <<>> /\ out[i] = <<>> /\ hand[i] = {} /\ net[i] = {}
<1>1. HasRoom(<<>>)
  BY CapAssumption DEF HasRoom
<1>2. hand[i] = {}
  <2> SUFFICES ASSUME hand[i] # {}
               PROVE  FALSE
    OBVIOUS
  <2>1. ~HasRoom(in[i])
    BY DEF Resting
  <2>2. todo[i] # <<>> /\ ~HasRoom(out[i])
    BY <1>1, <2>1 DEF Resting
  <2> QED
    BY <2>1, <2>2 DEF NeverStuck, Stuck
<1>3. out[i] = <<>> /\ net[i] = {}
  BY <1>2 DEF Resting
<1> QED
  BY <1>1, <1>2, <1>3 DEF Resting

\* With room for a message to every party, the phones come to rest only when
\* all have the joint key: every share and every part has arrived.
THEOREM AllGetKey == N <= Cap => (Spec => []EveryoneGetsKey)
<1> SUFFICES ASSUME N <= Cap
             PROVE  Spec => []EveryoneGetsKey
  OBVIOUS
<1>1. TypeOK /\ NeverStuck /\ NothingLost => EveryoneGetsKey
  <2> SUFFICES ASSUME TypeOK, NeverStuck, NothingLost, Resting
               PROVE  \A i \in Party : stat[i] = "GotPK"
    BY DEF EveryoneGetsKey
  <2>1. ASSUME NEW m, NEW i \in Party
        PROVE  ~Leaving(m, i) /\ ~Coming(m, i)
    BY RestIsEmpty DEF Leaving, Coming, Within
  <2>2. \A i \in Party : stat[i] # "Confirmed"
    BY RestIsEmpty DEF NothingLost, ParamsFirst
  <2>3. \A j \in Party : stat[j] # "GotParams"
    <3> SUFFICES ASSUME NEW j \in Party, stat[j] = "GotParams"
                 PROVE  FALSE
      OBVIOUS
    <3>1. \A i \in Party : i \in skInf[j]
      BY <2>1, <2>2 DEF NothingLost, SharesKept, GoesOn
    <3>2. skInf[j] = Party
      BY <3>1 DEF TypeOK
    <3> QED
      BY <3>2 DEF NothingLost, GoesOn
  <2>4. \A i \in Party : stat[i] \in {"SentPki", "GotPK"}
    BY <2>2, <2>3 DEF TypeOK, NodeStat
  <2> SUFFICES ASSUME NEW j \in Party, stat[j] # "GotPK"
               PROVE  FALSE
    OBVIOUS
  <2>5. \A i \in Party : i \in parts[j]
    BY <2>1, <2>4 DEF NothingLost, PartsKept
  <2>6. parts[j] = Party
    BY <2>5 DEF TypeOK
  <2> QED
    BY <2>6 DEF NothingLost, GoesOn
<1> QED
  BY <1>1, ChannelsTyped, RoomForAll, NoMessageLost, PTL

=============================================================================
